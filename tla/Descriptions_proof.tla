------------------------- MODULE Descriptions_proof --------------------------
(***************************************************************************)
(* Proofs about what Kotlin describes and Rust has to understand: schemas  *)
(* (SchemaDeclaration, for any field specifications) and queries           *)
(* (QueryDsl, for any schema, documents and leaves, and trees of any       *)
(* size).                                                                  *)
(*                                                                         *)
(* Fields with one fingerprint are registered alike, kind by kind; and a   *)
(* schema that opened the index registered exactly what is on disk.        *)
(*                                                                         *)
(* Of a query, each kind of node has a lemma on what Rust reads of it      *)
(* (TermRead and the others: Becomes).  QueryIInv says that what is on its *)
(* way is a tree of constructible nodes, written and read node by node.    *)
(* What a tree finds is the history of a loop over its nodes               *)
(* (SearchHistory), so that trees which begin alike find alike up to there *)
(* (SamePrefix), and trees whose nodes find alike find alike (SameFinds).  *)
(***************************************************************************)
EXTENDS SchemaDeclaration, QueryDsl, Selection_proof

(* Schemas *)

\* The scope and the schemas hold fields; no schema is empty.
FieldsOK == /\ scope \in Seq(Specs) /\ schemas \in Seq(Seq(Specs))
            /\ \A i \in DOMAIN schemas : schemas[i] # <<>>

\* What is on disk is what each schema that opened it registers.
DiskInv == /\ users \subseteq DOMAIN schemas
           /\ \A i \in users : disk = newBuilder(schemas[i])

SchemaIInv == FieldsOK /\ DiskInv

-----------------------------------------------------------------------------
(* Fields *)

\* A sequence with two elements put before it.
LEMMA Prefixed ==
  ASSUME NEW u, NEW v, NEW S, NEW h \in Seq(S)
  PROVE  \A s : s = <<u, v>> \o h =>
           /\ Len(s) = 2 + Len(h) /\ s[1] = u /\ s[2] = v
           /\ \A i \in 1..Len(h) : s[i + 2] = h[i]
<1>1. PICK p : p = <<u, v>>
  OBVIOUS
<1>2. PICK T : T = S \cup {u, v}
  OBVIOUS
<1>3. p \in Seq(T) /\ h \in Seq(T) /\ Len(p) = 2 /\ p[1] = u /\ p[2] = v /\ Len(h) \in Nat
  BY <1>1, <1>2
<1>4. Len(p \o h) = Len(p) + Len(h)
      /\ \A i \in 1..(Len(p) + Len(h)) :
           (p \o h)[i] = IF i <= Len(p) THEN p[i] ELSE h[i - Len(p)]
  BY ZenonT(60), <1>3, ConcatProperties
<1>5. Len(p \o h) = 2 + Len(h)
      /\ \A i \in 1..(2 + Len(h)) : (p \o h)[i] = IF i <= 2 THEN p[i] ELSE h[i - 2]
  BY <1>3, <1>4
<1>6. 1 \in 1..(2 + Len(h)) /\ 2 \in 1..(2 + Len(h))
  BY <1>3
<1>7. \A i \in 1..Len(h) : i + 2 \in 1..(2 + Len(h)) /\ ~(i + 2 <= 2) /\ (i + 2) - 2 = i
  BY <1>3
<1>8. PICK q : q = p \o h
  OBVIOUS
<1>9. /\ Len(q) = 2 + Len(h) /\ q[1] = u /\ q[2] = v
      /\ \A i \in 1..Len(h) : q[i + 2] = h[i]
  BY <1>3, <1>5, <1>6, <1>7, <1>8
<1> QED BY <1>1, <1>8, <1>9

\* A print is the name, the kind, and the options of the kind in order.
LEMMA PrintParts ==
  ASSUME NEW a, NEW b, NEW c, NEW d, NEW S, NEW f \in Seq(S), NEW g \in Seq(S),
         <<a, b>> \o f = <<c, d>> \o g
  PROVE  a = c /\ b = d /\ f = g
<1>1. PICK s : s = <<a, b>> \o f /\ s = <<c, d>> \o g
  OBVIOUS
<1>2. /\ Len(s) = 2 + Len(f) /\ s[1] = a /\ s[2] = b
      /\ \A i \in 1..Len(f) : s[i + 2] = f[i]
  BY <1>1, Prefixed
<1>3. /\ Len(s) = 2 + Len(g) /\ s[1] = c /\ s[2] = d
      /\ \A i \in 1..Len(g) : s[i + 2] = g[i]
  BY <1>1, Prefixed
<1>4. Len(f) \in Nat /\ Len(g) \in Nat
  OBVIOUS
<1>5. Len(f) = Len(g)
  BY <1>2, <1>3, <1>4
<1>6. \A i \in 1..Len(f) : f[i] = g[i]
  BY <1>2, <1>3, <1>5
<1>7. f = g
  BY <1>5, <1>6, SeqEqual
<1> QED BY <1>2, <1>3, <1>7

\* The options in the print of a field.
Options(spec) ==
  CASE spec.kind = "id" -> <<>>
    [] spec.kind = "text" ->
         <<spec.tokenizer, spec.record, spec.stored, spec.fast, spec.fieldnorms>>
    [] spec.kind \in Numeric -> <<spec.indexed, spec.stored, spec.fast, spec.fieldnorms>>
    [] spec.kind = "date" ->
         <<spec.indexed, spec.stored, spec.fast, spec.fieldnorms, spec.precision>>
    [] spec.kind = "bytes" -> <<spec.stored, spec.fast, spec.indexed>>
    [] spec.kind = "facet" -> <<spec.stored>>
    [] spec.kind = "json" ->
         <<spec.stored, spec.indexed, spec.fast, spec.tokenizer, spec.record,
           spec.fieldnorms, spec.expandDots, spec.fastTokenizer>>

\* The values of the options of a field.
Values(spec) == {spec.tokenizer, spec.record, spec.stored, spec.fast, spec.fieldnorms,
                 spec.indexed, spec.precision, spec.expandDots, spec.fastTokenizer}

\* Options are a sequence of values.
LEMMA OptionsType == ASSUME NEW s \in Specs PROVE Options(s) \in Seq(Values(s))
<1>1. PICK kind : kind = s.kind /\ kind \in Numeric \cup {"id", "text", "date", "bytes", "facet", "json"}
  BY SpecsAssumption
<1>2. PICK V : V = Values(s)
  OBVIOUS
<1>3. /\ s.tokenizer \in V /\ s.record \in V /\ s.stored \in V /\ s.fast \in V /\ s.fieldnorms \in V
      /\ s.indexed \in V /\ s.precision \in V /\ s.expandDots \in V /\ s.fastTokenizer \in V
  BY <1>2 DEF Values
<1>4. Options(s) \in Seq(V)
  BY <1>1, <1>3 DEF Options, Numeric
<1> QED BY <1>2, <1>4

\* Fields with one print are of one name and kind and have the same options.
LEMMA SameOptions ==
  ASSUME NEW x \in Specs, NEW y \in Specs, print(x) = print(y)
  PROVE  x.name = y.name /\ x.kind = y.kind /\ Options(x) = Options(y)
<1>1. print(x) = <<x.name, x.kind>> \o Options(x) /\ print(y) = <<y.name, y.kind>> \o Options(y)
  BY DEF print, Options
<1>2. Options(x) \in Seq(Values(x) \cup Values(y)) /\ Options(y) \in Seq(Values(x) \cup Values(y))
  BY OptionsType
<1>3. <<x.name, x.kind>> \o Options(x) = <<y.name, y.kind>> \o Options(y)
  BY <1>1
<1> QED BY SMTT(60), <1>2, <1>3, PrintParts

\* Fields with one print are registered alike.
LEMMA PrintTells ==
  ASSUME NEW x \in Specs, NEW y \in Specs, print(x) = print(y)
  PROVE  register(x) = register(y)
<1>1. x.name = y.name /\ x.kind = y.kind /\ Options(x) = Options(y)
  BY SameOptions
<1>2. x.kind \in Numeric \cup {"id", "text", "date", "bytes", "facet", "json"}
  BY SpecsAssumption
<1>3. CASE x.kind = "id"
  BY <1>1, <1>3 DEF register, Numeric
<1>4. CASE x.kind = "text"
  <2>1. /\ x.tokenizer = y.tokenizer /\ x.record = y.record /\ x.stored = y.stored
        /\ x.fast = y.fast /\ x.fieldnorms = y.fieldnorms
    BY <1>1, <1>4 DEF Options, Numeric
  <2> QED BY <1>1, <1>4, <2>1 DEF register, Numeric
<1>5. CASE x.kind \in Numeric
  <2>1. /\ x.indexed = y.indexed /\ x.stored = y.stored
        /\ x.fast = y.fast /\ x.fieldnorms = y.fieldnorms
    BY <1>1, <1>5 DEF Options, Numeric
  <2>2. add_numeric_field(x, x.kind, <<>>) = add_numeric_field(y, y.kind, <<>>)
    BY <1>1, <2>1 DEF add_numeric_field
  <2> QED BY <1>1, <1>5, <2>2 DEF register, Numeric
<1>6. CASE x.kind = "date"
  <2>1. /\ x.indexed = y.indexed /\ x.stored = y.stored /\ x.precision = y.precision
        /\ x.fast = y.fast /\ x.fieldnorms = y.fieldnorms
    BY <1>1, <1>6 DEF Options, Numeric
  <2>2. add_numeric_field(x, "date", <<x.precision>>) = add_numeric_field(y, "date", <<y.precision>>)
    BY <1>1, <2>1 DEF add_numeric_field
  <2> QED BY <1>1, <1>6, <2>2 DEF register, Numeric
<1>7. CASE x.kind = "bytes"
  <2>1. x.stored = y.stored /\ x.fast = y.fast /\ x.indexed = y.indexed
    BY <1>1, <1>7 DEF Options, Numeric
  <2> QED BY <1>1, <1>7, <2>1 DEF register, Numeric
<1>8. CASE x.kind = "facet"
  <2>1. x.stored = y.stored
    BY <1>1, <1>8 DEF Options, Numeric
  <2> QED BY <1>1, <1>8, <2>1 DEF register, Numeric
<1>9. CASE x.kind = "json"
  <2>1. /\ x.stored = y.stored /\ x.indexed = y.indexed /\ x.fast = y.fast
        /\ x.tokenizer = y.tokenizer /\ x.record = y.record /\ x.fieldnorms = y.fieldnorms
        /\ x.expandDots = y.expandDots /\ x.fastTokenizer = y.fastTokenizer
    BY <1>1, <1>9 DEF Options, Numeric
  <2>2. add_json_field(x) = add_json_field(y)
    BY <1>1, <2>1 DEF add_json_field
  <2> QED BY <1>1, <1>9, <2>2 DEF register, Numeric
<1> QED BY <1>2, <1>3, <1>4, <1>5, <1>6, <1>7, <1>8, <1>9

\* A field is registered under its name, with the type of the values it accepts.
LEMMA RegisteredAsAccepted ==
  ASSUME NEW s \in Specs PROVE register(s).name = s.name /\ register(s).type = accepts(s)
<1>1. s.kind \in Numeric \cup {"id", "text", "date", "bytes", "facet", "json"}
  BY SpecsAssumption
<1>2. CASE s.kind \in Numeric
  BY <1>2 DEF register, accepts, add_numeric_field, Entry, Numeric
<1>3. CASE s.kind = "id" \/ s.kind = "text"
  BY <1>3 DEF register, accepts, add_text_field, Entry, Numeric
<1>4. CASE s.kind \in {"date", "bytes", "facet", "json"}
  BY <1>4 DEF register, accepts, add_numeric_field, add_json_field, Entry, Numeric
<1> QED BY <1>1, <1>2, <1>3, <1>4

-----------------------------------------------------------------------------
(* Schemas *)

\* Fields with one fingerprint register the same entries.
LEMMA FingerprintTells ==
  ASSUME NEW a \in Seq(Specs), NEW b \in Seq(Specs), fingerprint(a) = fingerprint(b)
  PROVE  ToSet(newBuilder(a)) = ToSet(newBuilder(b))
<1>1. ASSUME NEW p \in Seq(Specs), NEW q \in Seq(Specs), fingerprint(p) = fingerprint(q),
             NEW i \in DOMAIN p
      PROVE  \E j \in DOMAIN q : register(p[i]) = register(q[j])
  <2>1. PICK j \in DOMAIN q : print(p[i]) = print(q[j])
    BY <1>1 DEF fingerprint
  <2>2. p[i] \in Specs /\ q[j] \in Specs
    OBVIOUS
  <2> QED BY <2>1, <2>2, PrintTells
<1>2. ASSUME NEW p \in Seq(Specs), NEW q \in Seq(Specs), fingerprint(p) = fingerprint(q)
      PROVE  ToSet(newBuilder(p)) \subseteq ToSet(newBuilder(q))
  BY <1>1, <1>2 DEF ToSet, newBuilder
<1> QED BY ZenonT(60), <1>2

\* It holds before anything is declared.
LEMMA InitInv == Init => SchemaIInv
<1> SUFFICES ASSUME Init PROVE SchemaIInv
  OBVIOUS
<1>1. scope = <<>> /\ schemas = <<>> /\ users = {}
  BY DEF Init
<1>2. <<>> \in Seq(Specs) /\ <<>> \in Seq(Seq(Specs)) /\ DOMAIN <<>> = {}
  OBVIOUS
<1> QED BY <1>1, <1>2 DEF SchemaIInv, FieldsOK, DiskInv

\* The entries of a schema that is not empty are not empty.
LEMMA NotEmpty == ASSUME NEW s \in Seq(Specs), s # <<>> PROVE newBuilder(s) # <<>>
<1>1. 1 \in DOMAIN s
  OBVIOUS
<1>2. 1 \in DOMAIN newBuilder(s)
  BY <1>1 DEF newBuilder
<1> QED BY <1>2

\* Every step keeps it.
LEMMA NextInv == SchemaIInv /\ [Next]_vars => SchemaIInv'
<1> SUFFICES ASSUME SchemaIInv, [Next]_vars PROVE SchemaIInv'
  OBVIOUS
<1>1. /\ scope \in Seq(Specs) /\ schemas \in Seq(Seq(Specs))
      /\ \A i \in DOMAIN schemas : schemas[i] # <<>>
      /\ users \subseteq DOMAIN schemas /\ \A i \in users : disk = newBuilder(schemas[i])
  BY DEF SchemaIInv, FieldsOK, DiskInv
<1>2. ASSUME NEW spec \in Specs, declare(spec) PROVE SchemaIInv'
  <2>1. scope' \in Seq(Specs) /\ UNCHANGED <<schemas, disk, users>>
    BY <1>1, <1>2 DEF declare
  <2> QED BY <1>1, <2>1 DEF SchemaIInv, FieldsOK, DiskInv
<1>3. CASE build
  <2>1. scope # <<>> /\ schemas' = Append(schemas, scope) /\ UNCHANGED <<scope, disk, users>>
    BY <1>3 DEF build
  <2>2. PICK f \in Seq(Specs) : f = scope
    BY <1>1
  <2>3. /\ schemas' \in Seq(Seq(Specs)) /\ DOMAIN schemas' = DOMAIN schemas \cup {Len(schemas) + 1}
        /\ schemas'[Len(schemas) + 1] = f
        /\ \A i \in DOMAIN schemas : schemas'[i] = schemas[i]
    BY <1>1, <2>1, <2>2
  <2> QED BY <1>1, <2>1, <2>2, <2>3 DEF SchemaIInv, FieldsOK, DiskInv
<1>4. CASE extending
  <2>1. scope' \in Seq(Specs)
    <3>1. ToSet(schemas) \subseteq Seq(Specs)
      BY <1>1 DEF ToSet
    <3>2. <<>> \in Seq(Specs)
      OBVIOUS
    <3>3. PICK fields \in ToSet(schemas) \cup {<<>>} : scope' = fields
      BY <1>4 DEF extending
    <3> QED BY <3>1, <3>2, <3>3
  <2> QED BY <1>1, <1>4, <2>1 DEF extending, SchemaIInv, FieldsOK, DiskInv
<1>5. ASSUME NEW i \in DOMAIN schemas, open(i) PROVE SchemaIInv'
  <2>1. /\ disk \in {<<>>, newBuilder(schemas[i])} /\ disk' = newBuilder(schemas[i])
        /\ users' = users \cup {i} /\ UNCHANGED <<scope, schemas>>
    BY <1>5 DEF open
  <2>2. \A j \in users : newBuilder(schemas[j]) # <<>>
    <3>1. \A j \in users : schemas[j] \in Seq(Specs) /\ schemas[j] # <<>>
      BY <1>1
    <3> QED BY <3>1, NotEmpty
  <2>3. \A j \in users : newBuilder(schemas[j]) = newBuilder(schemas[i])
    BY <1>1, <2>1, <2>2
  <2>4. DiskInv'
    BY <1>1, <2>1, <2>3 DEF DiskInv, newBuilder
  <2> QED BY <1>1, <2>1, <2>4 DEF SchemaIInv, FieldsOK
<1>6. CASE UNCHANGED vars
  BY <1>1, <1>6 DEF vars, SchemaIInv, FieldsOK, DiskInv
<1> QED BY <1>2, <1>3, <1>4, <1>5, <1>6 DEF Next

\* It holds in every state.
LEMMA Invariance == Spec => []SchemaIInv
BY InitInv, NextInv, PTL DEF Spec

\* No option that makes the engine refuse an index is missing from the
\* fingerprint: schemas that share one register the same entries.
THEOREM FingerprintsAreComplete == Spec => []FingerprintTellsOptions
<1>1. SchemaIInv => FingerprintTellsOptions
  <2> SUFFICES ASSUME SchemaIInv, NEW i \in DOMAIN schemas, NEW j \in DOMAIN schemas,
                      fingerprint(schemas[i]) = fingerprint(schemas[j])
               PROVE  ToSet(newBuilder(schemas[i])) = ToSet(newBuilder(schemas[j]))
    BY DEF FingerprintTellsOptions
  <2>1. schemas[i] \in Seq(Specs) /\ schemas[j] \in Seq(Specs)
    BY DEF SchemaIInv, FieldsOK
  <2> QED BY <2>1, FingerprintTells
<1> QED BY <1>1, Invariance, PTL

\* Whichever schema opened the index, its fields are those on disk, in order,
\* and take values of the kind the index holds.
THEOREM WritersMatch == Spec => []WriterMatchesIndex
<1>1. SchemaIInv => WriterMatchesIndex
  <2> SUFFICES ASSUME SchemaIInv, NEW i \in users
               PROVE  /\ Len(schemas[i]) = Len(disk)
                      /\ \A n \in DOMAIN disk :
                           schemas[i][n].name = disk[n].name
                           /\ accepts(schemas[i][n]) = disk[n].type
    BY DEF WriterMatchesIndex
  <2>1. PICK s \in Seq(Specs) : s = schemas[i] /\ disk = newBuilder(s)
    BY DEF SchemaIInv, FieldsOK, DiskInv
  <2>2. DOMAIN disk = DOMAIN s /\ \A n \in DOMAIN s : disk[n] = register(s[n])
    BY <2>1 DEF newBuilder
  <2>3. Len(disk) = Len(s)
    <3>1. DOMAIN s = 1..Len(s) /\ Len(s) \in Nat
      OBVIOUS
    <3>2. disk \in Seq({register(s[n]) : n \in 1..Len(s)})
      BY <2>1, <3>1 DEF newBuilder
    <3> QED BY <2>2, <3>1, <3>2
  <2>4. \A n \in DOMAIN s : s[n] \in Specs
    OBVIOUS
  <2> QED BY <2>1, <2>2, <2>3, <2>4, RegisteredAsAccepted
<1> QED BY <1>1, Invariance, PTL

-----------------------------------------------------------------------------
(* Queries: what is written and what is read *)

\* A list is the function of its elements.
LEMMA ListFacts ==
  ASSUME NEW s, IsList(s)
  PROVE  Len(s) \in Nat /\ DOMAIN s = 1..Len(s) /\ s = [i \in DOMAIN s |-> s[i]]
BY DEF IsList

\* An optional is nothing or one thing.
LEMMA OptionalFacts ==
  ASSUME NEW s, IsOptional(s)
  PROVE  /\ s = <<>> \/ s = <<s[1]>>
         /\ s # <<>> => DOMAIN s = {1}
         /\ s = <<>> => DOMAIN s = {}
<1>1. Len(s) \in Nat /\ DOMAIN s = 1..Len(s) /\ s = [i \in DOMAIN s |-> s[i]] /\ Len(s) <= 1
  BY ListFacts DEF IsOptional
<1>2. CASE Len(s) = 0
  BY <1>1, <1>2
<1>3. CASE Len(s) = 1
  BY <1>1, <1>3
<1> QED BY <1>1, <1>2, <1>3

\* The object of a node.
LEMMA NodeFacts ==
  ASSUME NEW tag, NEW keys, "type" \notin DOMAIN keys
  PROVE  /\ Node(tag, keys).js = "object"
         /\ DOMAIN Node(tag, keys).v = {"type"} \cup {k \in DOMAIN keys : keys[k] # Absent}
         /\ Node(tag, keys).v["type"].js = "string"
         /\ Node(tag, keys).v["type"].v = tag
         /\ \A k \in DOMAIN keys : keys[k] # Absent => Node(tag, keys).v[k] = keys[k]
BY DEF Node, Obj, Str

\* What a node is read from, key by key.
Written(tag, keys) ==
  /\ tag \in DOMAIN Variants /\ DOMAIN keys = DOMAIN Variants[tag] /\ "type" \notin DOMAIN keys
  /\ \A k \in DOMAIN keys : keys[k] = Absent => Variants[tag][k][1] = "maybe"

\* What is read of a node.
LEMMA NodeRead ==
  ASSUME NEW tag, NEW keys, Written(tag, keys)
  PROVE  /\ ReadNode(Node(tag, keys)).type = tag
         /\ \A k \in DOMAIN keys :
              /\ keys[k] # Absent => ReadNode(Node(tag, keys))[k] = ReadKey(Variants[tag][k], keys[k])
              /\ keys[k] = Absent => ReadNode(Node(tag, keys))[k] = <<>>
<1> DEFINE j == Node(tag, keys)
<1>1. /\ DOMAIN j.v = {"type"} \cup {k \in DOMAIN keys : keys[k] # Absent}
      /\ j.v["type"].v = tag
      /\ \A k \in DOMAIN keys : keys[k] # Absent => j.v[k] = keys[k]
  BY NodeFacts DEF Written
<1> HIDE DEF j
<1>2. ReadNode(j)["type"] = tag
  BY <1>1 DEF ReadNode
<1>3. ReadNode(j).type = tag
  BY <1>2
<1>4. ASSUME NEW k \in DOMAIN keys
      PROVE  /\ keys[k] # Absent => ReadNode(j)[k] = ReadKey(Variants[tag][k], keys[k])
             /\ keys[k] = Absent => ReadNode(j)[k] = <<>>
  <2>1. k # "type" /\ k \in DOMAIN Variants[tag]
    BY DEF Written
  <2> QED BY <1>1, <2>1 DEF ReadNode
<1> QED BY <1>3, <1>4 DEF j

LEMMA NodeReads ==
  ASSUME NEW tag, NEW keys, Written(tag, keys),
         \A k \in DOMAIN keys : keys[k] # Absent => ReadsKey(Variants[tag][k], keys[k])
  PROVE  ReadsNode(Node(tag, keys))
<1> DEFINE j == Node(tag, keys)
<1>1. /\ DOMAIN j.v = {"type"} \cup {k \in DOMAIN keys : keys[k] # Absent}
      /\ j.js = "object" /\ j.v["type"].js = "string" /\ j.v["type"].v = tag
      /\ \A k \in DOMAIN keys : keys[k] # Absent => j.v[k] = keys[k]
  BY NodeFacts DEF Written
<1> HIDE DEF j
<1>2. Tagged(j, DOMAIN Variants)
  BY <1>1 DEF Tagged, Written
<1>3. ASSUME NEW k \in DOMAIN Variants[tag]
      PROVE  IF k \in DOMAIN j.v THEN ReadsKey(Variants[tag][k], j.v[k]) ELSE Variants[tag][k][1] = "maybe"
  BY <1>1 DEF Written
<1> QED BY <1>1, <1>2, <1>3 DEF ReadsNode, j

-----------------------------------------------------------------------------
(* The values of keys *)

\* A plain value of a key, alone, in a list, or optional.
LEMMA OneKey ==
  ASSUME NEW what, NEW j
  PROVE  /\ ReadKey(<<"one", what>>, j) = ReadItem(what, j)
         /\ ReadsItem(what, j) => ReadsKey(<<"one", what>>, j)
BY DEF ReadKey, ReadsKey, Elements, Fits, Gathered

LEMMA MaybeKey ==
  ASSUME NEW what, NEW j, j.js # "null"
  PROVE  /\ ReadKey(<<"maybe", what>>, j) = <<ReadItem(what, j)>>
         /\ ReadsItem(what, j) => ReadsKey(<<"maybe", what>>, j)
BY DEF ReadKey, ReadsKey, Elements, Fits, Gathered

LEMMA ManyKey ==
  ASSUME NEW what, NEW s
  PROVE  /\ ReadKey(<<"many", what>>, Arr(s)) = [i \in DOMAIN s |-> ReadItem(what, s[i])]
         /\ (\A i \in DOMAIN s : ReadsItem(what, s[i])) => ReadsKey(<<"many", what>>, Arr(s))
BY DEF ReadKey, ReadsKey, Elements, Fits, Gathered, Arr

Base == {"String", "Occur", "Query", "bool", "u8", "u32", "u64", "i64", "f32", "f64"}

LEMMA BaseItem ==
  ASSUME NEW what \in Base, NEW j
  PROVE  ReadItem(what, j) = j.v /\ ReadsItem(what, j) = ReadsBase(what, j)
<1>1. what \notin DOMAIN Structs /\ what # "FieldValue"
  BY DEF Base, Structs
<1> QED BY <1>1 DEF ReadItem, ReadsItem, ReadPart, ReadsPart

\* When a plain value is read.
LEMMA BaseReads ==
  ASSUME NEW j
  PROVE  /\ j.js = "query" => ReadsBase("Query", j)
         /\ j.js = "string" => ReadsBase("String", j)
         /\ j.js = "string" /\ j.v \in {"must", "should", "must_not"} => ReadsBase("Occur", j)
         /\ j.js = "bool" => ReadsBase("bool", j)
         /\ j.js = "number" /\ j.v \in 0..255 => ReadsBase("u8", j)
         /\ j.js = "number" /\ j.v \in Nat => ReadsBase("u32", j) /\ ReadsBase("u64", j)
         /\ j.js = "number" => ReadsBase("i64", j) /\ ReadsBase("f32", j) /\ ReadsBase("f64", j)
BY DEF ReadsBase, InByte

\* What Rust has of a value: bytes are unsigned there.
RustValue(value) ==
  [kind |-> value.kind,
   data |-> IF value.kind = "bytes" THEN [i \in DOMAIN value.data |-> value.data[i] % 256]
            ELSE value.data]

\* The value is a number if it should be one.
Finite(value) == value.kind \in Ordered => value.data \in Int

\* It has a place among the terms if it should.
Placed(value) == value.kind \notin Ordered \cup {"json"} => Key(RustValue(value)) \in Int

\* Bounds that are terms have places.
LEMMA BoundKey ==
  ASSUME NEW value, IsValue(value), Finite(value), Placed(value), value.kind # "json"
  PROVE  Key(RustValue(value)) \in Int
<1>1. CASE value.kind \in Ordered
  <2>1. value.kind # "bytes"
    BY <1>1 DEF Ordered
  <2>2. RustValue(value).kind = value.kind /\ RustValue(value).data = value.data
    BY <2>1 DEF RustValue
  <2> QED BY <1>1, <2>2 DEF Finite, Key
<1>2. CASE value.kind \notin Ordered
  BY <1>2 DEF Placed
<1> QED BY <1>1, <1>2

\* A number that is one is written as one.
LEMMA NumFacts ==
  ASSUME NEW n
  PROVE  /\ n \in Int => n # NotFinite
         /\ n # NotFinite => Num(n).js = "number" /\ Num(n).v = n
         /\ Num(n).js # "bare" => n # NotFinite
BY DocsAssumption DEF Num

\* A byte is written as one without a sign.
LEMMA ByteFacts ==
  ASSUME NEW b \in -128..127
  PROVE  ReadsBase("u8", Num(b % 256)) /\ Num(b % 256).v = b % 256
<1>1. PICK n \in 0..255 : n = b % 256
  OBVIOUS
<1>2. Num(n).js = "number" /\ Num(n).v = n
  <2>1. n \in Int
    OBVIOUS
  <2> QED BY <2>1, NumFacts
<1>3. ReadsBase("u8", Num(n))
  BY <1>2, BaseReads
<1> QED BY <1>1, <1>2, <1>3

\* The object of a value.
LEMMA ElementFacts ==
  ASSUME NEW value
  PROVE  /\ toJsonElement(value).js = "object"
         /\ DOMAIN toJsonElement(value).v = {"type", "value"}
         /\ toJsonElement(value).v["type"].js = "string"
         /\ toJsonElement(value).v["type"].v = value.kind
         /\ toJsonElement(value).v["value"] =
              CASE value.kind \in {"text", "facet", "json"} -> Str(value.data)
                [] value.kind = "bool" -> Bool(value.data)
                [] value.kind = "bytes" -> Arr([i \in DOMAIN value.data |-> Num(value.data[i] % 256)])
                [] OTHER -> Num(value.data)
BY DEF toJsonElement, Obj, Str

\* Rust reads every value that Kotlin has and JSON can carry.
LEMMA ValueRead ==
  ASSUME NEW value, IsValue(value), Finite(value)
  PROVE  /\ ReadsValue(toJsonElement(value))
         /\ ReadValue(toJsonElement(value)) = RustValue(value)
<1> DEFINE j == toJsonElement(value)
<1>1. /\ j.js = "object" /\ DOMAIN j.v = {"type", "value"}
      /\ j.v["type"].js = "string" /\ j.v["type"].v = value.kind
      /\ j.v["value"] =
           CASE value.kind \in {"text", "facet", "json"} -> Str(value.data)
             [] value.kind = "bool" -> Bool(value.data)
             [] value.kind = "bytes" -> Arr([i \in DOMAIN value.data |-> Num(value.data[i] % 256)])
             [] OTHER -> Num(value.data)
  BY ElementFacts
<1> HIDE DEF j
<1>2. /\ value.kind \in {"text", "facet", "json", "bool", "bytes", "u64", "i64", "f64", "date"}
      /\ value.kind \in Ordered => value.data \in Int
      /\ value.kind = "u64" => value.data >= 0
      /\ value.kind = "bytes" => value.data \in Seq(-128..127)
  BY DEF IsValue, Finite, Ordered
<1>3. DOMAIN FieldValues = {"text", "facet", "json", "bool", "bytes", "u64", "i64", "f64", "date"}
  BY DEF FieldValues
<1>4. Tagged(j, DOMAIN FieldValues) /\ "value" \in DOMAIN j.v
  BY <1>1, <1>2, <1>3 DEF Tagged
<1>5. CASE value.kind \in {"text", "facet", "json"}
  <2>1. FieldValues[value.kind] = <<"one", "String">>
    BY <1>5 DEF FieldValues
  <2>2. j.v["value"].js = "string" /\ j.v["value"].v = value.data
    BY SMTT(60), <1>1, <1>5 DEF Str
  <2>3. ReadsValue(j)
    BY SMTT(60), <1>1, <1>4, <2>1, <2>2 DEF ReadsValue, Elements, Fits, ReadsBase
  <2>4. ReadValue(j) = RustValue(value)
    BY <1>1, <1>5, <2>1, <2>2 DEF ReadValue, RustValue, Elements, Gathered
  <2> QED BY <2>3, <2>4 DEF j
<1>6. CASE value.kind = "bool"
  <2>1. FieldValues[value.kind] = <<"one", "bool">>
    BY <1>6 DEF FieldValues
  <2>2. j.v["value"].js = "bool" /\ j.v["value"].v = value.data
    BY SMTT(60), <1>1, <1>6 DEF Bool
  <2>3. ReadsValue(j)
    BY <1>1, <1>4, <2>1, <2>2 DEF ReadsValue, Elements, Fits, ReadsBase
  <2>4. ReadValue(j) = RustValue(value)
    BY <1>1, <1>6, <2>1, <2>2 DEF ReadValue, RustValue, Elements, Gathered
  <2> QED BY <2>3, <2>4 DEF j
<1>7. CASE value.kind \in Ordered
  <2>1. PICK what \in {"u64", "i64", "f64"} :
          /\ FieldValues[value.kind] = <<"one", what>>
          /\ what = "u64" => value.kind = "u64"
    BY <1>7 DEF FieldValues, Ordered
  <2>2. j.v["value"].js = "number" /\ j.v["value"].v = value.data
    <3>1. j.v["value"] = Num(value.data)
      BY <1>1, <1>7 DEF Ordered
    <3> QED BY <1>2, <1>7, <3>1, NumFacts
  <2>3. ReadsBase(what, j.v["value"])
    BY <1>2, <2>1, <2>2 DEF ReadsBase
  <2>4. ReadsValue(j)
    BY SMTT(60), <1>1, <1>4, <2>1, <2>3 DEF ReadsValue, Elements, Fits
  <2>5. ReadValue(j) = RustValue(value)
    BY <1>1, <1>7, <2>1, <2>2 DEF ReadValue, RustValue, Elements, Gathered, Ordered
  <2> QED BY <2>4, <2>5 DEF j
<1>8. CASE value.kind = "bytes"
  <2>1. FieldValues[value.kind] = <<"many", "u8">>
    BY <1>8 DEF FieldValues
  <2> DEFINE s == [i \in DOMAIN value.data |-> Num(value.data[i] % 256)]
  <2>2. j.v["value"].js = "array" /\ j.v["value"].v = s
    BY <1>1, <1>8 DEF Arr
  <2>3. \A i \in DOMAIN s : ReadsBase("u8", s[i]) /\ s[i].v = value.data[i] % 256
    <3>1. \A i \in DOMAIN value.data : value.data[i] \in -128..127
      <4>1. value.data \in Seq(-128..127)
        BY <1>2, <1>8
      <4> DEFINE B == -128..127
      <4> HIDE DEF B, s
      <4>2. \A x \in Seq(B) : \A i \in DOMAIN x : x[i] \in B
        OBVIOUS
      <4> QED BY <4>1, <4>2 DEF B
    <3>2. \A i \in DOMAIN value.data :
            ReadsBase("u8", Num(value.data[i] % 256)) /\ Num(value.data[i] % 256).v = value.data[i] % 256
      <4> TAKE i \in DOMAIN value.data
      <4> QED BY ZenonT(60), <3>1, ByteFacts
    <3> QED BY <3>2
  <2> HIDE DEF s
  <2>4. ReadsValue(j)
    <3>1. \A i \in DOMAIN s : ReadsBase("u8", s[i])
      BY <2>3
    <3>2. j.v["type"].v = "bytes"
      BY <1>1, <1>8
    <3>3. FieldValues["bytes"] = <<"many", "u8">>
      BY <1>8, <2>1
    <3> QED BY <1>4, <2>2, <3>1, <3>2, <3>3 DEF ReadsValue, Elements, Fits
  <2>5. ReadValue(j) = RustValue(value)
    <3>1. ReadValue(j) = [kind |-> value.kind, data |-> [i \in DOMAIN s |-> s[i].v]]
      BY SMTT(60), <1>1, <2>1, <2>2 DEF ReadValue, Elements, Gathered
    <3>2. [i \in DOMAIN s |-> s[i].v] = [i \in DOMAIN value.data |-> value.data[i] % 256]
      <4>1. DOMAIN s = DOMAIN value.data
        BY DEF s
      <4> QED BY <2>3, <4>1
    <3> QED BY SMTT(60), <1>8, <3>1, <3>2 DEF RustValue
  <2> QED BY <2>4, <2>5 DEF j
<1> QED BY <1>2, <1>5, <1>6, <1>7, <1>8 DEF Ordered

\* A value alone or behind an optional.
LEMMA ValueItem ==
  ASSUME NEW value, IsValue(value), Finite(value)
  PROVE  /\ ReadItem("FieldValue", toJsonElement(value)) = RustValue(value)
         /\ ReadsItem("FieldValue", toJsonElement(value))
<1>1. "FieldValue" \notin DOMAIN Structs
  BY DEF Structs
<1> QED BY <1>1, ValueRead DEF ReadItem, ReadsItem, ReadPart, ReadsPart

\* A term: a field name and a value.
LEMMA TermItem ==
  ASSUME NEW field, NEW value, IsValue(value), Finite(value)
  PROVE  /\ ReadItem("DocumentField", termObject(field, value)) = [name |-> field, value |-> RustValue(value)]
         /\ ReadsItem("DocumentField", termObject(field, value))
<1> DEFINE j == termObject(field, value)
<1>1. /\ j.js = "object" /\ DOMAIN j.v = {"name", "value"}
      /\ j.v["name"].js = "string" /\ j.v["name"].v = field /\ j.v["value"] = toJsonElement(value)
  BY DEF termObject, Obj, Str
<1> HIDE DEF j
<1>2. /\ "DocumentField" \in DOMAIN Structs
      /\ Structs["DocumentField"] = [name |-> "String", value |-> "FieldValue"]
  BY DEF Structs
<1>3. ReadItem("DocumentField", j) = [name |-> field, value |-> RustValue(value)]
  BY <1>1, <1>2, ValueRead DEF ReadItem, ReadPart
<1>4. ReadsItem("DocumentField", j)
  BY <1>1, <1>2, ValueRead DEF ReadsItem, ReadsPart, ReadsBase
<1> QED BY <1>3, <1>4 DEF j

\* A clause.
LEMMA ClauseItem ==
  ASSUME NEW occur \in Occurs, NEW position,
         NEW j, j = Obj([occur |-> Str(occurJson(occur)), query |-> Query(position)])
  PROVE  /\ ReadItem("Clause", j) = [occur |-> occurJson(occur), query |-> position]
         /\ ReadsItem("Clause", j)
<1>1. /\ j.js = "object" /\ DOMAIN j.v = {"occur", "query"}
      /\ j.v["occur"].js = "string" /\ j.v["occur"].v = occurJson(occur)
      /\ j.v["query"].js = "query" /\ j.v["query"].v = position
  BY DEF Obj, Str, Query
<1>2. "Clause" \in DOMAIN Structs /\ Structs["Clause"] = [occur |-> "Occur", query |-> "Query"]
  BY DEF Structs
<1>3. occurJson(occur) \in {"must", "should", "must_not"}
  BY DEF occurJson, Occurs
<1>4. ReadItem("Clause", j) = [occur |-> occurJson(occur), query |-> position]
  BY <1>1, <1>2 DEF ReadItem, ReadPart
<1>5. ReadsItem("Clause", j)
  BY <1>1, <1>2, <1>3 DEF ReadsItem, ReadsPart, ReadsBase
<1> QED BY <1>4, <1>5

\* A fuzzy field.
LEMMA FuzzyItem ==
  ASSUME NEW f, f.distance \in 0..255,
         NEW j, j = Obj([field_name |-> Str(f.fieldName), prefix |-> Bool(f.prefix),
                         distance |-> Num(f.distance),
                         transpose_cost_one |-> Bool(f.transposeCostOne)])
  PROVE  /\ ReadItem("FuzzyField", j) = [field_name |-> f.fieldName, prefix |-> f.prefix,
                                         distance |-> f.distance,
                                         transpose_cost_one |-> f.transposeCostOne]
         /\ ReadsItem("FuzzyField", j)
<1>1. /\ j.js = "object" /\ DOMAIN j.v = {"field_name", "prefix", "distance", "transpose_cost_one"}
      /\ j.v["field_name"].js = "string" /\ j.v["field_name"].v = f.fieldName
      /\ j.v["prefix"].js = "bool" /\ j.v["prefix"].v = f.prefix
      /\ j.v["distance"].js = "number" /\ j.v["distance"].v = f.distance
      /\ j.v["transpose_cost_one"].js = "bool" /\ j.v["transpose_cost_one"].v = f.transposeCostOne
  BY SMTT(60), NumFacts DEF Obj, Str, Bool
<1>2. /\ "FuzzyField" \in DOMAIN Structs
      /\ Structs["FuzzyField"] = [field_name |-> "String", prefix |-> "bool", distance |-> "u8",
                                  transpose_cost_one |-> "bool"]
  BY DEF Structs
<1>3. ReadItem("FuzzyField", j) = [field_name |-> f.fieldName, prefix |-> f.prefix,
                                   distance |-> f.distance,
                                   transpose_cost_one |-> f.transposeCostOne]
  BY <1>1, <1>2 DEF ReadItem, ReadPart
<1>4. ReadsItem("FuzzyField", j)
  <2>1. /\ ReadsPart("String", j.v["field_name"]) /\ ReadsPart("bool", j.v["prefix"])
        /\ ReadsPart("u8", j.v["distance"]) /\ ReadsPart("bool", j.v["transpose_cost_one"])
    BY <1>1, BaseReads DEF ReadsPart
  <2>2. \A k \in DOMAIN Structs["FuzzyField"] : k \in DOMAIN j.v /\ ReadsPart(Structs["FuzzyField"][k], j.v[k])
    BY <1>1, <1>2, <2>1
  <2> QED BY <1>1, <1>2, <2>2 DEF ReadsItem
<1> QED BY <1>3, <1>4

-----------------------------------------------------------------------------
(* The keys of a node *)

\* A key of a type is read, from what is written, as r.
Carries(sort, j, r) ==
  /\ ReadsKey(sort, j) /\ ReadKey(sort, j) = r
  /\ j # Absent /\ j.js # "null"

\* Strings, truth values and queries.
LEMMA PlainKey ==
  ASSUME NEW x
  PROVE  /\ Carries(<<"one", "String">>, Str(x), x)
         /\ Carries(<<"one", "bool">>, Bool(x), x)
         /\ Carries(<<"one", "Query">>, Query(x), x)
<1>1. Str(x).js = "string" /\ Str(x).v = x /\ Str(x) # Absent
  BY DEF Str, Absent
<1>2. Bool(x).js = "bool" /\ Bool(x).v = x /\ Bool(x) # Absent
  BY DEF Bool, Absent
<1>3. Query(x).js = "query" /\ Query(x).v = x /\ Query(x) # Absent
  BY DEF Query, Absent
<1>4. {"String", "bool", "Query"} \subseteq Base
  BY DEF Base
<1>5. Carries(<<"one", "String">>, Str(x), x)
  BY <1>1, <1>4, OneKey, BaseItem, BaseReads DEF Carries
<1>6. Carries(<<"one", "bool">>, Bool(x), x)
  BY <1>2, <1>4, OneKey, BaseItem, BaseReads DEF Carries
<1>7. Carries(<<"one", "Query">>, Query(x), x)
  BY <1>3, <1>4, OneKey, BaseItem, BaseReads DEF Carries
<1> QED BY <1>5, <1>6, <1>7

\* Lists of strings and of queries.
LEMMA PlainKeys ==
  ASSUME NEW s, IsList(s)
  PROVE  /\ Carries(<<"many", "String">>, Strs(s), s)
         /\ Carries(<<"many", "Query">>, Arr([i \in DOMAIN s |-> Query(s[i])]), s)
<1>1. s = [i \in DOMAIN s |-> s[i]]
  BY ListFacts
<1>2. {"String", "Query"} \subseteq Base
  BY DEF Base
<1>3. \A u : Arr(u) # Absent /\ Arr(u).js # "null"
  BY DEF Arr, Absent
<1>4. Carries(<<"many", "String">>, Strs(s), s)
  <2> DEFINE u == [i \in DOMAIN s |-> Str(s[i])]
  <2>1. DOMAIN u = DOMAIN s /\ \A i \in DOMAIN u : u[i].js = "string" /\ u[i].v = s[i]
    BY DEF Str
  <2>2. Strs(s) = Arr(u)
    BY DEF Strs
  <2> HIDE DEF u
  <2>3. \A i \in DOMAIN u : ReadItem("String", u[i]) = s[i] /\ ReadsItem("String", u[i])
    BY <1>2, <2>1, BaseItem, BaseReads
  <2>4. [i \in DOMAIN u |-> ReadItem("String", u[i])] = [i \in DOMAIN s |-> s[i]]
    BY <2>1, <2>3
  <2> QED BY <1>1, <1>3, <2>2, <2>3, <2>4, ManyKey DEF Carries
<1>5. Carries(<<"many", "Query">>, Arr([i \in DOMAIN s |-> Query(s[i])]), s)
  <2> DEFINE u == [i \in DOMAIN s |-> Query(s[i])]
  <2>1. DOMAIN u = DOMAIN s /\ \A i \in DOMAIN u : u[i].js = "query" /\ u[i].v = s[i]
    BY DEF Query
  <2> HIDE DEF u
  <2>2. \A i \in DOMAIN u : ReadItem("Query", u[i]) = s[i] /\ ReadsItem("Query", u[i])
    BY <1>2, <2>1, BaseItem, BaseReads
  <2>3. [i \in DOMAIN u |-> ReadItem("Query", u[i])] = [i \in DOMAIN s |-> s[i]]
    BY <2>1, <2>2
  <2>4. Carries(<<"many", "Query">>, Arr(u), s)
    BY <1>1, <1>3, <2>2, <2>3, ManyKey DEF Carries
  <2> QED BY <2>4 DEF u
<1> QED BY <1>4, <1>5

\* Objects and arrays are neither absent nor null.
LEMMA ObjectFacts == \A f : Obj(f) # Absent /\ Obj(f).js # "null"
BY DEF Obj, Absent

LEMMA ArrayFacts == \A s : Arr(s) # Absent /\ Arr(s).js # "null"
BY DEF Arr, Absent

\* A number, alone or behind an optional.
LEMMA NumKey ==
  ASSUME NEW n, n # NotFinite
  PROVE  /\ Carries(<<"one", "f32">>, Num(n), n) /\ Carries(<<"maybe", "f32">>, Num(n), <<n>>)
         /\ n \in 0..255 => Carries(<<"one", "u8">>, Num(n), n)
         /\ n \in Nat => Carries(<<"maybe", "u32">>, Num(n), <<n>>)
<1>1. Num(n).js = "number" /\ Num(n).v = n
  BY NumFacts
<1>2. Num(n) # Absent /\ Num(n).js # "null"
  BY <1>1 DEF Absent
<1>3. {"f32", "u8", "u32"} \subseteq Base
  BY DEF Base
<1>4. /\ ReadItem("f32", Num(n)) = n /\ ReadsItem("f32", Num(n))
      /\ ReadItem("u8", Num(n)) = n /\ ReadItem("u32", Num(n)) = n
      /\ n \in 0..255 => ReadsItem("u8", Num(n))
      /\ n \in Nat => ReadsItem("u32", Num(n))
  BY <1>1, <1>3, BaseItem, BaseReads
<1> QED BY <1>2, <1>4, OneKey, MaybeKey DEF Carries

\* An optional is written and read, or neither.
CarriesMaybe(what, j, r) ==
  \/ j = Absent /\ r = <<>>
  \/ Carries(<<"maybe", what>>, j, r)

LEMMA OptionalNumKey ==
  ASSUME NEW s, IsOptional(s), \A i \in DOMAIN s : s[i] # NotFinite
  PROVE  /\ CarriesMaybe("f32", OptionalNum(s), s)
         /\ (\A i \in DOMAIN s : s[i] \in Nat) => CarriesMaybe("u32", OptionalNum(s), s)
<1>1. CASE s = <<>>
  BY <1>1 DEF OptionalNum, CarriesMaybe
<1>2. CASE s # <<>>
  <2>1. s = <<s[1]>> /\ DOMAIN s = {1} /\ OptionalNum(s) = Num(s[1])
    BY <1>2, OptionalFacts DEF OptionalNum
  <2>2. s[1] # NotFinite
    BY <2>1
  <2>3. Carries(<<"maybe", "f32">>, Num(s[1]), s)
    BY <2>1, <2>2, NumKey
  <2>4. s[1] \in Nat => Carries(<<"maybe", "u32">>, Num(s[1]), s)
    BY <2>1, <2>2, NumKey
  <2> QED BY <2>1, <2>3, <2>4 DEF CarriesMaybe
<1> QED BY <1>1, <1>2

RustValues(s) == [i \in DOMAIN s |-> RustValue(s[i])]

LEMMA OptionalElementKey ==
  ASSUME NEW s, IsOptional(s), \A i \in DOMAIN s : IsValue(s[i]) /\ Finite(s[i])
  PROVE  CarriesMaybe("FieldValue", OptionalElement(s), RustValues(s))
<1>1. CASE s = <<>>
  <2>1. RustValues(s) = <<>>
    BY <1>1 DEF RustValues
  <2> QED BY <1>1, <2>1 DEF OptionalElement, CarriesMaybe
<1>2. CASE s # <<>>
  <2>1. s = <<s[1]>> /\ DOMAIN s = {1} /\ OptionalElement(s) = toJsonElement(s[1])
    BY <1>2, OptionalFacts DEF OptionalElement
  <2>2. RustValues(s) = <<RustValue(s[1])>>
    <3>1. RustValues(s) = [i \in {1} |-> RustValue(s[1])]
      BY <2>1 DEF RustValues
    <3> QED BY <3>1
  <2>3. /\ ReadItem("FieldValue", toJsonElement(s[1])) = RustValue(s[1])
        /\ ReadsItem("FieldValue", toJsonElement(s[1]))
    BY <2>1, ValueItem
  <2>4. toJsonElement(s[1]).js # "null" /\ toJsonElement(s[1]) # Absent
    BY ObjectFacts DEF toJsonElement
  <2> QED BY <2>1, <2>2, <2>3, <2>4, MaybeKey DEF CarriesMaybe, Carries
<1> QED BY <1>1, <1>2

RustTerm(field, value) == [name |-> field, value |-> RustValue(value)]

LEMMA OneTermKey ==
  ASSUME NEW field, NEW value, IsValue(value), Finite(value)
  PROVE  Carries(<<"one", "DocumentField">>, termObject(field, value), RustTerm(field, value))
<1>1. termObject(field, value) # Absent /\ termObject(field, value).js # "null"
  BY ObjectFacts DEF termObject
<1> QED BY <1>1, TermItem, OneKey DEF Carries, RustTerm

LEMMA TermsKey ==
  ASSUME NEW s, \A i \in DOMAIN s : IsValue(s[i].value) /\ Finite(s[i].value)
  PROVE  Carries(<<"many", "DocumentField">>,
                 Arr([i \in DOMAIN s |-> termObject(s[i].field, s[i].value)]),
                 [i \in DOMAIN s |-> RustTerm(s[i].field, s[i].value)])
<1> DEFINE u == [i \in DOMAIN s |-> termObject(s[i].field, s[i].value)]
<1>1. ASSUME NEW i \in DOMAIN s
      PROVE  /\ ReadItem("DocumentField", u[i]) = RustTerm(s[i].field, s[i].value)
             /\ ReadsItem("DocumentField", u[i])
  BY TermItem DEF RustTerm
<1>2. DOMAIN u = DOMAIN s
  OBVIOUS
<1> HIDE DEF u
<1>3. [i \in DOMAIN u |-> ReadItem("DocumentField", u[i])]
        = [i \in DOMAIN s |-> RustTerm(s[i].field, s[i].value)]
  BY <1>1, <1>2
<1>4. Carries(<<"many", "DocumentField">>, Arr(u), [i \in DOMAIN s |-> RustTerm(s[i].field, s[i].value)])
  BY <1>1, <1>2, <1>3, ManyKey, ArrayFacts DEF Carries
<1> QED BY <1>4 DEF u

RustClauses(s) == [i \in DOMAIN s |-> [occur |-> occurJson(s[i].occur), query |-> s[i].query]]

LEMMA ClausesKey ==
  ASSUME NEW s, \A i \in DOMAIN s : s[i].occur \in Occurs
  PROVE  Carries(<<"many", "Clause">>,
                 Arr([i \in DOMAIN s |-> Obj([occur |-> Str(occurJson(s[i].occur)),
                                              query |-> Query(s[i].query)])]),
                 RustClauses(s))
<1> DEFINE u == [i \in DOMAIN s |-> Obj([occur |-> Str(occurJson(s[i].occur)),
                                         query |-> Query(s[i].query)])]
<1>1. ASSUME NEW i \in DOMAIN s
      PROVE  /\ ReadItem("Clause", u[i]) = [occur |-> occurJson(s[i].occur), query |-> s[i].query]
             /\ ReadsItem("Clause", u[i])
  <2>1. u[i] = Obj([occur |-> Str(occurJson(s[i].occur)), query |-> Query(s[i].query)])
    OBVIOUS
  <2> HIDE DEF u
  <2> QED BY <2>1, ClauseItem
<1>2. DOMAIN u = DOMAIN s
  OBVIOUS
<1> HIDE DEF u
<1>3. [i \in DOMAIN u |-> ReadItem("Clause", u[i])] = RustClauses(s)
  BY <1>1, <1>2 DEF RustClauses
<1>4. Carries(<<"many", "Clause">>, Arr(u), RustClauses(s))
  BY <1>1, <1>2, <1>3, ManyKey, ArrayFacts DEF Carries
<1> QED BY <1>4 DEF u

RustFuzzy(s) ==
  [i \in DOMAIN s |-> [field_name |-> s[i].fieldName, prefix |-> s[i].prefix, distance |-> s[i].distance,
                       transpose_cost_one |-> s[i].transposeCostOne]]

LEMMA FuzzyKey ==
  ASSUME NEW s, \A i \in DOMAIN s : s[i].distance \in 0..255
  PROVE  Carries(<<"many", "FuzzyField">>,
                 Arr([i \in DOMAIN s |-> Obj([field_name |-> Str(s[i].fieldName),
                                              prefix |-> Bool(s[i].prefix),
                                              distance |-> Num(s[i].distance),
                                              transpose_cost_one |-> Bool(s[i].transposeCostOne)])]),
                 RustFuzzy(s))
<1> DEFINE u == [i \in DOMAIN s |-> Obj([field_name |-> Str(s[i].fieldName),
                                         prefix |-> Bool(s[i].prefix),
                                         distance |-> Num(s[i].distance),
                                         transpose_cost_one |-> Bool(s[i].transposeCostOne)])]
<1>1. ASSUME NEW i \in DOMAIN s
      PROVE  /\ ReadItem("FuzzyField", u[i]) = [field_name |-> s[i].fieldName, prefix |-> s[i].prefix,
                                                distance |-> s[i].distance,
                                                transpose_cost_one |-> s[i].transposeCostOne]
             /\ ReadsItem("FuzzyField", u[i])
  <2>1. u[i] = Obj([field_name |-> Str(s[i].fieldName), prefix |-> Bool(s[i].prefix),
                    distance |-> Num(s[i].distance),
                    transpose_cost_one |-> Bool(s[i].transposeCostOne)])
    OBVIOUS
  <2> HIDE DEF u
  <2> QED BY <2>1, FuzzyItem
<1>2. DOMAIN u = DOMAIN s
  OBVIOUS
<1> HIDE DEF u
<1>3. [i \in DOMAIN u |-> ReadItem("FuzzyField", u[i])] = RustFuzzy(s)
  BY <1>1, <1>2 DEF RustFuzzy
<1>4. Carries(<<"many", "FuzzyField">>, Arr(u), RustFuzzy(s))
  BY <1>1, <1>2, <1>3, ManyKey, ArrayFacts DEF Carries
<1> QED BY <1>4 DEF u

\* A node is written and read key by key.
Describes(tag, keys, r) ==
  /\ tag \in DOMAIN Variants /\ DOMAIN keys = DOMAIN Variants[tag] /\ "type" \notin DOMAIN keys
  /\ \A k \in DOMAIN keys : \/ Carries(Variants[tag][k], keys[k], r[k])
                            \/ keys[k] = Absent /\ r[k] = <<>> /\ Variants[tag][k][1] = "maybe"

\* Rust node n is what Kotlin's node q became: it is read without an error, no
\* key is skipped or null, and the keys have the values r.
Becomes(q, tag, r) ==
  /\ ReadsNode(toJsonObject(q))
  /\ ReadNode(toJsonObject(q)).type = tag
  /\ \A k \in DOMAIN Variants[tag] : ReadNode(toJsonObject(q))[k] = r[k]
  /\ \A k \in DOMAIN toJsonObject(q).v \ {"type"} :
       k \in DOMAIN Variants[tag] /\ toJsonObject(q).v[k].js # "null"

LEMMA NodeBecomes ==
  ASSUME NEW q, NEW tag, NEW keys, NEW r, toJsonObject(q) = Node(tag, keys), Describes(tag, keys, r)
  PROVE  Becomes(q, tag, r)
<1>1. Written(tag, keys)
  <2>1. ASSUME NEW k \in DOMAIN keys, keys[k] = Absent PROVE Variants[tag][k][1] = "maybe"
    BY <2>1 DEF Describes, Carries
  <2> QED BY <2>1 DEF Describes, Written
<1>2. ASSUME NEW k \in DOMAIN keys, keys[k] # Absent
      PROVE  /\ ReadsKey(Variants[tag][k], keys[k]) /\ ReadKey(Variants[tag][k], keys[k]) = r[k]
             /\ keys[k].js # "null"
  BY <1>2 DEF Describes, Carries
<1>3. ASSUME NEW k \in DOMAIN keys, keys[k] = Absent PROVE r[k] = <<>>
  BY <1>3 DEF Describes, Carries
<1>4. ReadsNode(Node(tag, keys))
  BY <1>1, <1>2, NodeReads
<1>5. ReadNode(Node(tag, keys)).type = tag
  BY <1>1, NodeRead
<1>6. ASSUME NEW k \in DOMAIN Variants[tag] PROVE ReadNode(Node(tag, keys))[k] = r[k]
  <2>1. k \in DOMAIN keys
    BY DEF Describes
  <2> QED BY <1>1, <1>2, <1>3, <2>1, NodeRead
<1>7. ASSUME NEW k \in DOMAIN Node(tag, keys).v \ {"type"}
      PROVE  k \in DOMAIN Variants[tag] /\ Node(tag, keys).v[k].js # "null"
  <2>1. k \in DOMAIN keys /\ keys[k] # Absent /\ Node(tag, keys).v[k] = keys[k]
    BY NodeFacts DEF Describes
  <2> QED BY <1>2, <2>1 DEF Describes
<1> QED BY <1>4, <1>5, <1>6, <1>7 DEF Becomes

-----------------------------------------------------------------------------
(* The nodes *)

\* A node of a Kotlin tree.
IsNode(q) ==
  /\ q.kind \in {"All", "Empty", "Term", "TermSet", "Boolean", "Phrase", "PhrasePrefix", "Range", "Regex",
                 "Fuzzy", "Exists", "Boost", "ConstScore", "DisjunctionMax", "QueryString"}
  /\ q.kind = "Term" => IsValue(q.value)
  /\ q.kind = "TermSet" => \A i \in DOMAIN q.terms : IsValue(q.terms[i].value)
  /\ q.kind = "Boolean" => \A i \in DOMAIN q.clauses : q.clauses[i].occur \in Occurs
  /\ q.kind \in {"Phrase", "PhrasePrefix"} => IsList(q.terms)
  /\ q.kind = "Phrase" => IsOptional(q.slop) /\ q.slop \in Seq(Int)
  /\ q.kind = "PhrasePrefix" => IsOptional(q.maxExpansions) /\ q.maxExpansions \in Seq(Int)
  /\ q.kind = "Range" => \A s \in {q.lower, q.upper} :
       IsOptional(s) /\ \A i \in DOMAIN s : IsValue(s[i]) /\ Placed(s[i])
  /\ q.kind = "DisjunctionMax" => IsList(q.queries) /\ IsOptional(q.tieBreaker)
  /\ q.kind = "QueryString" => IsList(q.defaultFields)

\* The numbers in its terms and bounds are numbers.
FiniteNode(q) ==
  /\ q.kind = "Term" => Finite(q.value)
  /\ q.kind = "TermSet" => \A i \in DOMAIN q.terms : Finite(q.terms[i].value)
  /\ q.kind = "Range" => \A s \in {q.lower, q.upper} : \A i \in DOMAIN s : Finite(s[i])

\* All has no keys.
LEMMA AllRead ==
  ASSUME NEW q, q.kind = "All"
  PROVE  Becomes(q, "all", <<>>)
<1>1. toJsonObject(q) = Node("all", <<>>)
  BY DEF toJsonObject
<1>2. "all" \in DOMAIN Variants /\ DOMAIN Variants["all"] = {} /\ DOMAIN <<>> = {}
  BY DEF Variants
<1>3. Describes("all", <<>>, <<>>)
  BY <1>2 DEF Describes
<1> QED BY <1>1, <1>3, NodeBecomes

\* Empty has no keys.
LEMMA EmptyRead ==
  ASSUME NEW q, q.kind = "Empty"
  PROVE  Becomes(q, "empty", <<>>)
<1>1. toJsonObject(q) = Node("empty", <<>>)
  BY DEF toJsonObject
<1>2. "empty" \in DOMAIN Variants /\ DOMAIN Variants["empty"] = {} /\ DOMAIN <<>> = {}
  BY DEF Variants
<1>3. Describes("empty", <<>>, <<>>)
  BY <1>2 DEF Describes
<1> QED BY <1>1, <1>3, NodeBecomes

\* A term.
LEMMA TermRead ==
  ASSUME NEW q, IsNode(q), FiniteNode(q), q.kind = "Term"
  PROVE  Becomes(q, "term", [term |-> RustTerm(q.field, q.value)])
<1> DEFINE keys == [term |-> termObject(q.field, q.value)]
           r == [term |-> RustTerm(q.field, q.value)]
<1>1. toJsonObject(q) = Node("term", keys)
  BY DEF toJsonObject
<1>2. "term" \in DOMAIN Variants
  BY DEF Variants
<1>3. /\ DOMAIN Variants["term"] = {"term"}
      /\ Variants["term"]["term"] = <<"one", "DocumentField">>
  BY DEF Variants
<1>4. Carries(<<"one", "DocumentField">>, keys["term"], r["term"])
  BY OneTermKey DEF IsNode, FiniteNode
<1>5. DOMAIN keys = {"term"}
  OBVIOUS
<1> HIDE DEF keys, r
<1>6. Describes("term", keys, r)
  BY <1>2, <1>3, <1>4, <1>5 DEF Describes
<1>7. Becomes(q, "term", r)
  BY <1>1, <1>6, NodeBecomes
<1> QED BY <1>7 DEF r

\* Several terms.
LEMMA TermSetRead ==
  ASSUME NEW q, IsNode(q), FiniteNode(q), q.kind = "TermSet"
  PROVE  Becomes(q, "term_set", [terms |-> [i \in DOMAIN q.terms |-> RustTerm(q.terms[i].field, q.terms[i].value)]])
<1> DEFINE keys == [terms |-> Arr([i \in DOMAIN q.terms |-> termObject(q.terms[i].field, q.terms[i].value)])]
           r == [terms |-> [i \in DOMAIN q.terms |-> RustTerm(q.terms[i].field, q.terms[i].value)]]
<1>1. toJsonObject(q) = Node("term_set", keys)
  BY DEF toJsonObject
<1>2. "term_set" \in DOMAIN Variants
  BY DEF Variants
<1>3. /\ DOMAIN Variants["term_set"] = {"terms"}
      /\ Variants["term_set"]["terms"] = <<"many", "DocumentField">>
  BY DEF Variants
<1>4. Carries(<<"many", "DocumentField">>, keys["terms"], r["terms"])
  BY TermsKey DEF IsNode, FiniteNode
<1>5. DOMAIN keys = {"terms"}
  OBVIOUS
<1> HIDE DEF keys, r
<1>6. Describes("term_set", keys, r)
  BY <1>2, <1>3, <1>4, <1>5 DEF Describes
<1>7. Becomes(q, "term_set", r)
  BY <1>1, <1>6, NodeBecomes
<1> QED BY <1>7 DEF r

\* Clauses.
LEMMA BooleanRead ==
  ASSUME NEW q, IsNode(q), q.kind = "Boolean"
  PROVE  Becomes(q, "boolean", [clauses |-> RustClauses(q.clauses)])
<1> DEFINE keys == [clauses |-> Arr([i \in DOMAIN q.clauses |-> Obj([occur |-> Str(occurJson(q.clauses[i].occur)),
                                                                query |-> Query(q.clauses[i].query)])])]
           r == [clauses |-> RustClauses(q.clauses)]
<1>1. toJsonObject(q) = Node("boolean", keys)
  BY DEF toJsonObject
<1>2. "boolean" \in DOMAIN Variants
  BY DEF Variants
<1>3. /\ DOMAIN Variants["boolean"] = {"clauses"}
      /\ Variants["boolean"]["clauses"] = <<"many", "Clause">>
  BY DEF Variants
<1>4. Carries(<<"many", "Clause">>, keys["clauses"], r["clauses"])
  BY ClausesKey DEF IsNode
<1>5. DOMAIN keys = {"clauses"}
  OBVIOUS
<1> HIDE DEF keys, r
<1>6. Describes("boolean", keys, r)
  BY <1>2, <1>3, <1>4, <1>5 DEF Describes
<1>7. Becomes(q, "boolean", r)
  BY <1>1, <1>6, NodeBecomes
<1> QED BY <1>7 DEF r

\* A phrase.
LEMMA PhraseRead ==
  ASSUME NEW q, IsNode(q), Constructible(q), q.kind = "Phrase"
  PROVE  Becomes(q, "phrase", [field |-> q.field, terms |-> q.terms, slop |-> q.slop])
<1> DEFINE keys == [field |-> Str(q.field),
                   terms |-> Strs(q.terms),
                   slop |-> OptionalNum(q.slop)]
           r == [field |-> q.field, terms |-> q.terms, slop |-> q.slop]
<1>1. toJsonObject(q) = Node("phrase", keys)
  BY DEF toJsonObject
<1>2. "phrase" \in DOMAIN Variants
  BY DEF Variants
<1>3. /\ DOMAIN Variants["phrase"] = {"field", "terms", "slop"}
      /\ Variants["phrase"]["field"] = <<"one", "String">>
      /\ Variants["phrase"]["terms"] = <<"many", "String">>
      /\ Variants["phrase"]["slop"] = <<"maybe", "u32">>
  BY DEF Variants
<1>4. Carries(<<"one", "String">>, keys["field"], r["field"])
  BY PlainKey
<1>5. Carries(<<"many", "String">>, keys["terms"], r["terms"])
  BY PlainKeys DEF IsNode
<1>6. CarriesMaybe("u32", keys["slop"], r["slop"])
  <2>1. \A i \in DOMAIN q.slop : q.slop[i] \in Nat
    <3>1. q.slop \in Seq(Int) /\ \A i \in DOMAIN q.slop : q.slop[i] >= 0
      BY DEF IsNode, Constructible
    <3> QED BY <3>1
  <2>2. IsOptional(q.slop) /\ \A i \in DOMAIN q.slop : q.slop[i] # NotFinite
    BY <2>1, NumFacts DEF IsNode
  <2> QED BY <2>1, <2>2, OptionalNumKey
<1>7. DOMAIN keys = {"field", "terms", "slop"}
  OBVIOUS
<1> HIDE DEF keys, r
<1>8. Describes("phrase", keys, r)
  BY <1>2, <1>3, <1>4, <1>5, <1>6, <1>7 DEF Describes, CarriesMaybe
<1>9. Becomes(q, "phrase", r)
  BY <1>1, <1>8, NodeBecomes
<1> QED BY <1>9 DEF r

\* The beginning of a phrase.
LEMMA PhrasePrefixRead ==
  ASSUME NEW q, IsNode(q), Constructible(q), q.kind = "PhrasePrefix"
  PROVE  Becomes(q, "phrase_prefix", [field |-> q.field, terms |-> q.terms, max_expansions |-> q.maxExpansions])
<1> DEFINE keys == [field |-> Str(q.field),
                   terms |-> Strs(q.terms),
                   max_expansions |-> OptionalNum(q.maxExpansions)]
           r == [field |-> q.field, terms |-> q.terms, max_expansions |-> q.maxExpansions]
<1>1. toJsonObject(q) = Node("phrase_prefix", keys)
  BY DEF toJsonObject
<1>2. "phrase_prefix" \in DOMAIN Variants
  BY DEF Variants
<1>3. /\ DOMAIN Variants["phrase_prefix"] = {"field", "terms", "max_expansions"}
      /\ Variants["phrase_prefix"]["field"] = <<"one", "String">>
      /\ Variants["phrase_prefix"]["terms"] = <<"many", "String">>
      /\ Variants["phrase_prefix"]["max_expansions"] = <<"maybe", "u32">>
  BY DEF Variants
<1>4. Carries(<<"one", "String">>, keys["field"], r["field"])
  BY PlainKey
<1>5. Carries(<<"many", "String">>, keys["terms"], r["terms"])
  BY PlainKeys DEF IsNode
<1>6. CarriesMaybe("u32", keys["max_expansions"], r["max_expansions"])
  <2>1. \A i \in DOMAIN q.maxExpansions : q.maxExpansions[i] \in Nat
    <3>1. q.maxExpansions \in Seq(Int) /\ \A i \in DOMAIN q.maxExpansions : q.maxExpansions[i] >= 0
      BY DEF IsNode, Constructible
    <3> QED BY <3>1
  <2>2. IsOptional(q.maxExpansions) /\ \A i \in DOMAIN q.maxExpansions : q.maxExpansions[i] # NotFinite
    BY <2>1, NumFacts DEF IsNode
  <2> QED BY <2>1, <2>2, OptionalNumKey
<1>7. DOMAIN keys = {"field", "terms", "max_expansions"}
  OBVIOUS
<1> HIDE DEF keys, r
<1>8. Describes("phrase_prefix", keys, r)
  BY <1>2, <1>3, <1>4, <1>5, <1>6, <1>7 DEF Describes, CarriesMaybe
<1>9. Becomes(q, "phrase_prefix", r)
  BY <1>1, <1>8, NodeBecomes
<1> QED BY <1>9 DEF r

\* A range.
LEMMA RangeRead ==
  ASSUME NEW q, IsNode(q), FiniteNode(q), q.kind = "Range"
  PROVE  Becomes(q, "range", [field |-> q.field, lower |-> RustValues(q.lower), upper |-> RustValues(q.upper), include_lower |-> q.includeLower, include_upper |-> q.includeUpper])
<1> DEFINE keys == [field |-> Str(q.field),
                   lower |-> OptionalElement(q.lower),
                   upper |-> OptionalElement(q.upper),
                   include_lower |-> Bool(q.includeLower),
                   include_upper |-> Bool(q.includeUpper)]
           r == [field |-> q.field, lower |-> RustValues(q.lower), upper |-> RustValues(q.upper), include_lower |-> q.includeLower, include_upper |-> q.includeUpper]
<1>1. toJsonObject(q) = Node("range", keys)
  BY DEF toJsonObject
<1>2. "range" \in DOMAIN Variants
  BY DEF Variants
<1>3. /\ DOMAIN Variants["range"] = {"field", "lower", "upper", "include_lower", "include_upper"}
      /\ Variants["range"]["field"] = <<"one", "String">>
      /\ Variants["range"]["lower"] = <<"maybe", "FieldValue">>
      /\ Variants["range"]["upper"] = <<"maybe", "FieldValue">>
      /\ Variants["range"]["include_lower"] = <<"one", "bool">>
      /\ Variants["range"]["include_upper"] = <<"one", "bool">>
  BY DEF Variants
<1>4. Carries(<<"one", "String">>, keys["field"], r["field"])
  BY PlainKey
<1>5. CarriesMaybe("FieldValue", keys["lower"], r["lower"])
  BY OptionalElementKey DEF IsNode, FiniteNode
<1>6. CarriesMaybe("FieldValue", keys["upper"], r["upper"])
  BY OptionalElementKey DEF IsNode, FiniteNode
<1>7. Carries(<<"one", "bool">>, keys["include_lower"], r["include_lower"])
  BY PlainKey
<1>8. Carries(<<"one", "bool">>, keys["include_upper"], r["include_upper"])
  BY PlainKey
<1>9. DOMAIN keys = {"field", "lower", "upper", "include_lower", "include_upper"}
  OBVIOUS
<1> HIDE DEF keys, r
<1>10. Describes("range", keys, r)
  BY <1>2, <1>3, <1>4, <1>5, <1>6, <1>7, <1>8, <1>9 DEF Describes, CarriesMaybe
<1>11. Becomes(q, "range", r)
  BY <1>1, <1>10, NodeBecomes
<1> QED BY <1>11 DEF r

\* A pattern.
LEMMA RegexRead ==
  ASSUME NEW q, IsNode(q), q.kind = "Regex"
  PROVE  Becomes(q, "regex", [field |-> q.field, pattern |-> q.pattern])
<1> DEFINE keys == [field |-> Str(q.field),
                   pattern |-> Str(q.pattern)]
           r == [field |-> q.field, pattern |-> q.pattern]
<1>1. toJsonObject(q) = Node("regex", keys)
  BY DEF toJsonObject
<1>2. "regex" \in DOMAIN Variants
  BY DEF Variants
<1>3. /\ DOMAIN Variants["regex"] = {"field", "pattern"}
      /\ Variants["regex"]["field"] = <<"one", "String">>
      /\ Variants["regex"]["pattern"] = <<"one", "String">>
  BY DEF Variants
<1>4. Carries(<<"one", "String">>, keys["field"], r["field"])
  BY PlainKey
<1>5. Carries(<<"one", "String">>, keys["pattern"], r["pattern"])
  BY PlainKey
<1>6. DOMAIN keys = {"field", "pattern"}
  OBVIOUS
<1> HIDE DEF keys, r
<1>7. Describes("regex", keys, r)
  BY <1>2, <1>3, <1>4, <1>5, <1>6 DEF Describes
<1>8. Becomes(q, "regex", r)
  BY <1>1, <1>7, NodeBecomes
<1> QED BY <1>8 DEF r

\* A word with a distance.
LEMMA FuzzyRead ==
  ASSUME NEW q, IsNode(q), Constructible(q), q.kind = "Fuzzy"
  PROVE  Becomes(q, "fuzzy", [field |-> q.field, term |-> q.term, distance |-> q.distance, transpose_cost_one |-> q.transposeCostOne])
<1> DEFINE keys == [field |-> Str(q.field),
                   term |-> Str(q.term),
                   distance |-> Num(q.distance),
                   transpose_cost_one |-> Bool(q.transposeCostOne)]
           r == [field |-> q.field, term |-> q.term, distance |-> q.distance, transpose_cost_one |-> q.transposeCostOne]
<1>1. toJsonObject(q) = Node("fuzzy", keys)
  BY DEF toJsonObject
<1>2. "fuzzy" \in DOMAIN Variants
  BY DEF Variants
<1>3. /\ DOMAIN Variants["fuzzy"] = {"field", "term", "distance", "transpose_cost_one"}
      /\ Variants["fuzzy"]["field"] = <<"one", "String">>
      /\ Variants["fuzzy"]["term"] = <<"one", "String">>
      /\ Variants["fuzzy"]["distance"] = <<"one", "u8">>
      /\ Variants["fuzzy"]["transpose_cost_one"] = <<"one", "bool">>
  BY DEF Variants
<1>4. Carries(<<"one", "String">>, keys["field"], r["field"])
  BY PlainKey
<1>5. Carries(<<"one", "String">>, keys["term"], r["term"])
  BY PlainKey
<1>6. Carries(<<"one", "u8">>, keys["distance"], r["distance"])
  <2>1. q.distance \in 0..255 /\ q.distance # NotFinite
    <3>1. q.distance \in 0..255
      BY DEF Constructible
    <3>2. q.distance \in Int
      BY <3>1
    <3> QED BY <3>1, <3>2, NumFacts
  <2> QED BY <2>1, NumKey
<1>7. Carries(<<"one", "bool">>, keys["transpose_cost_one"], r["transpose_cost_one"])
  BY PlainKey
<1>8. DOMAIN keys = {"field", "term", "distance", "transpose_cost_one"}
  OBVIOUS
<1> HIDE DEF keys, r
<1>9. Describes("fuzzy", keys, r)
  BY <1>2, <1>3, <1>4, <1>5, <1>6, <1>7, <1>8 DEF Describes
<1>10. Becomes(q, "fuzzy", r)
  BY <1>1, <1>9, NodeBecomes
<1> QED BY <1>10 DEF r

\* A field that has a value.
LEMMA ExistsRead ==
  ASSUME NEW q, IsNode(q), q.kind = "Exists"
  PROVE  Becomes(q, "exists", [field |-> q.field])
<1> DEFINE keys == [field |-> Str(q.field)]
           r == [field |-> q.field]
<1>1. toJsonObject(q) = Node("exists", keys)
  BY DEF toJsonObject
<1>2. "exists" \in DOMAIN Variants
  BY DEF Variants
<1>3. /\ DOMAIN Variants["exists"] = {"field"}
      /\ Variants["exists"]["field"] = <<"one", "String">>
  BY DEF Variants
<1>4. Carries(<<"one", "String">>, keys["field"], r["field"])
  BY PlainKey
<1>5. DOMAIN keys = {"field"}
  OBVIOUS
<1> HIDE DEF keys, r
<1>6. Describes("exists", keys, r)
  BY <1>2, <1>3, <1>4, <1>5 DEF Describes
<1>7. Becomes(q, "exists", r)
  BY <1>1, <1>6, NodeBecomes
<1> QED BY <1>7 DEF r

\* A query with a factor.
LEMMA BoostRead ==
  ASSUME NEW q, IsNode(q), Constructible(q), q.kind = "Boost"
  PROVE  Becomes(q, "boost", [query |-> q.query, boost |-> q.factor])
<1> DEFINE keys == [query |-> Query(q.query),
                   boost |-> Num(q.factor)]
           r == [query |-> q.query, boost |-> q.factor]
<1>1. toJsonObject(q) = Node("boost", keys)
  BY DEF toJsonObject
<1>2. "boost" \in DOMAIN Variants
  BY DEF Variants
<1>3. /\ DOMAIN Variants["boost"] = {"query", "boost"}
      /\ Variants["boost"]["query"] = <<"one", "Query">>
      /\ Variants["boost"]["boost"] = <<"one", "f32">>
  BY DEF Variants
<1>4. Carries(<<"one", "Query">>, keys["query"], r["query"])
  BY PlainKey
<1>5. Carries(<<"one", "f32">>, keys["boost"], r["boost"])
  BY NumKey DEF Constructible
<1>6. DOMAIN keys = {"query", "boost"}
  OBVIOUS
<1> HIDE DEF keys, r
<1>7. Describes("boost", keys, r)
  BY <1>2, <1>3, <1>4, <1>5, <1>6 DEF Describes
<1>8. Becomes(q, "boost", r)
  BY <1>1, <1>7, NodeBecomes
<1> QED BY <1>8 DEF r

\* A query with one score.
LEMMA ConstScoreRead ==
  ASSUME NEW q, IsNode(q), Constructible(q), q.kind = "ConstScore"
  PROVE  Becomes(q, "const_score", [query |-> q.query, score |-> q.factor])
<1> DEFINE keys == [query |-> Query(q.query),
                   score |-> Num(q.factor)]
           r == [query |-> q.query, score |-> q.factor]
<1>1. toJsonObject(q) = Node("const_score", keys)
  BY DEF toJsonObject
<1>2. "const_score" \in DOMAIN Variants
  BY DEF Variants
<1>3. /\ DOMAIN Variants["const_score"] = {"query", "score"}
      /\ Variants["const_score"]["query"] = <<"one", "Query">>
      /\ Variants["const_score"]["score"] = <<"one", "f32">>
  BY DEF Variants
<1>4. Carries(<<"one", "Query">>, keys["query"], r["query"])
  BY PlainKey
<1>5. Carries(<<"one", "f32">>, keys["score"], r["score"])
  BY NumKey DEF Constructible
<1>6. DOMAIN keys = {"query", "score"}
  OBVIOUS
<1> HIDE DEF keys, r
<1>7. Describes("const_score", keys, r)
  BY <1>2, <1>3, <1>4, <1>5, <1>6 DEF Describes
<1>8. Becomes(q, "const_score", r)
  BY <1>1, <1>7, NodeBecomes
<1> QED BY <1>8 DEF r

\* The best of several queries.
LEMMA DisjunctionMaxRead ==
  ASSUME NEW q, IsNode(q), Constructible(q), q.kind = "DisjunctionMax"
  PROVE  Becomes(q, "disjunction_max", [queries |-> q.queries, tie_breaker |-> q.tieBreaker])
<1> DEFINE keys == [queries |-> Arr([i \in DOMAIN q.queries |-> Query(q.queries[i])]),
                   tie_breaker |-> OptionalNum(q.tieBreaker)]
           r == [queries |-> q.queries, tie_breaker |-> q.tieBreaker]
<1>1. toJsonObject(q) = Node("disjunction_max", keys)
  BY DEF toJsonObject
<1>2. "disjunction_max" \in DOMAIN Variants
  BY DEF Variants
<1>3. /\ DOMAIN Variants["disjunction_max"] = {"queries", "tie_breaker"}
      /\ Variants["disjunction_max"]["queries"] = <<"many", "Query">>
      /\ Variants["disjunction_max"]["tie_breaker"] = <<"maybe", "f32">>
  BY DEF Variants
<1>4. Carries(<<"many", "Query">>, keys["queries"], r["queries"])
  BY PlainKeys DEF IsNode
<1>5. CarriesMaybe("f32", keys["tie_breaker"], r["tie_breaker"])
  BY OptionalNumKey DEF IsNode, Constructible
<1>6. DOMAIN keys = {"queries", "tie_breaker"}
  OBVIOUS
<1> HIDE DEF keys, r
<1>7. Describes("disjunction_max", keys, r)
  BY <1>2, <1>3, <1>4, <1>5, <1>6 DEF Describes, CarriesMaybe
<1>8. Becomes(q, "disjunction_max", r)
  BY <1>1, <1>7, NodeBecomes
<1> QED BY <1>8 DEF r

\* A query string.
LEMMA QueryStringRead ==
  ASSUME NEW q, IsNode(q), Constructible(q), q.kind = "QueryString"
  PROVE  Becomes(q, "query_string", [query |-> q.query, default_fields |-> q.defaultFields, fuzzy_fields |-> RustFuzzy(q.fuzzyFields)])
<1> DEFINE keys == [query |-> Str(q.query),
                   default_fields |-> Strs(q.defaultFields),
                   fuzzy_fields |-> Arr([i \in DOMAIN q.fuzzyFields |->
                     Obj([field_name |-> Str(q.fuzzyFields[i].fieldName), prefix |-> Bool(q.fuzzyFields[i].prefix),
                          distance |-> Num(q.fuzzyFields[i].distance),
                          transpose_cost_one |-> Bool(q.fuzzyFields[i].transposeCostOne)])])]
           r == [query |-> q.query, default_fields |-> q.defaultFields, fuzzy_fields |-> RustFuzzy(q.fuzzyFields)]
<1>1. toJsonObject(q) = Node("query_string", keys)
  BY DEF toJsonObject
<1>2. "query_string" \in DOMAIN Variants
  BY DEF Variants
<1>3. /\ DOMAIN Variants["query_string"] = {"query", "default_fields", "fuzzy_fields"}
      /\ Variants["query_string"]["query"] = <<"one", "String">>
      /\ Variants["query_string"]["default_fields"] = <<"many", "String">>
      /\ Variants["query_string"]["fuzzy_fields"] = <<"many", "FuzzyField">>
  BY DEF Variants
<1>4. Carries(<<"one", "String">>, keys["query"], r["query"])
  BY PlainKey
<1>5. Carries(<<"many", "String">>, keys["default_fields"], r["default_fields"])
  BY PlainKeys DEF IsNode
<1>6. Carries(<<"many", "FuzzyField">>, keys["fuzzy_fields"], r["fuzzy_fields"])
  BY FuzzyKey DEF Constructible
<1>7. DOMAIN keys = {"query", "default_fields", "fuzzy_fields"}
  OBVIOUS
<1> HIDE DEF keys, r
<1>8. Describes("query_string", keys, r)
  BY <1>2, <1>3, <1>4, <1>5, <1>6, <1>7 DEF Describes
<1>9. Becomes(q, "query_string", r)
  BY <1>1, <1>8, NodeBecomes
<1> QED BY <1>9 DEF r

-----------------------------------------------------------------------------
(* A text that is well-formed *)

NoBare(j) == \A n \in 1..6 : \A x \in Levels(j)[n] : x.js # "bare"

\* What is inside a value of one level is on the next.
LEMMA NextLevel ==
  ASSUME NEW j, NEW n \in 1..5, NEW x \in Levels(j)[n], x.js \in {"object", "array"}, NEW k \in DOMAIN x.v
  PROVE  x.v[k] \in Levels(j)[n + 1]
<1>1. \A js : x \in js => x.v[k] \in Inside(js)
  BY DEF Inside
<1>2. /\ Levels(j)[2] = Inside(Levels(j)[1]) /\ Levels(j)[3] = Inside(Levels(j)[2])
      /\ Levels(j)[4] = Inside(Levels(j)[3]) /\ Levels(j)[5] = Inside(Levels(j)[4])
      /\ Levels(j)[6] = Inside(Levels(j)[5])
  BY DEF Levels
<1>3. n = 1 \/ n = 2 \/ n = 3 \/ n = 4 \/ n = 5
  OBVIOUS
<1> QED BY <1>1, <1>2, <1>3

\* The number in a value of a text without bare words is one.
LEMMA ElementFinite ==
  ASSUME NEW j, NoBare(j), NEW value, IsValue(value), NEW n \in 1..5, toJsonElement(value) \in Levels(j)[n]
  PROVE  Finite(value)
<1> SUFFICES ASSUME value.kind \in Ordered PROVE value.data \in Int
  BY DEF Finite
<1>1. toJsonElement(value).v["value"] = Num(value.data)
  BY ElementFacts DEF Ordered
<1>2. Num(value.data) \in Levels(j)[n + 1]
  <2>1. toJsonElement(value).js \in {"object", "array"} /\ "value" \in DOMAIN toJsonElement(value).v
    BY ElementFacts
  <2> QED BY <1>1, <2>1, NextLevel
<1>3. Num(value.data).js # "bare"
  <2>1. n + 1 \in 1..6
    OBVIOUS
  <2> QED BY <1>2, <2>1 DEF NoBare
<1> QED BY <1>3, NumFacts DEF IsValue

\* A term in such a text has one, too.
LEMMA TermFinite ==
  ASSUME NEW j, NoBare(j), NEW field, NEW value, IsValue(value), NEW n \in 1..4,
         termObject(field, value) \in Levels(j)[n]
  PROVE  Finite(value)
<1>1. /\ termObject(field, value).js = "object" /\ "value" \in DOMAIN termObject(field, value).v
      /\ termObject(field, value).v["value"] = toJsonElement(value)
  BY DEF termObject, Obj
<1>2. n \in 1..5 /\ n + 1 \in 1..5
  OBVIOUS
<1>3. toJsonElement(value) \in Levels(j)[n + 1]
  BY <1>1, <1>2, NextLevel
<1> QED BY <1>2, <1>3, ElementFinite

\* The key of a node is on the second level.
LEMMA KeyLevel ==
  ASSUME NEW tag, NEW keys, "type" \notin DOMAIN keys, NEW k \in DOMAIN keys, keys[k] # Absent
  PROVE  keys[k] \in Levels(Node(tag, keys))[2]
<1>1. /\ Node(tag, keys).js = "object" /\ k \in DOMAIN Node(tag, keys).v
      /\ Node(tag, keys).v[k] = keys[k]
  BY NodeFacts
<1>2. Node(tag, keys) \in Levels(Node(tag, keys))[1]
  BY DEF Levels
<1>3. 1 \in 1..5 /\ 1 + 1 = 2
  OBVIOUS
<1> QED BY <1>1, <1>2, <1>3, NextLevel

\* A node of such a text holds no number that is none.
LEMMA WellFormedIsFinite ==
  ASSUME NEW q, IsNode(q), NoBare(toJsonObject(q))
  PROVE  FiniteNode(q)
<1>1. ASSUME q.kind = "Term" PROVE Finite(q.value)
  <2> DEFINE keys == [term |-> termObject(q.field, q.value)]
  <2>1. toJsonObject(q) = Node("term", keys)
    BY <1>1 DEF toJsonObject
  <2>2. "type" \notin DOMAIN keys /\ "term" \in DOMAIN keys /\ keys["term"] = termObject(q.field, q.value)
    OBVIOUS
  <2>3. termObject(q.field, q.value) # Absent
    BY ObjectFacts DEF termObject
  <2> HIDE DEF keys
  <2>4. termObject(q.field, q.value) \in Levels(toJsonObject(q))[2]
    BY <2>1, <2>2, <2>3, KeyLevel
  <2>5. 2 \in 1..4 /\ IsValue(q.value)
    BY <1>1 DEF IsNode
  <2> QED BY <2>4, <2>5, TermFinite
<1>2. ASSUME q.kind = "TermSet", NEW i \in DOMAIN q.terms PROVE Finite(q.terms[i].value)
  <2> DEFINE u == [m \in DOMAIN q.terms |-> termObject(q.terms[m].field, q.terms[m].value)]
             keys == [terms |-> Arr(u)]
  <2>1. toJsonObject(q) = Node("term_set", keys)
    BY <1>2 DEF toJsonObject
  <2>2. /\ "type" \notin DOMAIN keys /\ "terms" \in DOMAIN keys /\ keys["terms"] = Arr(u)
        /\ i \in DOMAIN u /\ u[i] = termObject(q.terms[i].field, q.terms[i].value)
    BY <1>2
  <2>3. Arr(u) # Absent /\ Arr(u).js = "array" /\ Arr(u).v = u
    BY ArrayFacts DEF Arr
  <2> HIDE DEF u, keys
  <2>4. Arr(u) \in Levels(toJsonObject(q))[2]
    BY <2>1, <2>2, <2>3, KeyLevel
  <2>5. 2 \in 1..5 /\ 2 + 1 = 3 /\ 3 \in 1..4 /\ IsValue(q.terms[i].value)
    BY <1>2 DEF IsNode
  <2>6. u[i] \in Levels(toJsonObject(q))[3]
    BY <2>2, <2>3, <2>4, <2>5, NextLevel
  <2> QED BY <2>2, <2>5, <2>6, TermFinite
<1>3. ASSUME q.kind = "Range", NEW s \in {q.lower, q.upper}, NEW i \in DOMAIN s PROVE Finite(s[i])
  <2> DEFINE keys == [field |-> Str(q.field),
                      lower |-> OptionalElement(q.lower), upper |-> OptionalElement(q.upper),
                      include_lower |-> Bool(q.includeLower), include_upper |-> Bool(q.includeUpper)]
  <2>1. toJsonObject(q) = Node("range", keys)
    BY <1>3 DEF toJsonObject
  <2>2. PICK k \in DOMAIN keys : "type" \notin DOMAIN keys /\ keys[k] = OptionalElement(s)
    <3>1. CASE s = q.lower
      <4>1. "lower" \in DOMAIN keys /\ keys["lower"] = OptionalElement(s) /\ "type" \notin DOMAIN keys
        BY <3>1
      <4> HIDE DEF keys
      <4> QED BY <4>1
    <3>2. CASE s = q.upper
      <4>1. "upper" \in DOMAIN keys /\ keys["upper"] = OptionalElement(s) /\ "type" \notin DOMAIN keys
        BY <3>2
      <4> HIDE DEF keys
      <4> QED BY <4>1
    <3> QED BY <1>3, <3>1, <3>2
  <2>3. IsOptional(s) /\ IsValue(s[i])
    BY <1>3 DEF IsNode
  <2>4. s # <<>> /\ i = 1
    BY <1>3, <2>3, OptionalFacts
  <2>5. OptionalElement(s) = toJsonElement(s[i]) /\ toJsonElement(s[i]) # Absent
    BY <2>4, ObjectFacts DEF OptionalElement, toJsonElement
  <2> HIDE DEF keys
  <2>6. toJsonElement(s[i]) \in Levels(toJsonObject(q))[2]
    BY <2>1, <2>2, <2>5, KeyLevel
  <2>7. 2 \in 1..5
    OBVIOUS
  <2> QED BY <2>3, <2>6, <2>7, ElementFinite
<1> QED BY <1>1, <1>2, <1>3 DEF FiniteNode

-----------------------------------------------------------------------------
(* The kinds together *)

\* Kotlin's node q is understood.
Understood(q) ==
  /\ ReadsNode(toJsonObject(q))
  /\ \A k \in DOMAIN toJsonObject(q).v \ {"type"} :
       k \in DOMAIN Variants[ReadNode(toJsonObject(q)).type] /\ toJsonObject(q).v[k].js # "null"

LEMMA BecomesUnderstood ==
  ASSUME NEW q, NEW tag, NEW r, Becomes(q, tag, r)
  PROVE  Understood(q)
BY DEF Becomes, Understood

LEMMA NodeUnderstood ==
  ASSUME NEW q, IsNode(q), Constructible(q), FiniteNode(q)
  PROVE  Understood(q)
<1>1. CASE q.kind = "All" BY <1>1, AllRead, BecomesUnderstood
<1>2. CASE q.kind = "Empty" BY <1>2, EmptyRead, BecomesUnderstood
<1>3. CASE q.kind = "Term" BY <1>3, TermRead, BecomesUnderstood
<1>4. CASE q.kind = "TermSet" BY <1>4, TermSetRead, BecomesUnderstood
<1>5. CASE q.kind = "Boolean" BY <1>5, BooleanRead, BecomesUnderstood
<1>6. CASE q.kind = "Phrase" BY <1>6, PhraseRead, BecomesUnderstood
<1>7. CASE q.kind = "PhrasePrefix" BY <1>7, PhrasePrefixRead, BecomesUnderstood
<1>8. CASE q.kind = "Range" BY <1>8, RangeRead, BecomesUnderstood
<1>9. CASE q.kind = "Regex" BY <1>9, RegexRead, BecomesUnderstood
<1>10. CASE q.kind = "Fuzzy" BY <1>10, FuzzyRead, BecomesUnderstood
<1>11. CASE q.kind = "Exists" BY <1>11, ExistsRead, BecomesUnderstood
<1>12. CASE q.kind = "Boost" BY <1>12, BoostRead, BecomesUnderstood
<1>13. CASE q.kind = "ConstScore" BY <1>13, ConstScoreRead, BecomesUnderstood
<1>14. CASE q.kind = "DisjunctionMax" BY <1>14, DisjunctionMaxRead, BecomesUnderstood
<1>15. CASE q.kind = "QueryString" BY <1>15, QueryStringRead, BecomesUnderstood
<1> QED
  BY <1>1, <1>2, <1>3, <1>4, <1>5, <1>6, <1>7, <1>8, <1>9, <1>10, <1>11, <1>12, <1>13, <1>14, <1>15
  DEF IsNode

\* What Rust has in place of a Kotlin node.
RustNode(q) == ReadNode(toJsonObject(q))

\* A node that to_query accepts names fields of the schema.
LEMMA NodeNames ==
  ASSUME NEW q, IsNode(q), Constructible(q), FiniteNode(q), ~Errs(RustNode(q))
  PROVE  Named(q) \subseteq DOMAIN Schema
<1> DEFINE n == RustNode(q)
<1>1. CASE q.kind \in {"All", "Empty", "Boolean", "Boost", "ConstScore", "DisjunctionMax"}
  BY <1>1 DEF Named
<1>2. CASE q.kind = "Term"
  <2>1. n.type = "term" /\ n.term = RustTerm(q.field, q.value)
    <3>1. Becomes(q, "term", [term |-> RustTerm(q.field, q.value)])
      BY <1>2, TermRead
    <3>2. "term" \in DOMAIN Variants["term"]
      BY DEF Variants
    <3> QED BY <3>1, <3>2 DEF Becomes, RustNode
  <2>2. n.term.name = q.field
    BY <2>1 DEF RustTerm
  <2> HIDE DEF n
  <2>3. ~Errs(n)
    BY DEF n
  <2> QED BY <1>2, <2>1, <2>2, <2>3 DEF Errs, HasTerm, Named
<1>3. CASE q.kind = "TermSet"
  <2> DEFINE terms == [i \in DOMAIN q.terms |-> RustTerm(q.terms[i].field, q.terms[i].value)]
  <2>1. n.type = "term_set" /\ n.terms = terms
    <3>1. Becomes(q, "term_set", [terms |-> terms])
      BY <1>3, TermSetRead
    <3>2. "terms" \in DOMAIN Variants["term_set"]
      BY DEF Variants
    <3> HIDE DEF terms
    <3> QED BY <3>1, <3>2 DEF Becomes, RustNode
  <2>2. DOMAIN n.terms = DOMAIN q.terms /\ \A i \in DOMAIN q.terms : n.terms[i].name = q.terms[i].field
    BY <2>1 DEF RustTerm
  <2> HIDE DEF n, terms
  <2>3. ~Errs(n)
    BY DEF n
  <2>4. \A i \in DOMAIN q.terms : q.terms[i].field \in DOMAIN Schema
    BY <2>1, <2>2, <2>3 DEF Errs, HasTerm
  <2> QED BY <1>3, <2>4 DEF Named
<1>4. CASE q.kind = "QueryString"
  <2>1. n.type = "query_string" /\ n.fuzzy_fields = RustFuzzy(q.fuzzyFields)
    <3>1. Becomes(q, "query_string", [query |-> q.query, default_fields |-> q.defaultFields,
                                      fuzzy_fields |-> RustFuzzy(q.fuzzyFields)])
      BY <1>4, QueryStringRead
    <3>2. "fuzzy_fields" \in DOMAIN Variants["query_string"]
      BY DEF Variants
    <3> QED BY <3>1, <3>2 DEF Becomes, RustNode
  <2>2. /\ DOMAIN n.fuzzy_fields = DOMAIN q.fuzzyFields
        /\ \A i \in DOMAIN q.fuzzyFields : n.fuzzy_fields[i].field_name = q.fuzzyFields[i].fieldName
    BY <2>1 DEF RustFuzzy
  <2> HIDE DEF n
  <2>3. ~Errs(n)
    BY DEF n
  <2>4. \A i \in DOMAIN q.fuzzyFields : q.fuzzyFields[i].fieldName \in DOMAIN Schema
    BY <2>1, <2>2, <2>3 DEF Errs, build_query_parser
  <2> QED BY <1>4, <2>4 DEF Named
<1>5. ASSUME n.field = q.field,
             n.type \in {"phrase", "phrase_prefix", "range", "regex", "fuzzy", "exists"},
             q.kind \in {"Phrase", "PhrasePrefix", "Range", "Regex", "Fuzzy", "Exists"}
      PROVE  Named(q) \subseteq DOMAIN Schema
  <2> HIDE DEF n
  <2>1. ~Errs(n)
    BY DEF n
  <2>2. n.field \in DOMAIN Schema
    BY <1>5, <2>1 DEF Errs
  <2> QED BY <1>5, <2>2 DEF Named
<1>6. CASE q.kind = "Phrase"
  <2>1. Becomes(q, "phrase", [field |-> q.field, terms |-> q.terms, slop |-> q.slop])
    BY <1>6, PhraseRead
  <2>2. "field" \in DOMAIN Variants["phrase"]
    BY DEF Variants
  <2>3. n.type = "phrase" /\ n.field = q.field
    BY <2>1, <2>2 DEF Becomes, RustNode
  <2> QED BY <1>5, <1>6, <2>3
<1>7. CASE q.kind = "PhrasePrefix"
  <2>1. Becomes(q, "phrase_prefix", [field |-> q.field, terms |-> q.terms, max_expansions |-> q.maxExpansions])
    BY <1>7, PhrasePrefixRead
  <2>2. "field" \in DOMAIN Variants["phrase_prefix"]
    BY DEF Variants
  <2>3. n.type = "phrase_prefix" /\ n.field = q.field
    BY <2>1, <2>2 DEF Becomes, RustNode
  <2> QED BY <1>5, <1>7, <2>3
<1>8. CASE q.kind = "Range"
  <2>1. Becomes(q, "range", [field |-> q.field, lower |-> RustValues(q.lower), upper |-> RustValues(q.upper),
                       include_lower |-> q.includeLower, include_upper |-> q.includeUpper])
    BY <1>8, RangeRead
  <2>2. "field" \in DOMAIN Variants["range"]
    BY DEF Variants
  <2>3. n.type = "range" /\ n.field = q.field
    BY <2>1, <2>2 DEF Becomes, RustNode
  <2> QED BY <1>5, <1>8, <2>3
<1>9. CASE q.kind = "Regex"
  <2>1. Becomes(q, "regex", [field |-> q.field, pattern |-> q.pattern])
    BY <1>9, RegexRead
  <2>2. "field" \in DOMAIN Variants["regex"]
    BY DEF Variants
  <2>3. n.type = "regex" /\ n.field = q.field
    BY <2>1, <2>2 DEF Becomes, RustNode
  <2> QED BY <1>5, <1>9, <2>3
<1>10. CASE q.kind = "Fuzzy"
  <2>1. Becomes(q, "fuzzy", [field |-> q.field, term |-> q.term, distance |-> q.distance,
                       transpose_cost_one |-> q.transposeCostOne])
    BY <1>10, FuzzyRead
  <2>2. "field" \in DOMAIN Variants["fuzzy"]
    BY DEF Variants
  <2>3. n.type = "fuzzy" /\ n.field = q.field
    BY <2>1, <2>2 DEF Becomes, RustNode
  <2> QED BY <1>5, <1>10, <2>3
<1>11. CASE q.kind = "Exists"
  <2>1. Becomes(q, "exists", [field |-> q.field])
    BY <1>11, ExistsRead
  <2>2. "field" \in DOMAIN Variants["exists"]
    BY DEF Variants
  <2>3. n.type = "exists" /\ n.field = q.field
    BY <2>1, <2>2 DEF Becomes, RustNode
  <2> QED BY <1>5, <1>11, <2>3
<1> QED BY <1>1, <1>2, <1>3, <1>4, <1>6, <1>7, <1>8, <1>9, <1>10, <1>11 DEF IsNode

-----------------------------------------------------------------------------
(* Trees *)

\* Sequences are lists, and lists are sequences.
LEMMA SeqIsList ==
  ASSUME NEW T, NEW s \in Seq(T)
  PROVE  IsList(s)
<1>1. Len(s) \in Nat /\ DOMAIN s = 1..Len(s) /\ s = [i \in 1..Len(s) |-> s[i]]
  OBVIOUS
<1> DEFINE R == {s[i] : i \in DOMAIN s}
<1>2. \A i \in 1..Len(s) : s[i] \in R
  BY <1>1
<1> HIDE DEF R
<1>3. [i \in 1..Len(s) |-> s[i]] \in Seq(R)
  BY <1>1, <1>2
<1> QED BY <1>1, <1>3 DEF IsList, R

LEMMA ListIsSeq ==
  ASSUME NEW s, IsList(s), NEW T, \A i \in DOMAIN s : s[i] \in T
  PROVE  s \in Seq(T)
<1>1. Len(s) \in Nat /\ DOMAIN s = 1..Len(s) /\ s = [i \in DOMAIN s |-> s[i]]
  BY ListFacts
<1>2. [i \in 1..Len(s) |-> s[i]] \in Seq(T)
  BY <1>1
<1> QED BY <1>1, <1>2

\* One list after the other.
LEMMA JoinFacts ==
  ASSUME NEW s, IsList(s), NEW u, IsList(u)
  PROVE  /\ IsList(s \o u) /\ Len(s \o u) = Len(s) + Len(u)
         /\ \A i \in 1..Len(s) : (s \o u)[i] = s[i]
         /\ \A i \in 1..Len(u) : (s \o u)[Len(s) + i] = u[i]
<1> DEFINE T == {s[i] : i \in DOMAIN s} \cup {u[i] : i \in DOMAIN u}
<1>1. (\A i \in DOMAIN s : s[i] \in T) /\ (\A i \in DOMAIN u : u[i] \in T)
  OBVIOUS
<1> HIDE DEF T
<1>2. s \in Seq(T) /\ u \in Seq(T)
  BY <1>1, ListIsSeq
<1>3. /\ s \o u \in Seq(T) /\ Len(s \o u) = Len(s) + Len(u)
      /\ \A i \in 1..(Len(s) + Len(u)) : (s \o u)[i] = IF i <= Len(s) THEN s[i] ELSE u[i - Len(s)]
  BY <1>2, ConcatProperties
<1>4. IsList(s \o u)
  BY <1>3, SeqIsList
<1>5. Len(s) \in Nat /\ Len(u) \in Nat
  BY <1>2
<1>6. ASSUME NEW i \in 1..Len(s) PROVE (s \o u)[i] = s[i]
  BY <1>3, <1>5
<1>7. ASSUME NEW i \in 1..Len(u) PROVE (s \o u)[Len(s) + i] = u[i]
  BY <1>3, <1>5
<1> QED BY <1>3, <1>4, <1>6, <1>7

\* A Kotlin tree.
IsTree(q) == IsList(q) /\ q # <<>> /\ \A i \in DOMAIN q : IsNode(q[i])

\* A tree and two more nodes.
LEMMA TreeAnd2 ==
  ASSUME NEW q, IsTree(q), NEW x, IsNode(x), NEW y, IsNode(y)
  PROVE  /\ IsTree(q \o <<x, y>>) /\ Len(q) \in Nat \ {0} /\ Len(q \o <<x, y>>) = Len(q) + 2
         /\ \A i \in 1..Len(q) : (q \o <<x, y>>)[i] = q[i]
         /\ (q \o <<x, y>>)[Len(q) + 1] = x /\ (q \o <<x, y>>)[Len(q) + 2] = y
<1> DEFINE u == <<x, y>>
           w == q \o u
<1>1. IsList(u) /\ Len(u) = 2 /\ u[1] = x /\ u[2] = y
  <2>1. u \in Seq({x, y})
    OBVIOUS
  <2>2. IsList(u)
    BY <2>1, SeqIsList
  <2> QED BY <2>2
<1>2. Len(q) \in Nat /\ DOMAIN q = 1..Len(q) /\ Len(q) # 0
  <2>1. Len(q) \in Nat /\ DOMAIN q = 1..Len(q) /\ q = [i \in DOMAIN q |-> q[i]]
    BY ListFacts DEF IsTree
  <2>2. CASE Len(q) = 0
    BY <2>1, <2>2 DEF IsTree
  <2> QED BY <2>1, <2>2
<1> HIDE DEF u
<1>3. /\ IsList(w) /\ Len(w) = Len(q) + 2
      /\ \A i \in 1..Len(q) : w[i] = q[i]
      /\ w[Len(q) + 1] = x /\ w[Len(q) + 2] = y
  <2>1. /\ IsList(w) /\ Len(w) = Len(q) + Len(u)
        /\ \A i \in 1..Len(q) : w[i] = q[i]
        /\ \A i \in 1..Len(u) : w[Len(q) + i] = u[i]
    <3>1. IsList(q)
      BY DEF IsTree
    <3>2. IsList(u)
      BY <1>1
    <3>3. /\ IsList(q \o u) /\ Len(q \o u) = Len(q) + Len(u)
          /\ \A i \in 1..Len(q) : (q \o u)[i] = q[i]
          /\ \A i \in 1..Len(u) : (q \o u)[Len(q) + i] = u[i]
      BY <3>1, <3>2, JoinFacts
    <3> QED BY <3>3
  <2>2. 1 \in 1..Len(u) /\ 2 \in 1..Len(u)
    BY <1>1
  <2>3. w[Len(q) + 1] = u[1] /\ w[Len(q) + 2] = u[2]
    BY <2>1, <2>2
  <2> HIDE DEF w
  <2> QED BY <1>1, <2>1, <2>3
<1> HIDE DEF w
<1>4. DOMAIN w = 1..(Len(q) + 2)
  BY <1>3, ListFacts
<1>5. ASSUME NEW i \in DOMAIN w PROVE IsNode(w[i])
  <2>1. i \in 1..Len(q) \/ i = Len(q) + 1 \/ i = Len(q) + 2
    BY <1>2, <1>4
  <2> QED BY <1>2, <1>3, <2>1 DEF IsTree
<1>6. w # <<>>
  BY <1>2, <1>4
<1>7. IsTree(w)
  BY <1>3, <1>5, <1>6 DEF IsTree
<1> QED BY <1>2, <1>3, <1>7 DEF u, w

\* A tree and one more node.
LEMMA TreeAnd1 ==
  ASSUME NEW q, IsTree(q), NEW x, IsNode(x)
  PROVE  IsTree(Append(q, x))
<1>1. Len(q) \in Nat /\ DOMAIN q = 1..Len(q) /\ q # <<>>
  BY ListFacts DEF IsTree
<1> DEFINE T == {q[i] : i \in DOMAIN q} \cup {x}
           w == Append(q, x)
<1>2. (\A i \in DOMAIN q : q[i] \in T) /\ x \in T
  OBVIOUS
<1> HIDE DEF T
<1>3. q \in Seq(T)
  BY <1>2, ListIsSeq DEF IsTree
<1>4. /\ w \in Seq(T) /\ Len(w) = Len(q) + 1 /\ w[Len(q) + 1] = x
      /\ \A i \in 1..Len(q) : w[i] = q[i]
  BY <1>2, <1>3, AppendProperties
<1> HIDE DEF w
<1>5. IsList(w) /\ DOMAIN w = 1..(Len(q) + 1)
  <2>1. IsList(w)
    BY <1>4, SeqIsList
  <2> QED BY <1>4, <2>1, ListFacts
<1>6. ASSUME NEW i \in DOMAIN w PROVE IsNode(w[i])
  <2>1. i \in 1..Len(q) \/ i = Len(q) + 1
    BY <1>1, <1>5
  <2> QED BY <1>1, <1>4, <2>1 DEF IsTree
<1>7. w # <<>>
  BY <1>1, <1>5
<1> QED BY <1>5, <1>6, <1>7 DEF IsTree, w

\* A leaf is a node, and alone a tree.
LEMMA LeafIsNode ==
  ASSUME NEW q \in Leaves \cup Siblings \cup Texts
  PROVE  IsNode(q)
<1>1. IsLeaf(q)
  BY LeavesAssumption
<1>2. q.kind = "DisjunctionMax" => IsList(q.queries)
  <2>1. <<>> \in Seq({})
    OBVIOUS
  <2> QED BY <1>1, <2>1, SeqIsList DEF IsLeaf
<1>3. q.kind = "Boolean" => DOMAIN q.clauses = {}
  BY <1>1 DEF IsLeaf
<1>4. q.kind = "Range" => \A s \in {q.lower, q.upper} : \A i \in DOMAIN s : Placed(s[i])
  <2> SUFFICES ASSUME q.kind = "Range", NEW s \in {q.lower, q.upper}, NEW i \in DOMAIN s,
                      s[i].kind \notin Ordered \cup {"json"}
               PROVE  Key(RustValue(s[i])) \in Int
    BY DEF Placed
  <2>1. IsValue(s[i]) /\ Finite(s[i])
    BY <1>1 DEF IsLeaf, Finite
  <2>2. ReadValue(toJsonElement(s[i])) = RustValue(s[i])
    BY <2>1, ValueRead
  <2> QED BY <2>2, RankAssumption
<1> QED BY <1>1, <1>2, <1>3, <1>4 DEF IsLeaf, IsNode

LEMMA NodeIsTree ==
  ASSUME NEW q, IsNode(q)
  PROVE  IsTree(<<q>>)
<1>1. <<q>> \in Seq({q}) /\ DOMAIN <<q>> = {1} /\ <<q>>[1] = q
  OBVIOUS
<1>2. IsList(<<q>>)
  BY <1>1, SeqIsList
<1> QED BY <1>1, <1>2 DEF IsTree

\* The Boolean nodes made here.
LEMMA BooleanIsNode ==
  ASSUME NEW s, \A i \in DOMAIN s : s[i].occur \in Occurs
  PROVE  IsNode(Boolean(s)) /\ Constructible(Boolean(s))
BY DEF IsNode, Boolean, Constructible

\* A clause or two.
LEMMA ClauseFacts ==
  ASSUME NEW a \in Occurs, NEW b \in Occurs, NEW m, NEW n
  PROVE  /\ IsNode(Boolean(<<Clause(a, m)>>)) /\ Constructible(Boolean(<<Clause(a, m)>>))
         /\ IsNode(Boolean(<<Clause(a, m), Clause(b, n)>>))
         /\ Constructible(Boolean(<<Clause(a, m), Clause(b, n)>>))
<1>1. /\ DOMAIN <<Clause(a, m)>> = {1} /\ <<Clause(a, m)>>[1].occur = a
      /\ DOMAIN <<Clause(a, m), Clause(b, n)>> = {1, 2}
      /\ <<Clause(a, m), Clause(b, n)>>[1].occur = a
      /\ <<Clause(a, m), Clause(b, n)>>[2].occur = b
  BY DEF Clause
<1>2. /\ \A i \in DOMAIN <<Clause(a, m)>> : <<Clause(a, m)>>[i].occur \in Occurs
      /\ \A i \in DOMAIN <<Clause(a, m), Clause(b, n)>> :
           <<Clause(a, m), Clause(b, n)>>[i].occur \in Occurs
  BY SMTT(60), <1>1
<1> QED BY <1>2, BooleanIsNode

\* What a tree is put into is a tree.
LEMMA AroundIsTree ==
  ASSUME NEW q, IsTree(q), NEW w, Around(q, w)
  PROVE  IsTree(w)
<1> DEFINE n == Len(q)
<1>1. ASSUME NEW o \in Occurs, w = Append(q, Boolean(<<Clause(o, n)>>)) PROVE IsTree(w)
  BY <1>1, ClauseFacts, TreeAnd1
<1>2. ASSUME NEW o \in Occurs, NEW p \in {"MUST", "SHOULD"}, NEW s \in Siblings,
             w = q \o <<s, Boolean(<<Clause(o, n), Clause(p, n + 1)>>)>>
      PROVE  IsTree(w)
  <2>1. p \in Occurs
    BY DEF Occurs
  <2>2. IsNode(Boolean(<<Clause(o, n), Clause(p, n + 1)>>))
    BY <2>1, ClauseFacts
  <2> QED BY <1>2, <2>2, LeafIsNode, TreeAnd2
<1>3. ASSUME NEW k \in {"Boost", "ConstScore"}, NEW f, w = Append(q, [kind |-> k, query |-> n, factor |-> f])
      PROVE  IsTree(w)
  <2>1. IsNode([kind |-> k, query |-> n, factor |-> f])
    BY DEF IsNode
  <2> QED BY <1>3, <2>1, TreeAnd1
<1>4. ASSUME NEW s \in Siblings, NEW t \in {<<>>, << 1 >>, <<NotFinite>>},
             w = q \o <<s, [kind |-> "DisjunctionMax", queries |-> <<n + 1, n>>, tieBreaker |-> t]>>
      PROVE  IsTree(w)
  <2> DEFINE x == [kind |-> "DisjunctionMax", queries |-> <<n + 1, n>>, tieBreaker |-> t]
  <2>1. IsList(<<n + 1, n>>)
    <3>1. \A a, b : <<a, b>> \in Seq({a, b})
      OBVIOUS
    <3>2. <<n + 1, n>> \in Seq({n + 1, n})
      BY <3>1, Zenon
    <3> QED BY <3>2, SeqIsList, Zenon
  <2>2. IsOptional(t)
    <3>1. t \in Seq({1, NotFinite}) /\ Len(t) <= 1
      <4>1. CASE t = <<>>
        BY <4>1
      <4>2. CASE t = <<1>>
        BY <4>2
      <4>3. CASE t = <<NotFinite>>
        BY <4>3
      <4> QED BY <4>1, <4>2, <4>3
    <3>2. IsList(t)
      BY <3>1, SeqIsList
    <3> QED BY <3>1, <3>2 DEF IsOptional
  <2>3. x.kind = "DisjunctionMax" /\ x.queries = <<n + 1, n>> /\ x.tieBreaker = t
    OBVIOUS
  <2>4. w = q \o <<s, x>>
    BY <1>4
  <2> HIDE DEF x, n
  <2>5. IsNode(x)
    BY <2>1, <2>2, <2>3 DEF IsNode
  <2> QED BY <2>4, <2>5, LeafIsNode, TreeAnd2
<1>5. \/ \E o \in Occurs : w = Append(q, Boolean(<<Clause(o, n)>>))
      \/ \E o \in Occurs, p \in {"MUST", "SHOULD"}, s \in Siblings :
           w = q \o <<s, Boolean(<<Clause(o, n), Clause(p, n + 1)>>)>>
      \/ \E k \in {"Boost", "ConstScore"}, f \in {2, NotFinite} :
           w = Append(q, [kind |-> k, query |-> n, factor |-> f])
      \/ \E s \in Siblings, t \in {<<>>, <<1>>, <<NotFinite>>} :
           w = q \o <<s, [kind |-> "DisjunctionMax", queries |-> <<n + 1, n>>, tieBreaker |-> t]>>
  BY Zenon DEF Around
<1>6. CASE \E o \in Occurs : w = Append(q, Boolean(<<Clause(o, n)>>))
  BY <1>1, <1>6
<1>7. CASE \E o \in Occurs, p \in {"MUST", "SHOULD"}, s \in Siblings :
             w = q \o <<s, Boolean(<<Clause(o, n), Clause(p, n + 1)>>)>>
  BY <1>2, <1>7
<1>8. CASE \E k \in {"Boost", "ConstScore"}, f \in {2, NotFinite} :
             w = Append(q, [kind |-> k, query |-> n, factor |-> f])
  BY <1>3, <1>8
<1>9. CASE \E s \in Siblings, t \in {<<>>, <<1>>, <<NotFinite>>} :
             w = q \o <<s, [kind |-> "DisjunctionMax", queries |-> <<n + 1, n>>, tieBreaker |-> t]>>
  BY <1>4, <1>9
<1> QED BY <1>5, <1>6, <1>7, <1>8, <1>9

\* A text query with its filter is a tree, and constructible if they are.
LEMMA SearchTextIsTree ==
  ASSUME NEW q, IsTree(q), NEW t \in Texts
  PROVE  /\ IsTree(searchText(t, q))
         /\ (\A i \in DOMAIN q : Constructible(q[i])) /\ Constructible(t) =>
              \A i \in DOMAIN searchText(t, q) : Constructible(searchText(t, q)[i])
<1> DEFINE b == Boolean(<<Clause("MUST", Len(q) + 1), Clause("MUST", Len(q))>>)
           w == q \o <<t, b>>
<1>1. searchText(t, q) = w
  BY DEF searchText, IsTree
<1>2. IsNode(b) /\ Constructible(b) /\ IsNode(t)
  BY ClauseFacts, LeafIsNode DEF Occurs
<1> HIDE DEF b
<1>3. /\ IsTree(w) /\ Len(q) \in Nat /\ Len(w) = Len(q) + 2
      /\ \A i \in 1..Len(q) : w[i] = q[i]
      /\ w[Len(q) + 1] = t /\ w[Len(q) + 2] = b
  BY <1>2, TreeAnd2
<1> HIDE DEF w
<1>4. DOMAIN w = 1..(Len(q) + 2) /\ DOMAIN q = 1..Len(q)
  BY <1>3, ListFacts DEF IsTree
<1>5. ASSUME \A i \in DOMAIN q : Constructible(q[i]), Constructible(t), NEW i \in DOMAIN w
      PROVE  Constructible(w[i])
  <2>1. i \in 1..Len(q) \/ i = Len(q) + 1 \/ i = Len(q) + 2
    BY <1>3, <1>4
  <2> QED BY <1>2, <1>3, <1>4, <1>5, <2>1
<1> QED BY <1>1, <1>3, <1>5

\* A tree that is well-formed as a text has numbers where it should.
LEMMA TreeIsFinite ==
  ASSUME NEW q, IsTree(q), WellFormed(toJson(q)), NEW i \in DOMAIN q
  PROVE  FiniteNode(q[i])
<1>1. DOMAIN toJson(q) = DOMAIN q /\ toJson(q)[i] = toJsonObject(q[i])
  BY DEF toJson
<1>2. NoBare(toJsonObject(q[i]))
  BY <1>1 DEF WellFormed, NoBare
<1> QED BY <1>2, WellFormedIsFinite DEF IsTree

-----------------------------------------------------------------------------
(* The way of a query *)

\* The strengthening: what is on its way is what Kotlin's tree was written as,
\* and read from that.
QueryIInv ==
  /\ IsTree(query)
  /\ typed =>
       /\ \A i \in DOMAIN query : Constructible(query[i])
       /\ phase # "tree" => json = toJson(query)
       /\ phase \in {"dsl", "done"} => WellFormed(json) /\ dsl = Read(json)
       /\ phase = "done" => to_query(dsl) /\ hits = Search(dsl)
       /\ phase = "refused" => ~(WellFormed(json) /\ Depth(json) < RecursionLimit /\ Reads(json))

\* The way a query goes.
THEOREM WayOfAQuery == QuerySpec => []QueryIInv
<1>1. QueryInit => QueryIInv
  <2> SUFFICES ASSUME QueryInit PROVE QueryIInv
    OBVIOUS
  <2>1. PICK q \in Leaves : query = <<q>> /\ typed = Constructible(q) /\ phase = "tree"
    BY DEF QueryInit
  <2>2. IsTree(query)
    BY <2>1, LeafIsNode, NodeIsTree
  <2>3. typed => \A i \in DOMAIN query : Constructible(query[i])
    <3>1. typed => Constructible(q)
      BY <2>1, Zenon
    <3>2. DOMAIN query = {1} /\ query[1] = q
      BY <2>1
    <3> QED BY <3>1, <3>2
  <2> QED BY <2>1, <2>2, <2>3 DEF QueryIInv
<1>2. ASSUME QueryIInv, [QueryNext]_queryVars PROVE QueryIInv'
  <2>1. CASE Wrap
    <3>1. Around(query, query') /\ (\A i \in DOMAIN query' : Constructible(query'[i])) /\ phase' = "tree"
      BY <2>1 DEF Wrap
    <3>2. IsTree(query')
      BY <1>2, <3>1, AroundIsTree DEF QueryIInv
    <3> QED BY <3>1, <3>2 DEF QueryIInv
  <2>2. CASE search
    <3>1. /\ typed /\ typed' = typed /\ phase' = "json" /\ json' = toJson(query')
          /\ query' = query \/ \E t \in Texts : Constructible(t) /\ query' = searchText(t, query)
      BY <2>2 DEF search
    <3>2. IsTree(query) /\ \A i \in DOMAIN query : Constructible(query[i])
      BY <1>2, <3>1 DEF QueryIInv
    <3>3. IsTree(query') /\ \A i \in DOMAIN query' : Constructible(query'[i])
      BY <3>1, <3>2, SearchTextIsTree
    <3> QED BY <3>1, <3>3 DEF QueryIInv
  <2>3. CASE raw
    BY <1>2, <2>3 DEF raw, QueryIInv
  <2>4. CASE from_str
    <3>1. CASE WellFormed(json) /\ Depth(json) < RecursionLimit /\ Reads(json)
      BY <1>2, <2>4, <3>1 DEF from_str, QueryIInv
    <3>2. CASE ~(WellFormed(json) /\ Depth(json) < RecursionLimit /\ Reads(json))
      BY <1>2, <2>4, <3>2 DEF from_str, QueryIInv
    <3> QED BY <3>1, <3>2
  <2>5. CASE search_dsl
    <3>1. CASE to_query(dsl) /\ weight(dsl)
      BY <1>2, <2>5, <3>1 DEF search_dsl, QueryIInv
    <3>2. CASE ~(to_query(dsl) /\ weight(dsl))
      BY <1>2, <2>5, <3>2 DEF search_dsl, QueryIInv
    <3> QED BY <3>1, <3>2
  <2>6. CASE UNCHANGED queryVars
    BY <1>2, <2>6 DEF queryVars, QueryIInv
  <2> QED BY <1>2, <2>1, <2>2, <2>3, <2>4, <2>5, <2>6 DEF QueryNext
<1> QED BY <1>1, <1>2, PTL DEF QuerySpec

\* Whatever Kotlin lets somebody build, serde reads, and skips no key of it.
THEOREM KotlinSpeaksRust == QuerySpec => []KotlinIsUnderstood
<1>1. QueryIInv => KotlinIsUnderstood
  <2> SUFFICES ASSUME QueryIInv PROVE KotlinIsUnderstood
    OBVIOUS
  <2>1. ASSUME typed, phase \in {"refused", "dsl"}, WellFormed(json), NEW i \in DOMAIN json
        PROVE  i \in DOMAIN query /\ json[i] = toJsonObject(query[i]) /\ Understood(query[i])
    <3>1. json = toJson(query) /\ IsTree(query) /\ \A m \in DOMAIN query : Constructible(query[m])
      BY <2>1 DEF QueryIInv
    <3>2. i \in DOMAIN query /\ json[i] = toJsonObject(query[i])
      BY <2>1, <3>1 DEF toJson
    <3>3. FiniteNode(query[i]) /\ IsNode(query[i]) /\ Constructible(query[i])
      BY <2>1, <3>1, <3>2, TreeIsFinite DEF IsTree
    <3> QED BY <3>2, <3>3, NodeUnderstood
  <2>2. ASSUME typed, phase = "refused" PROVE ~(WellFormed(json) /\ Depth(json) < RecursionLimit)
    <3> SUFFICES ASSUME WellFormed(json), Depth(json) < RecursionLimit PROVE FALSE
      OBVIOUS
    <3>1. Reads(json)
      BY <2>1, <2>2 DEF Reads, Understood
    <3> QED BY <2>2, <3>1 DEF QueryIInv
  <2>3. ASSUME typed, phase = "dsl", NEW i \in DOMAIN json, NEW k \in DOMAIN json[i].v \ {"type"}
        PROVE  k \in DOMAIN Variants[dsl[i].type] /\ json[i].v[k].js # "null"
    <3>1. WellFormed(json) /\ dsl = Read(json)
      BY <2>3 DEF QueryIInv
    <3>2. dsl[i] = ReadNode(json[i])
      BY <3>1 DEF Read
    <3> QED BY <2>1, <2>3, <3>1, <3>2 DEF Understood
  <2> QED BY <2>2, <2>3 DEF KotlinIsUnderstood
<1> QED BY <1>1, WayOfAQuery, PTL

\* A query that was searched named fields of the schema only: but for default
\* fields and the names in the text of a query string.
LEMMA NamesHold == QueryIInv => NamesAreChecked
<1> SUFFICES ASSUME QueryIInv, typed, phase = "done", NEW i \in DOMAIN query
             PROVE  Named(query[i]) \subseteq DOMAIN Schema
  BY DEF NamesAreChecked
<1>1. /\ IsTree(query) /\ Constructible(query[i]) /\ WellFormed(toJson(query))
      /\ dsl = Read(toJson(query)) /\ to_query(dsl)
  BY DEF QueryIInv
<1>2. i \in DOMAIN dsl /\ dsl[i] = RustNode(query[i])
  BY <1>1 DEF Read, toJson, RustNode
<1>3. ~Errs(RustNode(query[i]))
  BY <1>1, <1>2 DEF to_query
<1> QED BY <1>1, <1>3, TreeIsFinite, NodeNames DEF IsTree

-----------------------------------------------------------------------------
(* Searches *)

\* What is sent of a tree, node by node.
LEMMA SentFacts ==
  ASSUME NEW q, IsList(q)
  PROVE  /\ Len(q) \in Nat /\ Len(Sent(q)) = Len(q)
         /\ \A i \in 1..Len(q) : Sent(q)[i] = RustNode(q[i])
<1>1. Len(q) \in Nat /\ DOMAIN q = 1..Len(q)
  BY ListFacts
<1> DEFINE w == [i \in 1..Len(q) |-> RustNode(q[i])]
           T == {RustNode(q[i]) : i \in 1..Len(q)}
<1>2. Sent(q) = w
  BY <1>1 DEF Sent, Read, toJson, RustNode
<1>3. \A i \in 1..Len(q) : RustNode(q[i]) \in T
  OBVIOUS
<1> HIDE DEF T
<1>4. w \in Seq(T) /\ Len(w) = Len(q)
  BY <1>1, <1>3
<1> QED BY <1>1, <1>2, <1>4

\* The documents that a node finds, and what the nodes up to each have found.
Found(n, before) == {d \in Docs : Matches(n, before, d)}

Finds(ns, f) ==
  /\ f \in [0..Len(ns) -> Seq(SUBSET Docs)] /\ f[0] = <<>>
  /\ \A i \in 1..Len(ns) : f[i] = Append(f[i - 1], Found(ns[i], f[i - 1]))

\* A search finds what its last node finds.
LEMMA SearchHistory ==
  ASSUME NEW ns, Len(ns) \in Nat
  PROVE  \E f : Finds(ns, f) /\ Search(ns) = f[Len(ns)][Len(ns)]
<1> DEFINE hi == Len(ns)
           S == Seq(SUBSET Docs)
           step == [p \in (1..hi) \X S |-> Append(p[2], Found(ns[p[1]], p[2]))]
           P(f) == f = [i \in 0..hi |->
                          IF i = 0 THEN <<>>
                          ELSE LET before == f[i - 1]
                               IN  Append(before, {d \in Docs : Matches(ns[i], before, d)})]
<1>1. \A n, before : Found(n, before) \in SUBSET Docs
  BY DEF Found
<1>2. \A i \in 1..hi : \A s \in S : /\ step[<<i, s>>] = Append(s, Found(ns[i], s))
                                    /\ Append(s, Found(ns[i], s)) \in S
  BY <1>1
<1>3. <<>> \in S /\ 0 + 1 = 1 /\ 0 \in Nat /\ 0 <= hi
  OBVIOUS
<1>4. Loop(0, hi, S, <<>>, step)
  <2> HIDE DEF S, step, hi
  <2> QED BY <1>2, <1>3 DEF Loop, hi
<1>5. PICK g : History(g, 0, hi, S, <<>>, step)
  <2> HIDE DEF S, step, hi
  <2> QED BY <1>4, Iterate
<1>6. /\ g \in [0..hi -> S] /\ g[0] = <<>>
      /\ \A i \in 1..hi : g[i] = step[<<i, g[i - 1]>>]
  <2> HIDE DEF S, step, hi
  <2> QED BY <1>3, <1>5 DEF History
<1>7. P(g)
  <2>1. ASSUME NEW i \in 0..hi, i # 0
        PROVE  g[i] = Append(g[i - 1], Found(ns[i], g[i - 1]))
    <3>1. i \in 1..hi /\ g[i - 1] \in S
      BY <1>6, <2>1
    <3> HIDE DEF S, step, hi
    <3> QED BY <1>2, <1>6, <3>1
  <2> HIDE DEF S, step, hi
  <2> QED BY <1>6, <2>1 DEF Found
<1>8. P(CHOOSE h : P(h))
  <2> HIDE DEF P
  <2> QED BY <1>7
<1>9. PICK f : f = (CHOOSE h : P(h))
  OBVIOUS
<1>10. Search(ns) = f[Len(ns)][Len(ns)]
  BY <1>9 DEF Search
<1>11. P(f)
  <2> HIDE DEF P
  <2> QED BY <1>8, <1>9
<1>12. f[0] = <<>> /\ \A i \in 1..hi : f[i] = Append(f[i - 1], Found(ns[i], f[i - 1]))
  <2>1. 0 \in 0..hi /\ \A i \in 1..hi : i \in 0..hi /\ i # 0
    BY <1>3
  <2> HIDE DEF S, step, hi
  <2> QED BY <1>11, <2>1 DEF Found
<1>13. \A i \in 0..hi : i \in {n \in 0..hi : f[n] \in S}
  <2>1. 0 \in {n \in 0..hi : f[n] \in S}
    <3>1. f[0] \in S /\ 0 \in 0..hi
      <4> HIDE DEF S
      <4> QED BY <1>3, <1>12
    <3> HIDE DEF S, step, hi
    <3> QED BY <3>1
  <2>2. ASSUME NEW i \in (0 + 1)..hi, i - 1 \in {n \in 0..hi : f[n] \in S}
        PROVE  i \in {n \in 0..hi : f[n] \in S}
    <3>1. i \in 1..hi /\ i \in 0..hi
      OBVIOUS
    <3> HIDE DEF S, step, hi
    <3> QED BY <1>2, <1>12, <2>2, <3>1
  <2> HIDE DEF S, step
  <2> QED BY <1>3, <2>1, <2>2, Upwards
<1>14. f \in [0..hi -> S]
  <2> HIDE DEF S, step, hi
  <2> QED BY <1>11, <1>13
<1> QED BY <1>10, <1>12, <1>14 DEF Finds

\* Each node finds something once.
LEMMA FoundLength ==
  ASSUME NEW ns, Len(ns) \in Nat, NEW f, Finds(ns, f)
  PROVE  \A i \in 0..Len(ns) : f[i] \in Seq(SUBSET Docs) /\ Len(f[i]) = i
<1>1. /\ f \in [0..Len(ns) -> Seq(SUBSET Docs)] /\ f[0] = <<>>
      /\ \A i \in 1..Len(ns) : f[i] = Append(f[i - 1], Found(ns[i], f[i - 1]))
  BY DEF Finds
<1>2. \A n, before : Found(n, before) \in SUBSET Docs
  BY DEF Found
<1> DEFINE T == {i \in 0..Len(ns) : Len(f[i]) = i}
<1>3. 0 \in T /\ 0 <= Len(ns)
  BY <1>1
<1>4. ASSUME NEW i \in (0 + 1)..Len(ns), i - 1 \in T PROVE i \in T
  <2>1. i \in 1..Len(ns) /\ i \in 0..Len(ns) /\ i - 1 \in 0..Len(ns)
    <3> HIDE DEF T
    <3> QED OBVIOUS
  <2>2. f[i - 1] \in Seq(SUBSET Docs) /\ Len(f[i - 1]) = i - 1
    <3>1. Len(f[i - 1]) = i - 1
      BY <1>4, Zenon
    <3> QED BY <1>1, <2>1, <3>1, Zenon
  <2>3. PICK x \in SUBSET Docs : f[i] = Append(f[i - 1], x)
    BY <1>1, <1>2, <2>1, Zenon
  <2>4. Len(f[i]) = Len(f[i - 1]) + 1
    BY <2>2, <2>3, AppendProperties
  <2>5. Len(f[i]) = i
    <3> HIDE DEF T
    <3> QED BY <2>1, <2>2, <2>4
  <2> QED BY <2>1, <2>5, Zenon
<1> HIDE DEF T
<1>5. \A i \in 0..Len(ns) : i \in T
  BY <1>3, <1>4, Upwards
<1> QED BY <1>1, <1>5 DEF T

\* What the node after them finds is added to what the nodes before it have.
LEMMA FoundNext ==
  ASSUME NEW ns, Len(ns) \in Nat, NEW f, Finds(ns, f), NEW i \in 1..Len(ns)
  PROVE  /\ f[i][i] = Found(ns[i], f[i - 1])
         /\ \A k \in 1..(i - 1) : f[i][k] = f[i - 1][k]
<1>1. f[i] = Append(f[i - 1], Found(ns[i], f[i - 1])) /\ Found(ns[i], f[i - 1]) \in SUBSET Docs
  BY DEF Finds, Found
<1>2. f[i - 1] \in Seq(SUBSET Docs) /\ Len(f[i - 1]) = i - 1
  <2>1. i - 1 \in 0..Len(ns)
    OBVIOUS
  <2> QED BY <2>1, FoundLength
<1> QED BY <1>1, <1>2, AppendProperties

\* What a node finds depends on the nodes before it only.
LEMMA SamePrefix ==
  ASSUME NEW ns, Len(ns) \in Nat, NEW ms, Len(ms) \in Nat, NEW f, Finds(ns, f), NEW g, Finds(ms, g),
         Len(ns) <= Len(ms), \A i \in 1..Len(ns) : ns[i] = ms[i]
  PROVE  \A i \in 0..Len(ns) : f[i] = g[i]
<1> DEFINE T == {i \in 0..Len(ns) : f[i] = g[i]}
<1>1. 0 \in T /\ 0 <= Len(ns)
  BY DEF Finds
<1>2. ASSUME NEW i \in (0 + 1)..Len(ns), i - 1 \in T PROVE i \in T
  <2>1. i \in 1..Len(ns) /\ i \in 1..Len(ms) /\ i \in 0..Len(ns) /\ f[i - 1] = g[i - 1]
    BY <1>2
  <2> QED BY <2>1 DEF Finds
<1> HIDE DEF T
<1>3. \A i \in 0..Len(ns) : i \in T
  BY <1>1, <1>2, Upwards
<1> QED BY <1>3 DEF T

\* Node by node, the trees find the same, whatever the nodes before found.
FindAlike(ns, ms) ==
  /\ Len(ns) \in Nat /\ Len(ms) = Len(ns)
  /\ \A i \in 1..Len(ns) : \A before : Found(ns[i], before) = Found(ms[i], before)

\* Such trees find the same one node after the other.
LEMMA SameFinds ==
  ASSUME NEW ns, NEW ms, FindAlike(ns, ms), NEW f, Finds(ns, f), NEW g, Finds(ms, g)
  PROVE  \A i \in 0..Len(ns) : f[i] = g[i]
<1> DEFINE T == {i \in 0..Len(ns) : f[i] = g[i]}
<1>1. 0 \in T /\ 0 <= Len(ns) /\ Len(ns) \in Nat
  BY DEF Finds, FindAlike
<1>2. ASSUME NEW i \in (0 + 1)..Len(ns), i - 1 \in T PROVE i \in T
  <2>1. i \in 1..Len(ns) /\ i \in 1..Len(ms) /\ i \in 0..Len(ns) /\ f[i - 1] = g[i - 1]
    BY <1>1, <1>2 DEF FindAlike
  <2>2. f[i] = Append(f[i - 1], Found(ns[i], f[i - 1])) /\ g[i] = Append(g[i - 1], Found(ms[i], g[i - 1]))
    BY <2>1 DEF Finds
  <2>3. Found(ns[i], f[i - 1]) = Found(ms[i], g[i - 1])
    BY <2>1 DEF FindAlike
  <2> QED BY <2>1, <2>2, <2>3
<1> HIDE DEF T
<1>3. \A i \in 0..Len(ns) : i \in T
  BY <1>1, <1>2, Upwards
<1> QED BY <1>3 DEF T

\* What a tree finds, and the trees that begin with it.
LEMMA HitsFacts ==
  ASSUME NEW q, IsTree(q)
  PROVE  \E f : Finds(Sent(q), f) /\ Hits(q) = f[Len(q)][Len(q)]
<1>1. Len(Sent(q)) = Len(q) /\ Len(q) \in Nat
  BY SentFacts DEF IsTree
<1> QED BY <1>1, SearchHistory DEF Hits

\* A query string finds the same wherever it is.
LEMMA TextAnywhere ==
  ASSUME NEW t \in Texts, NEW before, NEW other
  PROVE  Found(RustNode(t), before) = Found(RustNode(t), other)
<1>1. t.kind = "QueryString"
  BY LeavesAssumption
<1> DEFINE keys ==
             [query |-> Str(t.query), default_fields |-> Strs(t.defaultFields),
              fuzzy_fields |-> Arr([i \in DOMAIN t.fuzzyFields |->
                Obj([field_name |-> Str(t.fuzzyFields[i].fieldName),
                     prefix |-> Bool(t.fuzzyFields[i].prefix),
                     distance |-> Num(t.fuzzyFields[i].distance),
                     transpose_cost_one |-> Bool(t.fuzzyFields[i].transposeCostOne)])])]
<1>2. toJsonObject(t) = Node("query_string", keys) /\ "type" \notin DOMAIN keys
  BY <1>1 DEF toJsonObject
<1> HIDE DEF keys
<1>3. RustNode(t)["type"] = "query_string"
  BY <1>2, NodeFacts DEF RustNode, ReadNode
<1>4. RustNode(t).type = "query_string"
  BY <1>3
<1>5. \A d : Matches(RustNode(t), before, d) = Matches(RustNode(t), other, d)
  BY <1>4 DEF Matches
<1> QED BY <1>5 DEF Found

\* Two clauses: one that must match and one that must, or must not.
LEMMA TwoClauses ==
  ASSUME NEW a, NEW b, NEW occur \in {"MUST", "MUST_NOT"}, NEW before
  PROVE  \A d : d \in Found(RustNode(Boolean(<<Clause("MUST", a), Clause(occur, b)>>)), before)
                <=> d \in Docs /\ d \in before[a] /\ (d \in before[b] <=> occur = "MUST")
<1> DEFINE s == <<Clause("MUST", a), Clause(occur, b)>>
           n == RustNode(Boolean(s))
           of(o) == {n.clauses[i].query : i \in {i \in DOMAIN n.clauses : occur_from_dsl(n.clauses[i].occur) = o}}
<1>1. n.type = "boolean" /\ n.clauses = RustClauses(s)
  <2>1. IsNode(Boolean(s)) /\ Boolean(s).kind = "Boolean" /\ Boolean(s).clauses = s
    BY ClauseFacts DEF Boolean, Occurs
  <2> HIDE DEF s
  <2>2. Becomes(Boolean(s), "boolean", [clauses |-> RustClauses(s)])
    BY <2>1, BooleanRead
  <2>3. "clauses" \in DOMAIN Variants["boolean"]
    BY DEF Variants
  <2> QED BY <2>2, <2>3 DEF Becomes, RustNode
<1>2. /\ DOMAIN n.clauses = {1, 2}
      /\ n.clauses[1].query = a /\ n.clauses[1].occur = "must"
      /\ n.clauses[2].query = b /\ n.clauses[2].occur = occurJson(occur)
  <2>1. /\ DOMAIN s = {1, 2} /\ s[1].query = a /\ s[1].occur = "MUST"
        /\ s[2].query = b /\ s[2].occur = occur
    BY DEF Clause
  <2>2. occurJson("MUST") = "must"
    BY DEF occurJson
  <2> HIDE DEF s, n
  <2> QED BY <1>1, <2>1, <2>2 DEF RustClauses
<1> HIDE DEF n, s
<1>3. /\ occur_from_dsl("must") = "Must" /\ occur_from_dsl("must_not") = "MustNot"
      /\ occurJson("MUST") = "must" /\ occurJson("MUST_NOT") = "must_not"
  BY DEF occur_from_dsl, occurJson
<1>4. \A d : Matches(n, before, d) <=> /\ \A q \in of("Must") : d \in before[q]
                                       /\ \A q \in of("MustNot") : d \notin before[q]
                                       /\ of("Must") = {} => \E q \in of("Should") : d \in before[q]
  BY <1>1 DEF Matches
<1>5. CASE occur = "MUST"
  <2>1. of("Must") = {a, b} /\ of("MustNot") = {}
    BY <1>2, <1>3, <1>5
  <2> HIDE DEF of
  <2>2. \A d : Matches(n, before, d) <=> d \in before[a] /\ d \in before[b]
    BY <1>4, <2>1
  <2> QED BY <1>5, <2>2 DEF Found, n, s
<1>6. CASE occur = "MUST_NOT"
  <2>1. of("Must") = {a} /\ of("MustNot") = {b}
    BY <1>2, <1>3, <1>6
  <2> HIDE DEF of
  <2>2. \A d : Matches(n, before, d) <=> d \in before[a] /\ d \notin before[b]
    BY <1>4, <2>1
  <2> QED BY <1>6, <2>2 DEF Found, n, s
<1> QED BY <1>5, <1>6

\* A text with a filter, or without what the filter finds.
LEMMA WithFilter ==
  ASSUME NEW q, IsTree(q), NEW t \in Texts, NEW occur \in {"MUST", "MUST_NOT"}
  PROVE  Hits(q \o <<t, Boolean(<<Clause("MUST", Len(q) + 1), Clause(occur, Len(q))>>)>>)
           = {d \in Hits(<<t>>) : d \in Hits(q) <=> occur = "MUST"}
<1> DEFINE n == Len(q)
           b == Boolean(<<Clause("MUST", n + 1), Clause(occur, n)>>)
           w == q \o <<t, b>>
<1>1. IsNode(t) /\ IsNode(b)
  BY LeafIsNode, ClauseFacts DEF Occurs
<1>2. ASSUME NEW before
      PROVE  \A d : d \in Found(RustNode(b), before)
                    <=> d \in Docs /\ d \in before[n + 1] /\ (d \in before[n] <=> occur = "MUST")
  BY ZenonT(60), TwoClauses
<1> HIDE DEF b
<1>3. /\ IsTree(w) /\ n \in Nat \ {0} /\ Len(w) = n + 2
      /\ \A i \in 1..n : w[i] = q[i]
      /\ w[n + 1] = t /\ w[n + 2] = b
  BY <1>1, TreeAnd2
<1> HIDE DEF w
<1>4. IsList(q) /\ IsList(w) /\ IsTree(<<t>>) /\ IsList(<<t>>) /\ Len(<<t>>) = 1 /\ <<t>>[1] = t
  BY <1>1, <1>3, NodeIsTree DEF IsTree
<1>5. /\ Len(Sent(q)) = n /\ \A i \in 1..n : Sent(q)[i] = RustNode(q[i])
      /\ Len(Sent(w)) = n + 2 /\ \A i \in 1..(n + 2) : Sent(w)[i] = RustNode(w[i])
      /\ Len(Sent(<<t>>)) = 1 /\ Sent(<<t>>)[1] = RustNode(t)
  <2>1. 1 \in 1..Len(<<t>>)
    BY <1>4
  <2> HIDE DEF n
  <2> QED BY <1>3, <1>4, <2>1, SentFacts DEF n
<1>6. PICK f : Finds(Sent(w), f) /\ Hits(w) = f[n + 2][n + 2]
  BY <1>3, HitsFacts
<1>7. PICK g : Finds(Sent(q), g) /\ Hits(q) = g[n][n]
  BY HitsFacts
<1>8. PICK h : Finds(Sent(<<t>>), h) /\ Hits(<<t>>) = h[1][1]
  BY <1>4, HitsFacts
<1> HIDE DEF n
<1>9. f[n] = g[n]
  <2>1. \A i \in 1..Len(Sent(q)) : Sent(q)[i] = Sent(w)[i]
    BY <1>3, <1>5
  <2>2. n \in 0..Len(Sent(q)) /\ Len(Sent(q)) \in Nat /\ Len(Sent(w)) \in Nat /\ Len(Sent(q)) <= Len(Sent(w))
    BY <1>3, <1>5
  <2> QED BY <1>6, <1>7, <2>1, <2>2, SamePrefix
<1>10. Hits(<<t>>) = Found(RustNode(t), h[0])
  <2>1. 1 \in 1..Len(Sent(<<t>>)) /\ Len(Sent(<<t>>)) \in Nat /\ 1 - 1 = 0
    BY <1>5
  <2> QED BY <1>5, <1>8, <2>1, FoundNext
<1>11. f[n + 1][n + 1] = Hits(<<t>>) /\ f[n + 1][n] = Hits(q)
  <2>1. /\ n + 1 \in 1..Len(Sent(w)) /\ Len(Sent(w)) \in Nat /\ (n + 1) - 1 = n /\ n \in 1..((n + 1) - 1)
        /\ Sent(w)[n + 1] = RustNode(t)
    BY <1>3, <1>5
  <2>2. f[n + 1][n + 1] = Found(RustNode(t), f[n]) /\ f[n + 1][n] = f[n][n]
    BY <1>6, <2>1, FoundNext
  <2> QED BY <1>7, <1>9, <1>10, <2>2, TextAnywhere
<1>12. Hits(w) = Found(RustNode(b), f[n + 1])
  <2>1. /\ n + 2 \in 1..Len(Sent(w)) /\ Len(Sent(w)) \in Nat /\ (n + 2) - 1 = n + 1
        /\ Sent(w)[n + 2] = RustNode(b)
    BY <1>3, <1>5
  <2> QED BY <1>6, <2>1, FoundNext
<1>13. Hits(<<t>>) \subseteq Docs
  BY <1>10 DEF Found
<1>14. Hits(w) = {d \in Hits(<<t>>) : d \in Hits(q) <=> occur = "MUST"}
  BY <1>2, <1>11, <1>12, <1>13
<1> QED BY <1>14 DEF w, b, n

\* A filter, and its negation, split what a text finds.
THEOREM FiltersSplit == QuerySpec => []FilterSplits
<1>1. QueryIInv => FilterSplits
  <2> SUFFICES ASSUME QueryIInv, NEW t \in Texts
               PROVE  LET n == Len(query)
                          with == Hits(searchText(t, query))
                          without == Hits(query \o <<t, Boolean(<<Clause("MUST", n + 1),
                                                                  Clause("MUST_NOT", n)>>)>>)
                      IN  with = Hits(<<t>>) \cap Hits(query) /\ without = Hits(<<t>>) \ with
    BY Zenon DEF FilterSplits
  <2>1. IsTree(query)
    BY DEF QueryIInv
  <2> DEFINE n == Len(query)
             with == query \o <<t, Boolean(<<Clause("MUST", n + 1), Clause("MUST", n)>>)>>
             without == query \o <<t, Boolean(<<Clause("MUST", n + 1), Clause("MUST_NOT", n)>>)>>
  <2>2. searchText(t, query) = with
    BY <2>1 DEF searchText, IsTree
  <2>3. Hits(with) = {d \in Hits(<<t>>) : d \in Hits(query) <=> "MUST" = "MUST"}
    BY <2>1, WithFilter
  <2>4. Hits(without) = {d \in Hits(<<t>>) : d \in Hits(query) <=> "MUST_NOT" = "MUST"}
    BY <2>1, WithFilter
  <2> HIDE DEF with, without
  <2>5. Hits(with) = Hits(<<t>>) \cap Hits(query) /\ Hits(without) = Hits(<<t>>) \ Hits(with)
    BY <2>3, <2>4
  <2> QED BY <2>2, <2>5 DEF without
<1> QED BY <1>1, WayOfAQuery, PTL

-----------------------------------------------------------------------------
(* Names nobody has *)

\* The empty query finds nothing.
LEMMA EmptyFinds ==
  ASSUME NEW before
  PROVE  Found(RustNode([kind |-> "Empty"]), before) = {}
<1>1. Becomes([kind |-> "Empty"], "empty", <<>>)
  BY EmptyRead
<1>2. RustNode([kind |-> "Empty"]).type = "empty"
  BY <1>1 DEF Becomes, RustNode
<1> QED BY <1>2 DEF Found, Matches

\* Nor does a query string whose words are to be looked for nowhere.
LEMMA UnknownFinds ==
  ASSUME NEW q, IsNode(q), Constructible(q), AllUnknown(q), NEW before
  PROVE  Found(RustNode(q), before) = {}
<1> DEFINE n == RustNode(q)
<1>1. q.kind = "QueryString" /\ \A w \in Words(q.query) : AskedFields(q, w) \cap DOMAIN Schema = {}
  BY DEF AllUnknown
<1>2. n.type = "query_string" /\ n.query = q.query /\ n.default_fields = q.defaultFields
  <2>1. Becomes(q, "query_string", [query |-> q.query, default_fields |-> q.defaultFields,
                                    fuzzy_fields |-> RustFuzzy(q.fuzzyFields)])
    BY <1>1, QueryStringRead
  <2>2. {"query", "default_fields"} \subseteq DOMAIN Variants["query_string"]
    BY DEF Variants
  <2> QED BY <2>1, <2>2 DEF Becomes, RustNode
<1> HIDE DEF n
<1>3. \A w \in Words(n.query) : word_fields(n.default_fields, w) = {}
  <2> SUFFICES ASSUME NEW w \in Words(n.query) PROVE word_fields(n.default_fields, w) = {}
    OBVIOUS
  <2>1. AskedFields(q, w) \cap DOMAIN Schema = {}
    BY <1>1, <1>2
  <2>2. word_fields(n.default_fields, w) = AskedFields(q, w) \cap DOMAIN Schema
    <3>1. CASE w.field = <<>>
      BY <1>2, <3>1 DEF word_fields, known_fields, AskedFields
    <3>2. CASE w.field # <<>>
      BY <3>2 DEF word_fields, known_fields, AskedFields
    <3> QED BY <3>1, <3>2
  <2> QED BY <2>1, <2>2
<1>4. \A d : ~Matches(n, before, d)
  BY <1>2, <1>3 DEF Matches
<1> QED BY <1>4 DEF Found, n

\* A tree with such query strings left out is a tree.
LEMMA EmptiedIsTree ==
  ASSUME NEW q, IsTree(q)
  PROVE  /\ IsTree(Emptied(q)) /\ Len(Emptied(q)) = Len(q)
         /\ \A i \in DOMAIN q :
              Emptied(q)[i] = IF AllUnknown(q[i]) THEN [kind |-> "Empty"] ELSE q[i]
<1>1. Len(q) \in Nat /\ DOMAIN q = 1..Len(q) /\ q # <<>>
  BY ListFacts DEF IsTree
<1> DEFINE e == Emptied(q)
           T == {e[i] : i \in 1..Len(q)}
<1>2. /\ e = [i \in 1..Len(q) |-> e[i]]
      /\ \A i \in DOMAIN q : e[i] = IF AllUnknown(q[i]) THEN [kind |-> "Empty"] ELSE q[i]
  BY <1>1 DEF Emptied
<1> HIDE DEF e
<1>3. e \in Seq(T) /\ Len(e) = Len(q)
  <2>1. \A i \in 1..Len(q) : e[i] \in T
    OBVIOUS
  <2> HIDE DEF T
  <2> QED BY <1>1, <1>2, <2>1
<1>4. IsList(e) /\ DOMAIN e = DOMAIN q /\ e # <<>>
  <2>1. IsList(e)
    BY <1>3, SeqIsList
  <2>2. DOMAIN e = 1..Len(q)
    BY <1>2
  <2> QED BY <1>1, <1>3, <2>1, <2>2
<1>5. IsNode([kind |-> "Empty"])
  BY DEF IsNode
<1>6. ASSUME NEW i \in DOMAIN e PROVE IsNode(e[i])
  BY <1>2, <1>4, <1>5 DEF IsTree
<1> QED BY <1>2, <1>3, <1>4, <1>6 DEF IsTree, e

\* A query that was searched has unknown names in its query strings only; and a
\* query string that names no field of the schema might as well be empty,
\* wherever it is.
THEOREM UnknownNamesVanish == QuerySpec => []UnknownNamesFindNothing
<1>1. QueryIInv => UnknownNamesFindNothing
  <2> SUFFICES ASSUME QueryIInv, typed, phase = "done" PROVE hits = Hits(Emptied(query))
    BY NamesHold DEF UnknownNamesFindNothing
  <2> DEFINE q == query
             e == Emptied(query)
  <2>1. IsTree(q) /\ (\A i \in DOMAIN q : Constructible(q[i])) /\ hits = Hits(q)
    BY DEF QueryIInv, Hits, Sent
  <2>2. /\ IsTree(e) /\ Len(e) = Len(q)
        /\ \A i \in DOMAIN q : e[i] = IF AllUnknown(q[i]) THEN [kind |-> "Empty"] ELSE q[i]
    BY <2>1, EmptiedIsTree
  <2>3. /\ Len(q) \in Nat \ {0} /\ DOMAIN q = 1..Len(q)
        /\ Len(Sent(q)) = Len(q) /\ \A i \in 1..Len(q) : Sent(q)[i] = RustNode(q[i])
        /\ Len(Sent(e)) = Len(q) /\ \A i \in 1..Len(q) : Sent(e)[i] = RustNode(e[i])
    <3> HIDE DEF q, e
    <3> QED BY <2>1, <2>2, SentFacts, ListFacts DEF IsTree
  <2>4. PICK f : Finds(Sent(q), f) /\ Hits(q) = f[Len(q)][Len(q)]
    BY <2>1, HitsFacts
  <2>5. PICK g : Finds(Sent(e), g) /\ Hits(e) = g[Len(q)][Len(q)]
    BY <2>2, HitsFacts
  <2> HIDE DEF q, e
  <2>6. ASSUME NEW i \in 1..Len(q), NEW before
        PROVE  Found(Sent(q)[i], before) = Found(Sent(e)[i], before)
    <3>1. CASE AllUnknown(q[i])
      <4>1. IsNode(q[i]) /\ Constructible(q[i]) /\ e[i] = [kind |-> "Empty"]
        BY <2>1, <2>2, <2>3, <3>1 DEF IsTree
      <4>2. Found(RustNode(q[i]), before) = {} /\ Found(RustNode(e[i]), before) = {}
        BY <3>1, <4>1, UnknownFinds, EmptyFinds
      <4> QED BY <2>3, <4>2
    <3>2. CASE ~AllUnknown(q[i])
      BY <2>2, <2>3, <3>2
    <3> QED BY <3>1, <3>2
  <2>7. f[Len(q)] = g[Len(q)]
    <3>1. FindAlike(Sent(q), Sent(e)) /\ Len(q) \in 0..Len(Sent(q))
      BY <2>3, <2>6 DEF FindAlike
    <3>2. \A i \in 0..Len(Sent(q)) : f[i] = g[i]
      BY <2>4, <2>5, <3>1, SameFinds
    <3> QED BY <3>1, <3>2
  <2> QED BY <2>1, <2>4, <2>5, <2>7 DEF e, q
<1> QED BY <1>1, WayOfAQuery, PTL

-----------------------------------------------------------------------------
(* Ranges *)

\* Term t is in the range of Kotlin's node q.
InRange(q, t) ==
  /\ \A i \in DOMAIN q.lower :
       \/ Key(RustValue(q.lower[i])) < TermKey(q.field, t)
       \/ q.includeLower /\ Key(RustValue(q.lower[i])) = TermKey(q.field, t)
  /\ \A i \in DOMAIN q.upper :
       \/ TermKey(q.field, t) < Key(RustValue(q.upper[i]))
       \/ q.includeUpper /\ Key(RustValue(q.upper[i])) = TermKey(q.field, t)

\* A range finds the documents with a term in it.
LEMMA RangeHits ==
  ASSUME NEW q, IsNode(q), FiniteNode(q), q.kind = "Range"
  PROVE  Hits(<<q>>) = {d \in Docs : \E t \in d[q.field] : InRange(q, t)}
<1> DEFINE n == RustNode(q)
<1>1. /\ n.type = "range" /\ n.field = q.field
      /\ n.lower = RustValues(q.lower) /\ n.upper = RustValues(q.upper)
      /\ n.include_lower = q.includeLower /\ n.include_upper = q.includeUpper
  <2>1. Becomes(q, "range", [field |-> q.field, lower |-> RustValues(q.lower), upper |-> RustValues(q.upper),
                             include_lower |-> q.includeLower, include_upper |-> q.includeUpper])
    BY RangeRead
  <2>2. {"field", "lower", "upper", "include_lower", "include_upper"} \subseteq DOMAIN Variants["range"]
    BY DEF Variants
  <2> QED BY <2>1, <2>2 DEF Becomes, RustNode
<1>2. ASSUME NEW s \in {q.lower, q.upper}
      PROVE  DOMAIN RustValues(s) = DOMAIN s /\ \A i \in DOMAIN s : RustValues(s)[i] = RustValue(s[i])
  BY DEF RustValues
<1>3. PICK h : Finds(Sent(<<q>>), h) /\ Hits(<<q>>) = h[1][1]
  <2>1. IsTree(<<q>>) /\ Len(<<q>>) = 1
    BY NodeIsTree
  <2> QED BY <2>1, HitsFacts
<1>4. Len(Sent(<<q>>)) = 1 /\ Sent(<<q>>)[1] = n
  <2>1. IsList(<<q>>) /\ Len(<<q>>) = 1 /\ <<q>>[1] = q
    BY NodeIsTree DEF IsTree
  <2>2. 1 \in 1..Len(<<q>>)
    BY <2>1
  <2> QED BY <2>1, <2>2, SentFacts
<1> HIDE DEF n
<1>5. Hits(<<q>>) = Found(n, h[0])
  <2>1. 1 \in 1..Len(Sent(<<q>>)) /\ Len(Sent(<<q>>)) \in Nat /\ 1 - 1 = 0
    BY <1>4
  <2> QED BY <1>3, <1>4, <2>1, FoundNext
<1>6. \A t : InBounds(n, t) <=> InRange(q, t)
  BY <1>1, <1>2 DEF InBounds, InRange
<1>7. \A d : Matches(n, h[0], d) <=> \E t \in d[q.field] : InRange(q, t)
  BY <1>1, <1>6 DEF Matches
<1> QED BY <1>5, <1>7 DEF Found

\* The terms of a document have places.
LEMMA TermHasKey ==
  ASSUME NEW field \in DOMAIN Schema, NEW d \in Docs, NEW t \in d[field]
  PROVE  TermKey(field, t) \in Int
<1>1. CASE Schema[field].kind \in Ordered
  BY <1>1, DocsAssumption DEF TermKey, Key
<1>2. CASE Schema[field].kind \notin Ordered
  BY <1>2, RankAssumption
<1> QED BY <1>1, <1>2

\* A half-open range, or one without an end.
LEMMA HalfOpenHits ==
  ASSUME NEW field, NEW lower, NEW upper, lower # <<>>,
         \A s \in {lower, upper} : IsOptional(s) /\ \A i \in DOMAIN s :
            IsValue(s[i]) /\ Placed(s[i]) /\ Finite(s[i])
  PROVE  Hits(<<HalfOpen(field, lower, upper)>>)
           = {d \in Docs : \E t \in d[field] :
                /\ \/ Key(RustValue(lower[1])) < TermKey(field, t)
                   \/ Key(RustValue(lower[1])) = TermKey(field, t)
                /\ upper # <<>> => TermKey(field, t) < Key(RustValue(upper[1]))}
<1> DEFINE r == HalfOpen(field, lower, upper)
<1>1. /\ r.kind = "Range" /\ r.field = field /\ r.lower = lower /\ r.upper = upper
      /\ r.includeLower = TRUE /\ r.includeUpper = FALSE
  BY DEF HalfOpen
<1> HIDE DEF r
<1>2. IsNode(r) /\ FiniteNode(r)
  BY <1>1 DEF IsNode, FiniteNode
<1>3. DOMAIN lower = {1} /\ (upper # <<>> => DOMAIN upper = {1}) /\ (upper = <<>> => DOMAIN upper = {})
  BY OptionalFacts
<1>4. \A t : InRange(r, t) <=> /\ \/ Key(RustValue(lower[1])) < TermKey(field, t)
                                  \/ Key(RustValue(lower[1])) = TermKey(field, t)
                               /\ upper # <<>> => TermKey(field, t) < Key(RustValue(upper[1]))
  BY <1>1, <1>3 DEF InRange
<1>5. Hits(<<r>>) = {d \in Docs : \E t \in d[field] : InRange(r, t)}
  BY <1>1, <1>2, RangeHits
<1> QED BY <1>4, <1>5 DEF r

\* Half-open ranges of anything but JSON leave no gap, and share only what has a
\* value in both.
THEOREM RangesTile == QuerySpec => []HalfOpenRangesTile
<1>1. QueryIInv => HalfOpenRangesTile
  <2> DEFINE q == query[1]
             below == Hits(<<HalfOpen(q.field, q.lower, q.upper)>>)
             above == Hits(<<HalfOpen(q.field, q.upper, <<>>)>>)
             all == Hits(<<HalfOpen(q.field, q.lower, <<>>)>>)
             first == Sent(query)[1]
             key(t) == TermKey(q.field, t)
  <2> SUFFICES ASSUME QueryIInv, Len(query) = 1, q.kind = "Range", Goes(query),
                      q.lower # <<>>, q.upper # <<>>, Key(first.lower[1]) <= Key(first.upper[1])
               PROVE  /\ below \cup above = all
                      /\ \A d \in below \cap above : \E t, u \in d[q.field] : key(t) < key(u)
    BY Zenon DEF HalfOpenRangesTile
  <2>1. IsTree(query) /\ 1 \in DOMAIN query /\ IsNode(q) /\ FiniteNode(q)
    <3>1. IsTree(query)
      BY DEF QueryIInv
    <3>2. 1 \in DOMAIN query
      <4>1. DOMAIN query = 1..Len(query)
        BY <3>1, ListFacts DEF IsTree
      <4> QED BY <4>1
    <3> QED BY <3>1, <3>2, TreeIsFinite DEF IsTree, Goes
  <2> DEFINE n == RustNode(q)
  <2>2. /\ n.type = "range" /\ n.field = q.field
        /\ n.lower = RustValues(q.lower) /\ n.upper = RustValues(q.upper)
    <3>1. Becomes(q, "range", [field |-> q.field, lower |-> RustValues(q.lower),
                               upper |-> RustValues(q.upper),
                               include_lower |-> q.includeLower, include_upper |-> q.includeUpper])
      BY <2>1, RangeRead
    <3>2. {"field", "lower", "upper"} \subseteq DOMAIN Variants["range"]
      BY DEF Variants
    <3> QED BY <3>1, <3>2 DEF Becomes, RustNode
  <2>3. Len(Sent(query)) = 1 /\ first = n
    <3>1. 1 \in 1..Len(query)
      OBVIOUS
    <3> QED BY <2>1, <3>1, SentFacts DEF IsTree
  <2>4. ~Errs(n)
    <3>1. 1 \in DOMAIN Sent(query)
      BY <2>1 DEF Sent, Read, toJson
    <3> QED BY <2>3, <3>1 DEF Goes, to_query
  <2> HIDE DEF n, first
  <2>5. /\ \A s \in {q.lower, q.upper} : IsOptional(s) /\ \A i \in DOMAIN s :
             IsValue(s[i]) /\ Placed(s[i]) /\ Finite(s[i])
        /\ IsOptional(<<>>) /\ DOMAIN <<>> = {}
    <3>1. IsList(<<>>) /\ Len(<<>>) <= 1
      <4>1. <<>> \in Seq({}) /\ Len(<<>>) <= 1
        OBVIOUS
      <4> QED BY <4>1, SeqIsList, Zenon
    <3> QED BY <2>1, <3>1 DEF IsNode, FiniteNode, IsOptional
  <2> HIDE DEF q
  <2>6. 1 \in DOMAIN q.lower /\ 1 \in DOMAIN q.upper
    BY <2>5, OptionalFacts
  <2>7. /\ 1 \in DOMAIN n.lower /\ n.lower[1] = RustValue(q.lower[1])
        /\ 1 \in DOMAIN n.upper /\ n.upper[1] = RustValue(q.upper[1])
    BY <2>2, <2>6 DEF RustValues
  <2>8. q.field \in DOMAIN Schema /\ q.lower[1].kind # "json" /\ q.upper[1].kind # "json"
    <3>1. HasTerm(q.field, n.lower[1]) /\ HasTerm(q.field, n.upper[1])
      BY <2>2, <2>4, <2>7 DEF Errs
    <3> QED BY <2>7, <3>1 DEF HasTerm, RustValue
  <2>9. PICK l, u \in Int : /\ l = Key(RustValue(q.lower[1])) /\ u = Key(RustValue(q.upper[1]))
                            /\ l <= u
    <3>1. Key(RustValue(q.lower[1])) \in Int /\ Key(RustValue(q.upper[1])) \in Int
      BY <2>5, <2>6, <2>8, BoundKey
    <3> QED BY <2>3, <2>7, <3>1
  <2>10. \A d \in Docs : \A t \in d[q.field] : key(t) \in Int
    BY <2>8, TermHasKey
  <2> HIDE DEF key
  <2>11. below = {d \in Docs : \E t \in d[q.field] : (l < key(t) \/ l = key(t)) /\ key(t) < u}
    BY <2>5, <2>9, HalfOpenHits DEF key
  <2>12. above = {d \in Docs : \E t \in d[q.field] : u < key(t) \/ u = key(t)}
    BY <2>5, <2>9, HalfOpenHits DEF key
  <2>13. all = {d \in Docs : \E t \in d[q.field] : l < key(t) \/ l = key(t)}
    BY <2>5, <2>9, HalfOpenHits DEF key
  <2> HIDE DEF below, above, all
  <2>14. ASSUME NEW d \in Docs, NEW t \in d[q.field]
         PROVE  (l < key(t) \/ l = key(t))
                  <=> ((l < key(t) \/ l = key(t)) /\ key(t) < u) \/ (u < key(t) \/ u = key(t))
    BY <2>9, <2>10
  <2>15. below \cup above = all
    BY <2>11, <2>12, <2>13, <2>14
  <2>16. ASSUME NEW d \in below \cap above PROVE \E t, v \in d[q.field] : key(t) < key(v)
    <3>1. PICK t \in d[q.field] : key(t) < u
      BY <2>11, <2>16
    <3>2. PICK v \in d[q.field] : u < key(v) \/ u = key(v)
      BY <2>12, <2>16
    <3>3. d \in Docs
      BY <2>11, <2>16
    <3>4. key(t) \in Int /\ key(v) \in Int
      BY <2>10, <3>1, <3>2, <3>3
    <3> QED BY <2>9, <3>1, <3>2, <3>4
  <2> QED BY <2>15, <2>16
<1> QED BY <1>1, WayOfAQuery, PTL
=============================================================================
