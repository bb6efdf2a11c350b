------------------------------ MODULE QueryDsl ------------------------------
(***************************************************************************)
(* The way of one query: a TantivyQuery tree in Kotlin, its JSON, serde's  *)
(* TantivyQueryDsl, to_query, and what the search finds.  Callers of the   *)
(* generated API hand search_dsl a text of their own.                      *)
(*                                                                         *)
(* A tree is the sequence of its nodes, the root last and each node after  *)
(* those inside it: a query inside another is the position of its node.    *)
(* The text and the Rust tree are written the same way, so that what is    *)
(* done to a tree is done to each of its nodes.                            *)
(*                                                                         *)
(* An optional is a sequence of length at most one.  A JSON value is its   *)
(* JSON type and its content; Kotlin writes a number that is not finite as *)
(* a bare word.  How far apart the words of a phrase may be, how many      *)
(* letters a fuzzy word may differ in, and scores are the engine's: here a *)
(* leaf finds the documents with its words.  The text of a query string is *)
(* the engine's to parse, too: here it is words, any of which may match,   *)
(* and each may name the field it is looked for in.                        *)
(***************************************************************************)
EXTENDS Integers, SequencesExt

CONSTANTS Schema,         \* field name -> [kind, positions, fast]
          Docs,           \* documents: name (undeclared, too) -> set of terms
          Leaves,         \* queries without a query inside
          Siblings,       \* those a Boolean or DisjunctionMax is made with
          Texts,          \* what searchText is asked for: QueryString leaves
          MaxNesting,     \* bound on the nodes around a leaf
          RecursionLimit, \* 128: serde_json's limit on nested objects and arrays
          BadFacets,      \* paths and patterns that do not parse
          BadPatterns,
          Words(_),       \* the words in the text of a query string: [field, word]
          Rank(_),        \* where the engine keeps a term that is no number
          NotFinite       \* NaN and the infinities

VARIABLES
  phase,  \* "tree", "json", "dsl", "done"; "refused" by serde, "rejected" after
  query,  \* the Kotlin tree
  typed,  \* the text is what Kotlin wrote
  json,   \* the text
  dsl,    \* the TantivyQueryDsl
  hits    \* the documents found

queryVars == <<phase, query, typed, json, dsl, hits>>

\* What the Kotlin types say of a value and of a query without one inside.
IsList(s) == s \in Seq({s[i] : i \in DOMAIN s})
IsOptional(s) == IsList(s) /\ Len(s) <= 1

Ordered == {"u64", "i64", "f64", "date"}

IsValue(value) ==
  /\ value.kind \in {"text", "facet", "json", "bool", "bytes"} \cup Ordered
  /\ value.kind \in Ordered => value.data \in Int \/ (value.kind = "f64" /\ value.data = NotFinite)
  /\ value.kind = "u64" => value.data >= 0
  /\ value.kind = "bytes" => value.data \in Seq(-128..127)

IsLeaf(q) ==
  /\ q.kind \in {"All", "Empty", "Term", "TermSet", "Boolean", "Phrase", "PhrasePrefix", "Range",
                 "Regex", "Fuzzy", "Exists", "DisjunctionMax", "QueryString"}
  /\ q.kind = "Term" => IsValue(q.value)
  /\ q.kind = "TermSet" => IsList(q.terms) /\ \A i \in DOMAIN q.terms : IsValue(q.terms[i].value)
  /\ q.kind = "Boolean" => q.clauses = <<>>
  /\ q.kind \in {"Phrase", "PhrasePrefix"} => IsList(q.terms)
  /\ q.kind = "Phrase" => IsOptional(q.slop) /\ q.slop \in Seq(Int)
  /\ q.kind = "PhrasePrefix" => IsOptional(q.maxExpansions) /\ q.maxExpansions \in Seq(Int)
  /\ q.kind = "Range" => \A s \in {q.lower, q.upper} :
       IsOptional(s) /\ \A i \in DOMAIN s : IsValue(s[i])
  /\ q.kind = "Fuzzy" => q.distance \in Int
  /\ q.kind = "DisjunctionMax" => q.queries = <<>> /\ IsOptional(q.tieBreaker)
                                  /\ q.tieBreaker \in Seq(Int \cup {NotFinite})
  /\ q.kind = "QueryString" =>
       /\ IsList(q.defaultFields) /\ IsList(q.fuzzyFields)
       /\ \A i \in DOMAIN q.fuzzyFields : q.fuzzyFields[i].distance \in Int

ASSUME LeavesAssumption ==
  /\ \A q \in Leaves \cup Siblings \cup Texts : IsLeaf(q)
  /\ \A q \in Texts : q.kind = "QueryString"

\* A word may name a field.
ASSUME WordsAssumption ==
  \A q \in Leaves \cup Siblings \cup Texts :
    q.kind = "QueryString" => \A w \in Words(q.query) : IsOptional(w.field)

\* The terms of a field are values of its kind.
ASSUME DocsAssumption ==
  /\ \A f \in DOMAIN Schema : Schema[f].kind \in Ordered => \A d \in Docs : d[f] \subseteq Int
  /\ NotFinite \notin Int

\* The place of a term among those of its field: numbers in their order, others
\* in that of their bytes.
Key(value) == IF value.kind \in Ordered THEN value.data ELSE Rank(value)
TermKey(field, t) == Key([kind |-> Schema[field].kind, data |-> t])

-----------------------------------------------------------------------------
(* Kotlin: construction *)

\* Mutant: distances are left to the Rust side.
NoDistanceCheck(q) == q.kind \in {"Boost", "ConstScore"} => q.factor # NotFinite

\* The require calls of the data classes.
Constructible(q) ==
  CASE q.kind = "Phrase" -> \A i \in DOMAIN q.slop : q.slop[i] >= 0
    [] q.kind = "PhrasePrefix" -> \A i \in DOMAIN q.maxExpansions : q.maxExpansions[i] >= 0
    [] q.kind = "Fuzzy" -> q.distance \in 0..255
    [] q.kind \in {"Boost", "ConstScore"} -> q.factor # NotFinite
    [] q.kind = "DisjunctionMax" -> \A i \in DOMAIN q.tieBreaker : q.tieBreaker[i] # NotFinite
    [] q.kind = "QueryString" -> \A i \in DOMAIN q.fuzzyFields : q.fuzzyFields[i].distance \in 0..255
    [] OTHER -> TRUE

Occurs == {"MUST", "SHOULD", "MUST_NOT"}
Clause(occur, position) == [occur |-> occur, query |-> position]
Boolean(clauses) == [kind |-> "Boolean", clauses |-> clauses]

\* w is made of q, alone or with one other query.
Around(q, w) ==
  LET n == Len(q)
  IN  \/ \E o \in Occurs : w = Append(q, Boolean(<<Clause(o, n)>>))
      \/ \E o \in Occurs, p \in {"MUST", "SHOULD"}, s \in Siblings :
           w = q \o <<s, Boolean(<<Clause(o, n), Clause(p, n + 1)>>)>>
      \/ \E k \in {"Boost", "ConstScore"}, f \in {2, NotFinite} :
           w = Append(q, [kind |-> k, query |-> n, factor |-> f])
      \/ \E s \in Siblings, t \in {<<>>, <<1>>, <<NotFinite>>} :
           w = q \o <<s, [kind |-> "DisjunctionMax", queries |-> <<n + 1, n>>, tieBreaker |-> t]>>

\* The positions of the queries inside a node.
Inner(q) ==
  CASE q.kind = "Boolean" -> {q.clauses[i].query : i \in DOMAIN q.clauses}
    [] q.kind \in {"Boost", "ConstScore"} -> {q.query}
    [] q.kind = "DisjunctionMax" -> {q.queries[i] : i \in DOMAIN q.queries}
    [] OTHER -> {}

Nesting(q) == Cardinality({i \in DOMAIN q : Inner(q[i]) # {}})

\* Mutant: the filter is one more thing that may match.
FilterAsShould(text, filter) ==
  IF filter = <<>> THEN <<text>>
  ELSE filter \o <<text, Boolean(<<Clause("MUST", Len(filter) + 1), Clause("SHOULD", Len(filter))>>)>>

\* TypedTantivyIndex.searchText; no filter is the empty tree.
searchText(text, filter) ==
  IF filter = <<>> THEN <<text>>
  ELSE filter \o <<text, Boolean(<<Clause("MUST", Len(filter) + 1), Clause("MUST", Len(filter))>>)>>

-----------------------------------------------------------------------------
(* Kotlin: toJson *)

Null == [js |-> "null"]
Absent == [js |-> "absent"]
Str(s) == [js |-> "string", v |-> s]
Num(n) == IF n = NotFinite THEN [js |-> "bare"] ELSE [js |-> "number", v |-> n]
Bool(bool) == [js |-> "bool", v |-> bool]
Arr(s) == [js |-> "array", v |-> s]
Obj(f) == [js |-> "object", v |-> f]
Query(position) == [js |-> "query", v |-> position]
Strs(s) == Arr([i \in DOMAIN s |-> Str(s[i])])

\* An absent optional writes no key.
Node(tag, keys) ==
  Obj([k \in {"type"} \cup {k \in DOMAIN keys : keys[k] # Absent} |->
         IF k = "type" THEN Str(tag) ELSE keys[k]])
OptionalNum(s) == IF s = <<>> THEN Absent ELSE Num(s[1])

\* TantivyValue.toJsonElement; a byte of Kotlin is signed.
toJsonElement(value) ==
  Obj([type |-> Str(value.kind),
       value |-> CASE value.kind \in {"text", "facet", "json"} -> Str(value.data)
                   [] value.kind = "bool" -> Bool(value.data)
                   [] value.kind = "bytes" -> Arr([i \in DOMAIN value.data |-> Num(value.data[i] % 256)])
                   [] OTHER -> Num(value.data)])

OptionalElement(s) == IF s = <<>> THEN Absent ELSE toJsonElement(s[1])

termObject(field, value) == Obj([name |-> Str(field), value |-> toJsonElement(value)])

occurJson(occur) == CASE occur = "MUST" -> "must"
                      [] occur = "SHOULD" -> "should"
                      [] occur = "MUST_NOT" -> "must_not"

toJsonObject(q) ==
  CASE q.kind = "All" -> Node("all", <<>>)
    [] q.kind = "Empty" -> Node("empty", <<>>)
    [] q.kind = "Term" -> Node("term", [term |-> termObject(q.field, q.value)])
    [] q.kind = "TermSet" ->
         Node("term_set", [terms |-> Arr([i \in DOMAIN q.terms |->
                                            termObject(q.terms[i].field, q.terms[i].value)])])
    [] q.kind = "Boolean" ->
         Node("boolean", [clauses |-> Arr([i \in DOMAIN q.clauses |->
                Obj([occur |-> Str(occurJson(q.clauses[i].occur)),
                     query |-> Query(q.clauses[i].query)])])])
    [] q.kind = "Phrase" ->
         Node("phrase", [field |-> Str(q.field), terms |-> Strs(q.terms),
                         slop |-> OptionalNum(q.slop)])
    [] q.kind = "PhrasePrefix" ->
         Node("phrase_prefix", [field |-> Str(q.field), terms |-> Strs(q.terms),
                                max_expansions |-> OptionalNum(q.maxExpansions)])
    [] q.kind = "Range" ->
         Node("range", [field |-> Str(q.field),
                        lower |-> OptionalElement(q.lower), upper |-> OptionalElement(q.upper),
                        include_lower |-> Bool(q.includeLower),
                        include_upper |-> Bool(q.includeUpper)])
    [] q.kind = "Regex" -> Node("regex", [field |-> Str(q.field), pattern |-> Str(q.pattern)])
    [] q.kind = "Fuzzy" ->
         Node("fuzzy", [field |-> Str(q.field), term |-> Str(q.term), distance |-> Num(q.distance),
                        transpose_cost_one |-> Bool(q.transposeCostOne)])
    [] q.kind = "Exists" -> Node("exists", [field |-> Str(q.field)])
    [] q.kind = "Boost" -> Node("boost", [query |-> Query(q.query), boost |-> Num(q.factor)])
    [] q.kind = "ConstScore" ->
         Node("const_score", [query |-> Query(q.query), score |-> Num(q.factor)])
    [] q.kind = "DisjunctionMax" ->
         Node("disjunction_max",
              [queries |-> Arr([i \in DOMAIN q.queries |-> Query(q.queries[i])]),
               tie_breaker |-> OptionalNum(q.tieBreaker)])
    [] q.kind = "QueryString" ->
         Node("query_string",
              [query |-> Str(q.query), default_fields |-> Strs(q.defaultFields),
               fuzzy_fields |-> Arr([i \in DOMAIN q.fuzzyFields |->
                 Obj([field_name |-> Str(q.fuzzyFields[i].fieldName),
                      prefix |-> Bool(q.fuzzyFields[i].prefix),
                      distance |-> Num(q.fuzzyFields[i].distance),
                      transpose_cost_one |-> Bool(q.fuzzyFields[i].transposeCostOne)])])])

toJson(q) == [i \in DOMAIN q |-> toJsonObject(q[i])]

-----------------------------------------------------------------------------
(* Rust: serde *)

\* The type of a key: <<"one" | "many" (Vec) | "maybe" (Option), of what>>.
\* TantivyQueryDsl and the structs inside it.
Variants ==
  [all |-> <<>>, empty |-> <<>>,
   term |-> [term |-> <<"one", "DocumentField">>],
   term_set |-> [terms |-> <<"many", "DocumentField">>],
   boolean |-> [clauses |-> <<"many", "Clause">>],
   phrase |-> [field |-> <<"one", "String">>, terms |-> <<"many", "String">>,
               slop |-> <<"maybe", "u32">>],
   phrase_prefix |-> [field |-> <<"one", "String">>, terms |-> <<"many", "String">>,
                      max_expansions |-> <<"maybe", "u32">>],
   range |-> [field |-> <<"one", "String">>, lower |-> <<"maybe", "FieldValue">>,
              upper |-> <<"maybe", "FieldValue">>, include_lower |-> <<"one", "bool">>,
              include_upper |-> <<"one", "bool">>],
   regex |-> [field |-> <<"one", "String">>, pattern |-> <<"one", "String">>],
   fuzzy |-> [field |-> <<"one", "String">>, term |-> <<"one", "String">>,
              distance |-> <<"one", "u8">>, transpose_cost_one |-> <<"one", "bool">>],
   exists |-> [field |-> <<"one", "String">>],
   boost |-> [query |-> <<"one", "Query">>, boost |-> <<"one", "f32">>],
   const_score |-> [query |-> <<"one", "Query">>, score |-> <<"one", "f32">>],
   disjunction_max |-> [queries |-> <<"many", "Query">>, tie_breaker |-> <<"maybe", "f32">>],
   query_string |-> [query |-> <<"one", "String">>, default_fields |-> <<"many", "String">>,
                     fuzzy_fields |-> <<"many", "FuzzyField">>]]

Structs ==
  [DocumentField |-> [name |-> "String", value |-> "FieldValue"],
   Clause |-> [occur |-> "Occur", query |-> "Query"],
   FuzzyField |-> [field_name |-> "String", prefix |-> "bool", distance |-> "u8",
                   transpose_cost_one |-> "bool"]]

FieldValues ==
  [text |-> <<"one", "String">>, u64 |-> <<"one", "u64">>, i64 |-> <<"one", "i64">>,
   f64 |-> <<"one", "f64">>, bool |-> <<"one", "bool">>, date |-> <<"one", "i64">>,
   bytes |-> <<"many", "u8">>, facet |-> <<"one", "String">>, json |-> <<"one", "String">>]

InByte(n) == n \in 0..255

Tagged(j, tags) ==
  /\ j.js = "object" /\ "type" \in DOMAIN j.v
  /\ j.v["type"].js = "string" /\ j.v["type"].v \in tags

\* The values a key of that type reads; an optional may be null.
Elements(how, j) ==
  CASE how = "many" -> IF j.js = "array" THEN j.v ELSE <<>>
    [] how = "maybe" -> IF j.js = "null" THEN <<>> ELSE <<j>>
    [] how = "one" -> <<j>>
Fits(how, j) == how = "many" => j.js = "array"

ReadsBase(what, j) ==
  CASE what = "Query" -> j.js = "query"
    [] what = "String" -> j.js = "string"
    [] what = "Occur" -> j.js = "string" /\ j.v \in {"must", "should", "must_not"}
    [] what = "bool" -> j.js = "bool"
    [] what = "u8" -> j.js = "number" /\ InByte(j.v)
    [] what \in {"u32", "u64"} -> j.js = "number" /\ j.v >= 0
    [] OTHER -> j.js = "number"

ReadsValue(j) ==
  /\ Tagged(j, DOMAIN FieldValues) /\ "value" \in DOMAIN j.v
  /\ LET sort == FieldValues[j.v["type"].v]
         values == Elements(sort[1], j.v["value"])
     IN  Fits(sort[1], j.v["value"]) /\ \A i \in DOMAIN values : ReadsBase(sort[2], values[i])

ReadsPart(what, j) == IF what = "FieldValue" THEN ReadsValue(j) ELSE ReadsBase(what, j)

\* serde skips the keys it does not know.
ReadsItem(what, j) ==
  IF what \in DOMAIN Structs
  THEN /\ j.js = "object"
       /\ \A k \in DOMAIN Structs[what] : k \in DOMAIN j.v /\ ReadsPart(Structs[what][k], j.v[k])
  ELSE ReadsPart(what, j)

ReadsKey(sort, j) ==
  Fits(sort[1], j) /\ \A i \in DOMAIN Elements(sort[1], j) : ReadsItem(sort[2], Elements(sort[1], j)[i])

ReadsNode(j) ==
  /\ Tagged(j, DOMAIN Variants)
  /\ LET keys == Variants[j.v["type"].v]
     IN  \A k \in DOMAIN keys :
           IF k \in DOMAIN j.v THEN ReadsKey(keys[k], j.v[k]) ELSE keys[k][1] = "maybe"

\* What is read: a list of the elements, or the one that there is.
Gathered(how, elements) == IF how = "one" THEN elements[1] ELSE elements

ReadValue(j) ==
  LET sort == FieldValues[j.v["type"].v]
      values == Elements(sort[1], j.v["value"])
  IN  [kind |-> j.v["type"].v, data |-> Gathered(sort[1], [i \in DOMAIN values |-> values[i].v])]

ReadPart(what, j) == IF what = "FieldValue" THEN ReadValue(j) ELSE j.v

ReadItem(what, j) ==
  IF what \in DOMAIN Structs
  THEN [k \in DOMAIN Structs[what] |-> ReadPart(Structs[what][k], j.v[k])]
  ELSE ReadPart(what, j)

ReadKey(sort, j) ==
  Gathered(sort[1], [i \in DOMAIN Elements(sort[1], j) |-> ReadItem(sort[2], Elements(sort[1], j)[i])])

ReadNode(j) ==
  LET keys == Variants[j.v["type"].v]
  IN  [k \in {"type"} \cup DOMAIN keys |->
         CASE k = "type" -> j.v["type"].v
           [] k # "type" /\ k \in DOMAIN j.v -> ReadKey(keys[k], j.v[k])
           [] OTHER -> <<>>]

\* What documents hold, and the bounds of ranges, have a place; JSON is no term.
ASSUME RankAssumption ==
  /\ \A f \in DOMAIN Schema : Schema[f].kind \notin Ordered =>
       \A d \in Docs : \A t \in d[f] : TermKey(f, t) \in Int
  /\ \A q \in {q \in Leaves \cup Siblings \cup Texts : q.kind = "Range"} :
       \A s \in {q.lower, q.upper} : \A i \in DOMAIN s :
         s[i].kind \notin Ordered \cup {"json"} => Key(ReadValue(toJsonElement(s[i]))) \in Int

Reads(js) == \A i \in DOMAIN js : ReadsNode(js[i])
Read(js) == [i \in DOMAIN js |-> ReadNode(js[i])]

\* serde_json itself: well-formed, and not too deep.  The values of a node, level
\* by level; there are six of them in a term set.
Inside(js) ==
  UNION {{j.v[k] : k \in DOMAIN j.v} : j \in {j \in js : j.js \in {"object", "array"}}}
Levels(j) ==
  LET l2 == Inside({j})
      l3 == Inside(l2)
      l4 == Inside(l3)
      l5 == Inside(l4)
  IN  <<{j}, l2, l3, l4, l5, Inside(l5)>>

WellFormed(js) ==
  \A i \in DOMAIN js : \A n \in 1..6 : \A j \in Levels(js[i])[n] : j.js # "bare"

Depth(js) ==
  LET depth[i \in 1..Len(js)] ==
        LET levels == Levels(js[i])
            in(n, kinds) == {j \in levels[n] : j.js \in kinds}
        IN  Max({n \in 1..6 : in(n, {"object", "array"}) # {}}
                \cup UNION {{n - 1 + depth[j.v] : j \in in(n, {"query"})} : n \in 1..6})
  IN  depth[Len(js)]

-----------------------------------------------------------------------------
(* Rust: to_query and the search *)

\* term_from_document_field succeeds.
HasTerm(field, value) ==
  /\ field \in DOMAIN Schema
  /\ Schema[field].kind = value.kind /\ value.kind # "json"
  /\ value.kind = "facet" => value.data \notin BadFacets

\* Mutant: names of fuzzy fields are filtered, too.
FiltersAllNames(fuzzy_fields) == TRUE

\* build_query_parser: default fields that the schema does not know are dropped,
\* a fuzzy field that it does not know is an error.
known_fields(default_fields) ==
  {default_fields[i] : i \in DOMAIN default_fields} \cap DOMAIN Schema

\* Mutant: without a known default field, words are looked for in every text.
AnyField(default_fields, w) ==
  LET known == known_fields(IF w.field = <<>> THEN default_fields ELSE w.field)
  IN  IF known # {} THEN known ELSE {f \in DOMAIN Schema : Schema[f].kind = "text"}

\* parse_query_lenient(..).0: the fields a word is looked for in.  One that the
\* schema does not have is an error that nobody sees.
word_fields(default_fields, w) ==
  known_fields(IF w.field = <<>> THEN default_fields ELSE w.field)

build_query_parser(fuzzy_fields) ==
  \A i \in DOMAIN fuzzy_fields : fuzzy_fields[i].field_name \in DOMAIN Schema

\* Errors of to_query at one node.
Errs(n) ==
  CASE n.type = "term" -> ~HasTerm(n.term.name, n.term.value)
    [] n.type = "term_set" -> \E i \in DOMAIN n.terms : ~HasTerm(n.terms[i].name, n.terms[i].value)
    [] n.type = "phrase" -> Len(n.terms) < 2 \/ n.field \notin DOMAIN Schema
    [] n.type = "phrase_prefix" -> n.terms = <<>> \/ n.field \notin DOMAIN Schema
    [] n.type = "range" ->
         \/ n.field \notin DOMAIN Schema
         \/ \E s \in {n.lower, n.upper} : \E i \in DOMAIN s : ~HasTerm(n.field, s[i])
         \/ n.lower = <<>> /\ n.upper = <<>>
    [] n.type = "regex" -> n.field \notin DOMAIN Schema \/ n.pattern \in BadPatterns
    [] n.type \in {"fuzzy", "exists"} -> n.field \notin DOMAIN Schema
    [] n.type = "query_string" -> ~build_query_parser(n.fuzzy_fields)
    [] OTHER -> FALSE

\* What the engine refuses to search.
Without(option) == {f \in DOMAIN Schema : ~Schema[f][option]}
Refuses(n) ==
  CASE n.type = "phrase" -> n.field \in Without("positions")
    [] n.type = "phrase_prefix" -> Len(n.terms) > 1 /\ n.field \in Without("positions")
    [] n.type = "exists" -> n.field \in Without("fast")
    [] n.type = "fuzzy" -> n.distance > 2
    [] OTHER -> FALSE

to_query(ns) == \A i \in DOMAIN ns : ~Errs(ns[i])
weight(ns) == \A i \in DOMAIN ns : ~Refuses(ns[i])

\* Mutant: a clause that must match may be missing.
MustIsShould(occur) == CASE occur = "must_not" -> "MustNot"
                         [] OTHER -> "Should"

occur_from_dsl(occur) == CASE occur = "must" -> "Must"
                           [] occur = "should" -> "Should"
                           [] occur = "must_not" -> "MustNot"

HasWords(d, field, words) == \A i \in DOMAIN words : words[i] \in d[field]
WithTerm(d, term) == term.value.data \in d[term.name]

\* Mutant: bounds are always included.
ClosedRange(n, t) ==
  /\ \A i \in DOMAIN n.lower : Key(n.lower[i]) <= TermKey(n.field, t)
  /\ \A i \in DOMAIN n.upper : TermKey(n.field, t) <= Key(n.upper[i])

InBounds(n, t) ==
  LET key == TermKey(n.field, t)
  IN  /\ \A i \in DOMAIN n.lower :
           Key(n.lower[i]) < key \/ (n.include_lower /\ Key(n.lower[i]) = key)
      /\ \A i \in DOMAIN n.upper :
           key < Key(n.upper[i]) \/ (n.include_upper /\ Key(n.upper[i]) = key)

\* A node finds document d; found is what the nodes before it find.
Matches(n, found, d) ==
  CASE n.type = "all" -> TRUE
    [] n.type = "empty" -> FALSE
    [] n.type = "term" -> WithTerm(d, n.term)
    [] n.type = "term_set" -> \E i \in DOMAIN n.terms : WithTerm(d, n.terms[i])
    [] n.type = "boolean" ->
         LET of(occur) == {n.clauses[i].query :
                             i \in {i \in DOMAIN n.clauses :
                                      occur_from_dsl(n.clauses[i].occur) = occur}}
         IN  /\ \A q \in of("Must") : d \in found[q]
             /\ \A q \in of("MustNot") : d \notin found[q]
             /\ of("Must") = {} => \E q \in of("Should") : d \in found[q]
    [] n.type \in {"phrase", "phrase_prefix"} -> HasWords(d, n.field, n.terms)
    [] n.type = "range" -> \E t \in d[n.field] : InBounds(n, t)
    [] n.type = "regex" -> HasWords(d, n.field, <<n.pattern>>)
    [] n.type = "fuzzy" -> HasWords(d, n.field, <<n.term>>)
    [] n.type = "exists" -> d[n.field] # {}
    [] n.type \in {"boost", "const_score"} -> d \in found[n.query]
    [] n.type = "disjunction_max" -> \E i \in DOMAIN n.queries : d \in found[n.queries[i]]
    [] n.type = "query_string" ->
         \E w \in Words(n.query) : \E f \in word_fields(n.default_fields, w) : w.word \in d[f]

Search(ns) ==
  LET found[i \in 0..Len(ns)] ==
        IF i = 0 THEN <<>>
        ELSE LET before == found[i - 1]
             IN  Append(before, {d \in Docs : Matches(ns[i], before, d)})
  IN  found[Len(ns)][Len(ns)]

-----------------------------------------------------------------------------
QueryInit ==
  /\ phase = "tree" /\ \E q \in Leaves : query = <<q>> /\ typed = Constructible(q)
  /\ json = <<>> /\ dsl = <<>> /\ hits = {}

\* The caller puts the query into another one.
Wrap ==
  /\ phase = "tree" /\ typed /\ Nesting(query) < MaxNesting
  /\ Around(query, query') /\ \A i \in DOMAIN query' : Constructible(query'[i])
  /\ UNCHANGED <<phase, typed, json, dsl, hits>>

\* TypedTantivyIndex.search, and searchText with the query as its filter.
search ==
  /\ phase = "tree" /\ typed
  /\ \/ UNCHANGED query
     \/ \E t \in {t \in Texts : Constructible(t)} : query' = searchText(t, query)
  /\ phase' = "json" /\ json' = toJson(query')
  /\ UNCHANGED <<typed, dsl, hits>>

\* A text by hand: a key left out, one too many, a null, or a wrong tag.
ByHand(j) ==
  {j} \cup {Obj([k \in DOMAIN j.v \ {x} |-> j.v[k]]) : x \in DOMAIN j.v}
      \cup {Obj([extra |-> Str("x")] @@ j.v)}
      \cup {Obj([k \in DOMAIN j.v |-> IF k = x THEN Null ELSE j.v[k]]) : x \in DOMAIN j.v}
      \cup {Obj([type |-> Str("definitely_not_a_query")] @@ j.v)}

raw ==
  /\ phase = "tree" /\ Len(query) = 1
  /\ phase' = "json" /\ typed' = FALSE
  /\ \E j \in ByHand(toJsonObject(query[1])) : json' = <<j>>
  /\ UNCHANGED <<query, dsl, hits>>

from_str ==
  /\ phase = "json"
  /\ IF WellFormed(json) /\ Depth(json) < RecursionLimit /\ Reads(json)
     THEN phase' = "dsl" /\ dsl' = Read(json)
     ELSE phase' = "refused" /\ UNCHANGED dsl
  /\ UNCHANGED <<query, typed, json, hits>>

search_dsl ==
  /\ phase = "dsl"
  /\ IF to_query(dsl) /\ weight(dsl)
     THEN phase' = "done" /\ hits' = Search(dsl)
     ELSE phase' = "rejected" /\ UNCHANGED hits
  /\ UNCHANGED <<query, typed, json, dsl>>

QueryNext == Wrap \/ search \/ raw \/ from_str \/ search_dsl

QuerySpec == QueryInit /\ [][QueryNext]_queryVars
-----------------------------------------------------------------------------
(* Properties *)

\* Every query that Kotlin lets somebody build is read by serde, and no key of it
\* is one serde skips, nor null: unless it is nested too deeply, or a value in it
\* is no number.
KotlinIsUnderstood ==
  /\ typed /\ phase = "refused" => ~(WellFormed(json) /\ Depth(json) < RecursionLimit)
  /\ typed /\ phase = "dsl" =>
       \A i \in DOMAIN json : \A k \in DOMAIN json[i].v \ {"type"} :
         k \in DOMAIN Variants[dsl[i].type] /\ json[i].v[k].js # "null"

Named(q) ==
  CASE q.kind = "TermSet" -> {q.terms[i].field : i \in DOMAIN q.terms}
    [] q.kind = "QueryString" -> {q.fuzzyFields[i].fieldName : i \in DOMAIN q.fuzzyFields}
    [] q.kind \in {"Term", "Phrase", "PhrasePrefix", "Range", "Regex", "Fuzzy", "Exists"} -> {q.field}
    [] OTHER -> {}

\* A query that is searched names, anywhere in it, only fields of the schema:
\* but for the default fields of a query string, and names in its text.
NamesAreChecked ==
  typed /\ phase = "done" => \A i \in DOMAIN query : Named(query[i]) \subseteq DOMAIN Schema

\* The fields that the words of a query string are to be looked for in.
AskedFields(q, w) == LET names == IF w.field = <<>> THEN q.defaultFields ELSE w.field
                     IN  {names[i] : i \in DOMAIN names}

Sent(q) == Read(toJson(q))
Goes(q) == WellFormed(toJson(q)) /\ to_query(Sent(q)) /\ weight(Sent(q))
Hits(q) == Search(Sent(q))

\* No word of a query string is to be looked for in a field of the schema.
AllUnknown(q) ==
  q.kind = "QueryString" /\ \A w \in Words(q.query) : AskedFields(q, w) \cap DOMAIN Schema = {}
Emptied(q) == [i \in DOMAIN q |-> IF AllUnknown(q[i]) THEN [kind |-> "Empty"] ELSE q[i]]

\* A misspelt name never stands for another field: it is an error, but among the
\* default fields and in the text of a query string; and a query string that
\* names no field of the schema finds nothing, wherever it is, so that the whole
\* query fails where it must match and excludes nothing where it must not.
UnknownNamesFindNothing ==
  NamesAreChecked /\ (typed /\ phase = "done" => hits = Hits(Emptied(query)))

\* "[filter] is ANDed with the text query" (TypedTantivyIndex.kt:177): whatever
\* the filter is, negations and alternatives too, it and its negation split what
\* the text finds, and what stays is what the filter finds on its own.
FilterSplits ==
  phase = "tree" /\ typed /\ Goes(query) =>
    \A t \in {t \in Texts : Goes(<<t>>)} :
      LET n == Len(query)
          with == Hits(searchText(t, query))
          without == Hits(query \o <<t, Boolean(<<Clause("MUST", n + 1), Clause("MUST_NOT", n)>>)>>)
      IN  /\ with = Hits(<<t>>) \cap Hits(query)
          /\ without = Hits(<<t>>) \ with

HalfOpen(field, lower, upper) ==
  [kind |-> "Range", field |-> field, lower |-> lower, upper |-> upper,
   includeLower |-> TRUE, includeUpper |-> FALSE]

\* Half-open ranges of numbers, dates, texts, paths, bytes and truth values fit
\* together: no document falls between two, and one is in both only with a value
\* in each.
HalfOpenRangesTile ==
  phase = "tree" /\ Len(query) = 1 /\ query[1].kind = "Range" /\ Goes(query)
    /\ query[1].lower # <<>> /\ query[1].upper # <<>>
    /\ Key(Sent(query)[1].lower[1]) <= Key(Sent(query)[1].upper[1]) =>
      LET q == query[1]
          below == Hits(<<HalfOpen(q.field, q.lower, q.upper)>>)
          above == Hits(<<HalfOpen(q.field, q.upper, <<>>)>>)
          all == Hits(<<HalfOpen(q.field, q.lower, <<>>)>>)
      IN  /\ below \cup above = all
          /\ \A d \in below \cap above : \E t, u \in d[q.field] :
               TermKey(q.field, t) < TermKey(q.field, u)
=============================================================================
