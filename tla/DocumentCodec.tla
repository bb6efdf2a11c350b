--------------------------- MODULE DocumentCodec ---------------------------
(***************************************************************************)
(* The way of one document: the adapter's calls of TantivyDocumentWriter   *)
(* (or fields made with the generated API), add_field_value, what the      *)
(* engine stores and which terms it indexes, doc_to_fields, and the        *)
(* TantivyFieldMap an adapter decodes; and term_from_field_value, by which *)
(* documents are found and deleted.                                        *)
(*                                                                         *)
(* A value is its kind and its data: a sequence of words for text, a path  *)
(* for facets, a parsed value and its spelling for JSON, integers of 64    *)
(* bits (MaxLong is their largest) for u64 and dates.  Kinds that pass     *)
(* through unchanged (i64, f64, bool, bytes) have any data.                *)
(***************************************************************************)
EXTENDS Integers, Sequences, FiniteSets, SequencesExt, Selection

CONSTANTS Schema,          \* field name -> [kind, stored, indexed, raw]
          UnknownNames,    \* names the schema does not declare
          Values,          \* values that are written and looked for
          MaxWrites,       \* bound on the fields of the document
          MaxLong,         \* 2^63 - 1
          NanosPerMicro,   \* 1000
          MicrosPerSecond  \* 1000000

ASSUME SchemaAssumption == DOMAIN Schema \cap UnknownNames = {}
ASSUME LongAssumption == MaxLong \in Nat
ASSUME TimeAssumption == NanosPerMicro \in Nat \ {0} /\ MicrosPerSecond \in Nat \ {0}

\* add_text_field indexes every text field.
ASSUME TextAssumption == \A name \in DOMAIN Schema :
  Schema[name].kind = "text" => Schema[name].indexed

ASSUME ValuesAssumption == \A v \in Values :
  /\ v.kind \in {"u64", "date"} => v.data \in Int
  /\ v.kind = "facet" => v.data.path \in Seq({v.data.path[i] : i \in DOMAIN v.data.path})

VARIABLES
  stage,   \* "writing", "thrown", "rejected", "indexed", "read" or "unreadable"
  typed,   \* every field so far came from TantivyDocumentWriter
  fields,  \* the DocumentFields, in order
  stored,  \* the engine's stored values, in order
  terms,   \* the terms it indexed: pairs of field name and term
  map      \* the values that came back, in order

vars == <<stage, typed, fields, stored, terms, map>>

Names == DOMAIN Schema \cup UnknownNames

\* A Rust i64 after an operation: the library is built with --release.
Wrap(n) == ((n + MaxLong + 1) % (2 * (MaxLong + 1))) - (MaxLong + 1)

\* Rust's division of signed integers, and what is left of a second.
Quotient(n, d) == IF n >= 0 THEN n \div d ELSE -((-n) \div d)
NanosPerSecond == NanosPerMicro * MicrosPerSecond

\* tantivy::DateTime.
from_timestamp_micros(m) == Wrap(m * NanosPerMicro)
into_timestamp_micros(nanos) == Quotient(nanos, NanosPerMicro)
Truncated(nanos) == Quotient(nanos, NanosPerSecond) * NanosPerSecond

Init ==
  /\ stage = "writing" /\ typed = TRUE
  /\ fields = <<>> /\ stored = <<>> /\ terms = {} /\ map = <<>>

-----------------------------------------------------------------------------
(* Writing *)

\* FieldSpec.accepts.
accepts(spec, v) == spec.kind = v.kind

\* A Kotlin U64 holds a non-negative Long.
Constructible(v) == v.kind = "u64" => v.data <= MaxLong

Put(name, v) ==
  /\ fields' = Append(fields, [name |-> name, value |-> v])
  /\ UNCHANGED <<stage, stored, terms, map>>

\* Mutant: a field the schema does not know is left to the native side.
WriterTrustsNames(name, v) ==
  /\ stage = "writing" /\ Len(fields) < MaxWrites /\ Constructible(v)
  /\ name \in DOMAIN Schema => accepts(Schema[name], v)
  /\ Put(name, v) /\ UNCHANGED typed

\* TantivyDocumentWriter.value: UnknownField, ValueKindMismatch, or one more.
value(name, v) ==
  /\ stage = "writing" /\ Len(fields) < MaxWrites /\ Constructible(v)
  /\ IF name \in DOMAIN Schema /\ accepts(Schema[name], v)
     THEN Put(name, v)
     ELSE stage' = "thrown" /\ UNCHANGED <<fields, stored, terms, map>>
  /\ UNCHANGED typed

\* A DocumentField made by hand: any name, and the whole range of the kind.
raw_field(name, v) ==
  /\ stage = "writing" /\ Len(fields) < MaxWrites
  /\ name \in DOMAIN Schema => accepts(Schema[name], v)
  /\ Put(name, v)
  /\ typed' = FALSE

valueCount(name) == Cardinality({i \in DOMAIN fields : fields[i].name = name})
firstFfiValue(name) ==
  fields[CHOOSE i \in DOMAIN fields :
           fields[i].name = name /\ \A j \in 1..(i - 1) : fields[j].name # name].value

-----------------------------------------------------------------------------
(* Into the engine *)

\* Facet::from_text wants a leading slash, serde_json well-formed JSON.
Convertible(v) == /\ v.kind = "facet" => v.data.rooted
                  /\ v.kind = "json" => v.data.valid

\* add_field_value.  Parsed JSON has lost its spelling.
Owned(v) == CASE v.kind = "date" -> from_timestamp_micros(v.data)
              [] v.kind = "json" -> v.data.parsed
              [] OTHER -> v.data

Lower(word) == [word EXCEPT !.upper = FALSE]

\* Mutant: an id is tokenized like any text.
EveryTextInWords(spec, v) ==
  IF ~spec.indexed \/ v.kind = "json" THEN {}
  ELSE CASE v.kind = "text" -> {<<Lower(v.data[i])>> : i \in DOMAIN v.data}
         [] v.kind = "facet" -> Prefixes(v.data.path)
         [] v.kind = "date" -> {Truncated(Owned(v))}
         [] OTHER -> {v.data}

\* What the engine indexes: a raw text whole, other texts word by word in
\* lower case, a facet with everything above it, a date to the second.
IndexedTerms(spec, v) ==
  IF ~spec.indexed \/ v.kind = "json" THEN {}
  ELSE CASE v.kind = "text" /\ ~spec.raw -> {<<Lower(v.data[i])>> : i \in DOMAIN v.data}
         [] v.kind = "facet" -> Prefixes(v.data.path)
         [] v.kind = "date" -> {Truncated(Owned(v))}
         [] OTHER -> {v.data}

TermsOf(f) == {<<f.name, t>> : t \in IndexedTerms(Schema[f.name], f.value)}

\* index_doc: unknown names are skipped, the first value that does not convert
\* rejects the document.
index_doc ==
  LET known == {i \in DOMAIN fields : fields[i].name \in DOMAIN Schema}
      keep == Selected(fields, {i \in known : Schema[fields[i].name].stored})
  IN /\ stage = "writing"
     /\ IF \A i \in known : Convertible(fields[i].value)
        THEN /\ stage' = "indexed"
             /\ stored' = [i \in DOMAIN keep |-> [name |-> keep[i].name,
                                                  owned |-> Owned(keep[i].value)]]
             /\ terms' = UNION {TermsOf(fields[i]) : i \in known}
        ELSE stage' = "rejected" /\ UNCHANGED <<stored, terms>>
     /\ UNCHANGED <<typed, fields, map>>

-----------------------------------------------------------------------------
(* Back *)

\* Mutant: nanoseconds are handed out as microseconds.
FieldInNanos(f) ==
  [name |-> f.name,
   value |-> [kind |-> Schema[f.name].kind,
              data |-> IF Schema[f.name].kind = "json"
                       THEN [valid |-> TRUE, parsed |-> f.owned, compact |-> TRUE]
                       ELSE f.owned]]

\* document_field_from_value; JSON comes back in serde_json's spelling.
document_field_from_value(f) ==
  LET kind == Schema[f.name].kind
  IN [name |-> f.name,
      value |-> [kind |-> kind,
                 data |-> CASE kind = "date" -> into_timestamp_micros(f.owned)
                            [] kind = "json" -> [valid |-> TRUE, parsed |-> f.owned,
                                                 compact |-> TRUE]
                            [] OTHER -> f.owned]]

\* TantivyValue.fromFfi.
Supported(v) == v.kind = "u64" => v.data <= MaxLong

\* doc_to_fields, and the constructor of TantivyFieldMap.
read ==
  LET doc == [i \in DOMAIN stored |-> document_field_from_value(stored[i])]
  IN /\ stage = "indexed"
     /\ IF \A i \in DOMAIN doc : Supported(doc[i].value)
        THEN stage' = "read" /\ map' = doc
        ELSE stage' = "unreadable" /\ UNCHANGED map
     /\ UNCHANGED <<typed, fields, stored, terms>>

\* TantivyFieldMap.values.
values(name) == Selected(map, {i \in DOMAIN map : map[i].name = name})

Next ==
  \/ \E name \in Names, v \in Values : value(name, v) \/ raw_field(name, v)
  \/ index_doc
  \/ read

Spec == Init /\ [][Next]_vars

-----------------------------------------------------------------------------
(* Finding documents *)

\* Mutant: microseconds are taken for nanoseconds.
TermInMicros(v) == CASE v.kind = "facet" -> v.data.path
                     [] OTHER -> v.data

\* term_from_field_value: text is not tokenized, a date not truncated.
Term(v) == CASE v.kind = "facet" -> v.data.path
             [] v.kind = "date" -> Owned(v)
             [] OTHER -> v.data

HasTerm(v) == v.kind # "json" /\ Convertible(v)

\* The document is found, or deleted, by this value of this field.
Matches(name, v) == <<name, Term(v)>> \in terms

Queries == {q \in (DOMAIN Schema) \X Values :
              Schema[q[1]].indexed /\ accepts(Schema[q[1]], q[2]) /\ HasTerm(q[2])}

-----------------------------------------------------------------------------
(* Properties *)

Holds(name, v) == \E i \in DOMAIN fields : fields[i] = [name |-> name, value |-> v]
Indexed == stage \in {"indexed", "read", "unreadable"}

\* What comes back of a stored field is what was written to it, value by value
\* in order; a date only when it fits in nanoseconds, and JSON by what it says.
InRange(v) == v.kind = "date" => v.data * NanosPerMicro \in -(MaxLong + 1)..MaxLong
Meaning(v) == IF v.kind = "json" THEN v.data.parsed ELSE v.data
ReadsBackWhatWasWritten ==
  stage = "read" /\ (\A i \in DOMAIN fields : InRange(fields[i].value)) =>
    \A name \in DOMAIN Schema :
      LET written == Selected(fields, {i \in DOMAIN fields : fields[i].name = name})
          back == values(name)
      IN  Schema[name].stored =>
            /\ Len(back) = Len(written)
            /\ \A i \in DOMAIN back : Meaning(back[i].value) = Meaning(written[i].value)

\* A document the typed writer let through loses no field on the way in and can
\* always be read, also with dates that overflow; only one made by hand can hold
\* a number that makes every typed read of it throw.
TypedDocumentsAreReadable ==
  typed /\ Indexed =>
    /\ stage # "unreadable"
    /\ \A i \in DOMAIN fields : fields[i].name \in DOMAIN Schema

\* A document with one value of a raw id field, as upsert requires, has one
\* term there, the one upsert deletes by.
IdIsExact ==
  \A name \in DOMAIN Schema :
    Schema[name].kind = "text" /\ Schema[name].raw /\ valueCount(name) = 1 =>
      {t \in terms : t[1] = name} = {<<name, Term(firstFfiValue(name))>>}

\* A document is found, and deleted, by each value of an indexed field, but for
\* tokenized text and dates with a fraction of a second
\* (TantivyQueryDslTest.kt:427); and in a raw id field by no other value.
FoundByItsValues ==
  Indexed =>
    /\ IdIsExact
    /\ \A q \in Queries :
         /\ Holds(q[1], q[2])
         /\ q[2].kind = "text" => Schema[q[1]].raw
         /\ q[2].kind = "date" => Truncated(Owned(q[2])) = Owned(q[2])
         => Matches(q[1], q[2])

\* deleteDoc: "Deletes documents whose [field] equals [value]"
\* (TypedTantivyIndex.kt:130).
DeletesWhatIsEqual ==
  typed /\ Indexed => \A q \in Queries : Matches(q[1], q[2]) <=> Holds(q[1], q[2])
=============================================================================
