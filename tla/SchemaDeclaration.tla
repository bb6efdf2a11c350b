------------------------- MODULE SchemaDeclaration -------------------------
(***************************************************************************)
(* TantivySchema and its scope: fields are declared, a schema is built of  *)
(* them or extended, it has a fingerprint and accepts values, and it is    *)
(* registered with a TantivySchemaBuilder to open an index.  OpenIndex has *)
(* the concurrency and the failures of opening; here one caller succeeds.  *)
(***************************************************************************)
EXTENDS Naturals, Sequences, FiniteSets, SequencesExt

CONSTANTS Specs,      \* field specifications: [name, kind] and the options of the kind
          MaxFields,  \* bound on the fields of a scope
          MaxSchemas  \* bound on the schemas built; nothing is declared after the last

VARIABLES
  scope,    \* TantivySchemaScope: the fields declared so far
  schemas,  \* the schemas that were built
  disk,     \* the entries of the index on disk, or <<>>
  users     \* which schemas opened it

vars == <<scope, schemas, disk, users>>

Numeric == {"u64", "i64", "f64", "bool"}

ASSUME SpecsAssumption ==
  \A spec \in Specs :
    spec.kind \in Numeric \cup {"id", "text", "date", "bytes", "facet", "json"}

-----------------------------------------------------------------------------
(* FieldSpec *)

\* accepts: the kind of values of a field.
accepts(spec) == IF spec.kind = "id" THEN "text" ELSE spec.kind

\* Mutant: the precision of a date is left out.
ImprecisePrint(spec) ==
  <<spec.name, spec.kind>> \o
  CASE spec.kind = "id" -> <<>>
    [] spec.kind = "text" ->
         <<spec.tokenizer, spec.record, spec.stored, spec.fast, spec.fieldnorms>>
    [] spec.kind \in Numeric \cup {"date"} ->
         <<spec.indexed, spec.stored, spec.fast, spec.fieldnorms>>
    [] spec.kind = "bytes" -> <<spec.stored, spec.fast, spec.indexed>>
    [] spec.kind = "facet" -> <<spec.stored>>
    [] spec.kind = "json" ->
         <<spec.stored, spec.indexed, spec.fast, spec.tokenizer, spec.record,
           spec.fieldnorms, spec.expandDots, spec.fastTokenizer>>

\* FieldSpec.fingerprint; the names have no ":" or "|" in them.
print(spec) ==
  <<spec.name, spec.kind>> \o
  CASE spec.kind = "id" -> <<>>
    [] spec.kind = "text" ->
         <<spec.tokenizer, spec.record, spec.stored, spec.fast, spec.fieldnorms>>
    [] spec.kind \in Numeric -> <<spec.indexed, spec.stored, spec.fast, spec.fieldnorms>>
    [] spec.kind = "date" ->
         <<spec.indexed, spec.stored, spec.fast, spec.fieldnorms, spec.precision>>
    [] spec.kind = "bytes" -> <<spec.stored, spec.fast, spec.indexed>>
    [] spec.kind = "facet" -> <<spec.stored>>
    [] spec.kind = "json" ->
         <<spec.stored, spec.indexed, spec.fast, spec.tokenizer, spec.record,
           spec.fieldnorms, spec.expandDots, spec.fastTokenizer>>

\* TantivySchema.fingerprint: sorted, so the order of declaration is lost.
fingerprint(fields) == {print(fields[i]) : i \in DOMAIN fields}

-----------------------------------------------------------------------------
(* TantivySchemaBuilder: what the engine keeps of a field *)

Entry(name, type, options) == [name |-> name, type |-> type, options |-> options]

Indexing(tokenizer, record, fieldnorms) ==
  [tokenizer |-> tokenizer, record |-> record, fieldnorms |-> fieldnorms]

add_text_field(name, tokenizer, record, stored, fast, fieldnorms) ==
  Entry(name, "text", [indexing |-> Indexing(tokenizer, record, fieldnorms),
                       stored |-> stored, fast |-> fast])

\* add_u64_field, add_i64_field, add_f64_field, add_bool_field, add_date_field.
add_numeric_field(spec, type, more) ==
  Entry(spec.name, type, <<[indexed |-> spec.indexed, stored |-> spec.stored, fast |-> spec.fast,
                            fieldnorms |-> spec.fieldnorms]>> \o more)

\* What does not matter is not kept: how to index what is not indexed.
add_json_field(spec) ==
  Entry(spec.name, "json",
        [stored |-> spec.stored, dots |-> spec.expandDots,
         indexing |-> IF spec.indexed
                      THEN <<Indexing(spec.tokenizer, spec.record, spec.fieldnorms)>> ELSE <<>>,
         fast |-> IF spec.fast THEN <<spec.fastTokenizer>> ELSE <<>>])

\* Mutant: a flag is a small number.
BoolAsNumber(spec) ==
  CASE spec.kind = "bool" -> add_numeric_field(spec, "u64", <<>>)
    [] spec.kind \in Numeric -> add_numeric_field(spec, spec.kind, <<>>)
    [] OTHER -> Entry(spec.name, accepts(spec), spec)

\* FieldSpec.register.
register(spec) ==
  CASE spec.kind = "id" -> add_text_field(spec.name, "RAW", "BASIC", TRUE, TRUE, FALSE)
    [] spec.kind = "text" ->
         add_text_field(spec.name, spec.tokenizer, spec.record, spec.stored, spec.fast, spec.fieldnorms)
    [] spec.kind \in Numeric -> add_numeric_field(spec, spec.kind, <<>>)
    [] spec.kind = "date" -> add_numeric_field(spec, "date", <<spec.precision>>)
    [] spec.kind = "bytes" ->
         Entry(spec.name, "bytes", [stored |-> spec.stored, fast |-> spec.fast, indexed |-> spec.indexed])
    [] spec.kind = "facet" -> Entry(spec.name, "facet", spec.stored)
    [] spec.kind = "json" -> add_json_field(spec)

newBuilder(fields) == [i \in DOMAIN fields |-> register(fields[i])]

-----------------------------------------------------------------------------
Init == scope = <<>> /\ schemas = <<>> /\ disk = <<>> /\ users = {}

\* idField, textField, ...
declare(spec) ==
  /\ Len(scope) < MaxFields /\ Len(schemas) < MaxSchemas
  /\ scope' = Append(scope, spec)
  /\ UNCHANGED <<schemas, disk, users>>

FieldNames(fields) == {fields[i].name : i \in DOMAIN fields}

\* TantivySchemaScope.build; otherwise it throws.  A scope can be used further.
build ==
  /\ Len(schemas) < MaxSchemas
  /\ scope # <<>> /\ Cardinality(FieldNames(scope)) = Len(scope)
  /\ schemas' = Append(schemas, scope)
  /\ UNCHANGED <<scope, disk, users>>

\* A scope of its own, with the fields of a schema or none.
extending ==
  /\ Len(schemas) < MaxSchemas
  /\ \E fields \in ToSet(schemas) \cup {<<>>} : scope' = fields
  /\ UNCHANGED <<schemas, disk, users>>

\* Index::open_or_create takes the same entries in the same order only.
open(i) ==
  LET entries == newBuilder(schemas[i])
  IN  /\ disk \in {<<>>, entries}
      /\ disk' = entries
      /\ users' = users \cup {i}
      /\ UNCHANGED <<scope, schemas>>

Next ==
  \/ \E spec \in Specs : declare(spec)
  \/ build
  \/ extending
  \/ \E i \in DOMAIN schemas : open(i)

Spec == Init /\ [][Next]_vars

-----------------------------------------------------------------------------
(* Properties *)

\* Schemas with one fingerprint register the same entries: no option that makes
\* the engine refuse an index is missing from it.  Their order may differ, and
\* then the engine refuses although the fingerprints agree.
FingerprintTellsOptions ==
  \A i, j \in DOMAIN schemas :
    fingerprint(schemas[i]) = fingerprint(schemas[j]) =>
      ToSet(newBuilder(schemas[i])) = ToSet(newBuilder(schemas[j]))

\* The engine holds no number where it reads one of another kind: whichever of the
\* schemas that open an index writes a document, each field gets values of the
\* kind the index has for it.
WriterMatchesIndex ==
  \A i \in users :
    /\ Len(schemas[i]) = Len(disk)
    /\ \A n \in DOMAIN disk :
         schemas[i][n].name = disk[n].name /\ accepts(schemas[i][n]) = disk[n].type
=============================================================================
