------------------------ MODULE MCSchemaDeclaration ------------------------
(* An instance of SchemaDeclaration for TLC: of each kind of field those that
   differ in one option, an id and the text field that registers the same. *)
EXTENDS SchemaDeclaration

Number(kind, isFast) ==
  [name |-> "a", kind |-> kind, indexed |-> TRUE, stored |-> TRUE, fast |-> isFast,
   fieldnorms |-> FALSE]
Date(precision) ==
  [name |-> "a", kind |-> "date", indexed |-> TRUE, stored |-> TRUE, fast |-> TRUE,
   fieldnorms |-> FALSE, precision |-> precision]
Text(tokenizer) ==
  [name |-> "a", kind |-> "text", tokenizer |-> tokenizer, record |-> "BASIC", stored |-> TRUE,
   fast |-> TRUE, fieldnorms |-> FALSE]
Json(isIndexed, tokenizer) ==
  [name |-> "b", kind |-> "json", stored |-> TRUE, indexed |-> isIndexed, fast |-> FALSE,
   tokenizer |-> tokenizer, record |-> "BASIC", fieldnorms |-> TRUE, expandDots |-> FALSE,
   fastTokenizer |-> "none"]

MCSpecs ==
  {Number(k, f) : k \in {"u64", "bool"}, f \in BOOLEAN}
  \cup {Date(p) : p \in {"SECONDS", "MILLISECONDS"}}
  \cup {Text(t) : t \in {"RAW", "UNICODE"}}
  \cup {[name |-> "a", kind |-> "id"], [name |-> "b", kind |-> "facet", stored |-> TRUE],
        [name |-> "b", kind |-> "bytes", stored |-> TRUE, fast |-> FALSE, indexed |-> FALSE]}
  \cup {Json(i, t) : i \in BOOLEAN, t \in {"RAW", "UNICODE"}}
=============================================================================
