----------------------------- MODULE MCQueryDsl -----------------------------
(* An instance of QueryDsl for TLC. *)
EXTENDS QueryDsl

Declared ==
  [title |-> [kind |-> "text", positions |-> TRUE, fast |-> FALSE],
   id |-> [kind |-> "text", positions |-> FALSE, fast |-> TRUE],
   num |-> [kind |-> "u64", positions |-> FALSE, fast |-> TRUE],
   ratio |-> [kind |-> "f64", positions |-> FALSE, fast |-> FALSE],
   blob |-> [kind |-> "bytes", positions |-> FALSE, fast |-> FALSE],
   flag |-> [kind |-> "bool", positions |-> FALSE, fast |-> FALSE],
   tag |-> [kind |-> "facet", positions |-> FALSE, fast |-> FALSE]]

Doc(id, words, nums, paths) ==
  [title |-> words, id |-> {id}, num |-> nums, ratio |-> nums, blob |-> {<<202>>, <<7>>},
   flag |-> {1 \in nums}, tag |-> paths, typo |-> {}]
Documents == {Doc("r1", {"blue", "bottle"}, {1}, {"/tag", "/tag/coffee"}),
              Doc("r2", {"blue"}, {2}, {"/tag", "/tag/food"}),
              Doc("r3", {"bottle"}, {1, 3}, {})}

\* Terms in the order of their bytes; these byte strings have at most one byte.
TextsInOrder == <<"blue", "bottle", "r1", "r2", "r3">>
PathsInOrder == <<"/tag", "/tag/coffee", "/tag/food">>
MCRank(value) ==
  CASE value.kind = "bool" -> IF value.data THEN 1 ELSE 0
    [] value.kind = "bytes" -> IF value.data = <<>> THEN 0 ELSE value.data[1] + 1
    [] value.kind = "text" -> SelectInSeq(TextsInOrder, LAMBDA t : t = value.data)
    [] value.kind = "facet" -> SelectInSeq(PathsInOrder, LAMBDA t : t = value.data)

Value(kind, data) == [kind |-> kind, data |-> data]
Term(field, kind, data) == [kind |-> "Term", field |-> field, value |-> Value(kind, data)]
facetAnyOf(field, paths) ==
  [kind |-> "TermSet",
   terms |-> [i \in DOMAIN paths |-> [field |-> field, value |-> Value("facet", paths[i])]]]
Between(field, lower, upper, includeUpper) ==
  [kind |-> "Range", field |-> field, lower |-> lower, upper |-> upper,
   includeLower |-> TRUE, includeUpper |-> includeUpper]
Bounds == {<<>>, <<Value("u64", 1)>>, <<Value("u64", 2)>>}
Ranges ==
  [kind : {"Range"}, field : {"num"}, lower : Bounds, upper : Bounds,
   includeLower : BOOLEAN, includeUpper : BOOLEAN]
  \cup {Between("title", <<Value("u64", 1)>>, <<>>, TRUE), Between("blob", <<Value("json", "{}")>>, <<>>, TRUE),
        Between("id", <<Value("text", "r1")>>, <<Value("text", "r2")>>, TRUE),
        Between("tag", <<Value("facet", "/tag/coffee")>>, <<Value("facet", "/tag/food")>>, FALSE),
        Between("tag", <<Value("facet", "coffee")>>, <<>>, TRUE),
        Between("blob", <<Value("bytes", <<8>>)>>, <<Value("bytes", <<-54>>)>>, TRUE),
        Between("flag", <<Value("bool", FALSE)>>, <<Value("bool", TRUE)>>, FALSE)}
QueryString(word, fields, fuzzy) ==
  [kind |-> "QueryString", query |-> word, defaultFields |-> fields, fuzzyFields |-> fuzzy]
Fuzzily(field, n) ==
  <<[fieldName |-> field, prefix |-> FALSE, distance |-> n, transposeCostOne |-> TRUE]>>

Word(word) == [field |-> <<>>, word |-> word]
WordIn(field, word) == [field |-> <<field>>, word |-> word]
MCWords(text) ==
  CASE text = "blue" -> {Word("blue")}
    [] text = "blue title:bottle" -> {Word("blue"), WordIn("title", "bottle")}
    [] text = "typo:blue" -> {WordIn("typo", "blue")}

TextQueries == {QueryString("blue title:bottle", <<"typo", "id">>, <<>>),
                QueryString("typo:blue", <<"title">>, <<>>)}

Simple ==
  {[kind |-> "All"], [kind |-> "Empty"],
   Term("title", "text", "blue"), Term("num", "text", "blue"), Term("typo", "text", "blue"),
   Term("ratio", "f64", NotFinite), Term("ratio", "f64", 1), Term("blob", "bytes", <<-54>>),
   Term("tag", "facet", "coffee"),
   facetAnyOf("tag", <<>>), facetAnyOf("tag", <<"/tag/food", "/tag/coffee">>), Boolean(<<>>),
   QueryString("blue", <<"title", "id">>, Fuzzily("title", 1)),
   QueryString("blue", <<"typo">>, <<>>),
   QueryString("blue", <<"title">>, Fuzzily("typo", 1)),
   QueryString("blue", <<"title">>, Fuzzily("title", 256))}
  \cup TextQueries
  \cup [kind : {"Phrase"}, field : {"title", "id", "typo"}, terms : {<<"blue">>, <<"blue", "bottle">>},
        slop : {<<>>, <<1>>, <<-1>>}]
  \cup [kind : {"PhrasePrefix"}, field : {"title", "id"}, terms : {<<>>, <<"blue">>, <<"blue", "bottle">>},
        maxExpansions : {<<>>, <<5>>}]
  \cup Ranges
  \cup [kind : {"Regex"}, field : {"title", "typo"}, pattern : {"blue", "["}]
  \cup [kind : {"Fuzzy"}, field : {"title"}, term : {"blue"}, distance : {1, 3, 256},
        transposeCostOne : BOOLEAN]
  \cup [kind : {"Exists"}, field : {"num", "title", "typo"}]

Others == {Term("id", "text", "r1"), Term("tag", "facet", "/tag")}
=============================================================================
