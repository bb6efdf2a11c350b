-------------------------- MODULE MCDocumentCodec --------------------------
(* Instances of DocumentCodec for TLC: eight bits stand for 64, two
   nanoseconds make a microsecond and two microseconds a second. *)
EXTENDS DocumentCodec

Field(kind, isStored, isIndexed, isRaw) ==
  [kind |-> kind, stored |-> isStored, indexed |-> isIndexed, raw |-> isRaw]
Declared ==
  [id |-> Field("text", TRUE, TRUE, TRUE), body |-> Field("text", TRUE, TRUE, FALSE),
   num |-> Field("u64", TRUE, TRUE, FALSE), time |-> Field("date", TRUE, TRUE, FALSE),
   tag |-> Field("facet", FALSE, TRUE, FALSE), json |-> Field("json", TRUE, FALSE, FALSE),
   blob |-> Field("bytes", TRUE, FALSE, FALSE)]

blue == [word |-> "blue", upper |-> FALSE]
Bottle == [word |-> "bottle", upper |-> TRUE]
Path(isRooted, segments) == [rooted |-> isRooted, path |-> segments]
Json(isValid, isCompact) == [valid |-> isValid, parsed |-> "object", compact |-> isCompact]

Texts == {[kind |-> "text", data |-> t] : t \in {<<blue>>, <<blue, Bottle>>}}
\* 70 and -70 do not fit in nanoseconds; 2 and 3 are in one second, -1 and 0 too.
Written ==
  Texts
    \cup {[kind |-> "u64", data |-> n] : n \in {127, 128}}
    \cup {[kind |-> "date", data |-> n] : n \in {-70, -1, 0, 2, 3, 70}}
    \cup {[kind |-> "facet", data |-> p] :
            p \in {Path(TRUE, <<"a">>), Path(TRUE, <<"a", "b">>), Path(FALSE, <<"a">>)}}
    \cup {[kind |-> "json", data |-> j] : j \in {Json(TRUE, FALSE), Json(FALSE, TRUE)}}
    \cup {[kind |-> "bytes", data |-> "bytes"]}
=============================================================================
