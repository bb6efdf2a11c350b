----------------------------- MODULE ReadPaths -----------------------------
(***************************************************************************)
(* What the reads return: the native methods over one version of the index *)
(* each, and the typed ones around them, which decode every document.  A   *)
(* pager asks for page after page while others commit.  How a read meets   *)
(* running writes is in TantivyIndex, what a query matches in QueryDsl:    *)
(* here a query is the set of keys it matches.                             *)
(***************************************************************************)
EXTENDS Integers, Sequences, FiniteSets, SequencesExt, Selection

CONSTANTS Versions,  \* versions: documents [key, num, readable] in hit order
          Keys,      \* values of the field the documents are asked for by
          BadKey,    \* a field or value that makes no term
          Limits,    \* limits and offsets asked for
          IdLists    \* arguments of get_docs_by_ids

ASSUME VersionsAssumption ==
  \A v \in Versions : v \in Seq([key : Keys, num : BOOLEAN, readable : BOOLEAN])
ASSUME ArgumentsAssumption ==
  Limits \subseteq Int /\ IdLists \subseteq Seq(Keys \cup {BadKey}) /\ BadKey \notin Keys

VARIABLES
  version,  \* what the searcher of the next call sees
  last,     \* the call that was made last on it, and its result
  pager     \* somebody reading all the pages of a query

readVars == <<version, last, pager>>

Result(why, docs, count) == [why |-> why, docs |-> docs, count |-> count]
Ok(docs) == Result("ok", docs, Len(docs))
Error(why) == Result(why, <<>>, 0)
NoCall == [op |-> "none", arg |-> {}, result |-> Ok(<<>>)]
NoPager == [query |-> {}, limit |-> 0, offset |-> 0, got |-> <<>>, hits |-> <<>>,
            changed |-> FALSE, state |-> "idle"]   \* hits, changed: auxiliary

-----------------------------------------------------------------------------
(* The native methods *)

Hits(q) == Selected(version, {i \in DOMAIN version : version[i].key \in q})

\* Mutant: the offset counts pages.
PageNumber(hits, limit, offset) ==
  SubSeq(hits, limit * offset + 1,
         IF limit * (offset + 1) < Len(hits) THEN limit * (offset + 1) ELSE Len(hits))

\* TopDocs::with_limit(limit).and_offset(offset).
Top(hits, limit, offset) ==
  SubSeq(hits, offset + 1, IF offset + limit < Len(hits) THEN offset + limit ELSE Len(hits))

\* search and search_dsl; TopDocs::with_limit panics on 0.
search(q, limit, offset) ==
  IF limit = 0 THEN Error("panic")
  ELSE Result("ok", Top(Hits(q), limit, offset), Len(Hits(q)))

doc_exists(id) == IF id = BadKey THEN Error("query") ELSE Ok(Top(Hits({id}), 1, 0))

get_doc(id) ==
  IF id = BadKey THEN Error("query")
  ELSE IF Hits({id}) = <<>> THEN Error("DocRetrievalError") ELSE Ok(Top(Hits({id}), 1, 0))

\* Mutant: an empty list is searched for like any other.
IdsWithoutReturn(ids) ==
  IF BadKey \in ToSet(ids) THEN Error("query")
  ELSE LET found == search(ToSet(ids), Len(ids), 0)
       IN  IF found.why = "ok" THEN Ok(found.docs) ELSE found

\* Mutant: one document too few.
OneIdShort(ids) ==
  IF ids = <<>> THEN Ok(<<>>)
  ELSE IF BadKey \in ToSet(ids) THEN Error("query")
  ELSE Ok(Top(Hits(ToSet(ids)), Len(ids) - 1, 0))

\* As many hits as identifiers were given.
get_docs_by_ids(ids) ==
  IF ids = <<>> THEN Ok(<<>>)
  ELSE IF BadKey \in ToSet(ids) THEN Error("query")
  ELSE Ok(search(ToSet(ids), Len(ids), 0).docs)

WithNum(docs) == Selected(docs, {i \in DOMAIN docs : docs[i].num})

\* Mutant: the field is looked up hit by hit.
FieldOfEachHit(q, limit, offset, field) ==
  LET found == search(q, limit, offset)
  IN  IF found.why # "ok" THEN found
      ELSE IF field # "num" /\ found.docs # <<>> THEN Error("field")
      ELSE Ok(WithNum(found.docs))

\* Searched first; then the field must exist; a hit must have it as a fast u64,
\* and is skipped when it has no value of it.
search_doc_ids(q, limit, offset, field) ==
  LET found == search(q, limit, offset)
  IN  IF found.why # "ok" THEN found
      ELSE IF field = "unknown" \/ (field = "key" /\ found.docs # <<>>) THEN Error("field")
      ELSE Ok(WithNum(found.docs))

-----------------------------------------------------------------------------
(* The typed methods *)

\* TantivyFieldMap and the adapter: one document that cannot be decoded spoils
\* the result.
Decoded(result) ==
  IF \A i \in DOMAIN result.docs : result.docs[i].readable THEN result ELSE Error("decode")

typed_search(q, limit, offset) ==
  IF limit <= 0 \/ offset < 0 THEN Error("argument") ELSE Decoded(search(q, limit, offset))

getDocs(ids) == Decoded(get_docs_by_ids(ids))
getDoc(id) == Decoded(get_doc(id))

\* Mutant: whatever went wrong, there is no document.
NullOnAnyError(id) == IF getDoc(id).why # "ok" THEN Error("null") ELSE getDoc(id)

getDocOrNull(id) ==
  IF getDoc(id).why = "DocRetrievalError" THEN Error("null") ELSE getDoc(id)

-----------------------------------------------------------------------------
ReadInit ==
  /\ version \in Versions
  /\ last = NoCall /\ pager = NoPager

\* Reads change nothing: they are made while nobody pages.
Call(op, arg, result) ==
  /\ pager.state = "idle"
  /\ last' = [op |-> op, arg |-> arg, result |-> result]
  /\ UNCHANGED <<version, pager>>

ById ==
  \/ \E id \in Keys \cup {BadKey} :
       \/ Call("doc_exists", {id}, doc_exists(id))
       \/ Call("getDocOrNull", {id}, getDocOrNull(id))
  \/ \E ids \in IdLists : Call("getDocs", ids, getDocs(ids))

BySearch ==
  \E q \in SUBSET Keys, limit, offset \in Limits :
    \/ Call("search", q, typed_search(q, limit, offset))
    \/ /\ limit >= 0 /\ offset >= 0
       /\ \/ Call("search_dsl", q, search(q, limit, offset))
          \/ \E f \in {"num", "key", "unknown"} :
               Call("search_doc_ids", [query |-> q, limit |-> limit, offset |-> offset, field |-> f],
                    search_doc_ids(q, limit, offset, f))

\* A caller wants all hits of q, limit at a time, and counts on the count of the
\* page it has to know when to stop.
StartPaging ==
  /\ pager.state = "idle"
  /\ \E q \in SUBSET Keys, limit \in {l \in Limits : l > 0} :
       pager' = [NoPager EXCEPT !.query = q, !.limit = limit, !.hits = Hits(q),
                                !.state = "paging"]
  /\ last' = NoCall /\ UNCHANGED version

NextPage ==
  LET page == typed_search(pager.query, pager.limit, pager.offset)
  IN  /\ pager.state = "paging"
      /\ pager' = [pager EXCEPT !.got = @ \o page.docs, !.offset = @ + pager.limit,
                                !.state = IF page.why # "ok" THEN "failed"
                                          ELSE IF pager.offset + pager.limit >= page.count
                                          THEN "done" ELSE "paging"]
      /\ last' = NoCall /\ UNCHANGED version

\* Another version is committed and loaded.
Commit ==
  /\ version' \in Versions \ {version}
  /\ pager' = [pager EXCEPT !.changed = (pager.state = "paging") \/ @]
  /\ last' = NoCall

ReadNext == ById \/ BySearch \/ StartPaging \/ NextPage \/ Commit

ReadSpec == ReadInit /\ [][ReadNext]_readVars

-----------------------------------------------------------------------------
(* Properties *)

Unique == \A i, j \in DOMAIN version : version[i].key = version[j].key => i = j

\* Paging to the end, as the counts say, gives every hit once and in order,
\* provided that nobody commits in between.
PagesTile == pager.state = "done" /\ ~pager.changed => pager.got = pager.hits

\* getDocs finds every document asked for, however long the list and whatever it
\* repeats, when no two documents share an identifier: only then is the number
\* of identifiers enough of a limit.
AllIdsFound ==
  last.op = "getDocs" /\ last.result.why = "ok" /\ Unique =>
    last.result.docs = Hits(ToSet(last.arg))

\* A read tells exactly what went wrong.  getDocOrNull answers null for a document
\* that is not there, and never for one that cannot be asked for or decoded; an
\* argument that would make the engine panic is refused or answered by the typed
\* reads before it gets there; and search_doc_ids, although it searches first,
\* tells an unknown id field from one that no hit has a value of.
ErrorsAreExact ==
  /\ last.op = "getDocOrNull" =>
       \A id \in last.arg : last.result.why = "null" <=> id # BadKey /\ doc_exists(id) = Ok(<<>>)
  /\ last.op \in {"search", "getDocs", "getDocOrNull"} => last.result.why # "panic"
  /\ last.op = "search_doc_ids" /\ last.arg.field = "unknown" =>
       last.result.why \in {"field", "panic"}
=============================================================================
