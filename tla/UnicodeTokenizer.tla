-------------------------- MODULE UnicodeTokenizer --------------------------
(***************************************************************************)
(* The "unicode" tokenizer of rust/tantivy/src/unicode_tokenizer.rs: how a *)
(* text becomes tokens, and the stream that hands them out one by one.     *)
(*                                                                         *)
(* A character is known by what the code and the word segmentation ask of  *)
(* it.  An offset is a character boundary: character i lies between        *)
(* offsets i - 1 and i.  (The code's byte offsets are these boundaries.)   *)
(*                                                                         *)
(* The segmentation into words (crate unicode-segmentation, UAX #29) is    *)
(* external; its rules are given for the classes below, which have no      *)
(* digits, line breaks, emoji or Hebrew.                                   *)
(***************************************************************************)
EXTENDS Integers, SequencesExt, Selection

CONSTANTS Letters,     \* alphanumeric, joined to their neighbours in words
          Ideographs,  \* alphanumeric, each a word of its own
          Modifiers,   \* letters that look like an apostrophe (U+02BC, U+02B9)
          Quotes,      \* apostrophes that UAX #29 keeps inside a word (', U+2019)
          Ticks,       \* apostrophe-like characters that end a word (`, U+00B4)
          Dashes,      \* dash-like characters
          Joiners,     \* connectors inside a word (_)
          Marks,       \* combining marks that are not alphabetic (U+0301)
          Others,      \* white space and other punctuation
          Texts,       \* bound: the texts of the first stream
          Reused,      \* bound: texts before and after which streams are opened
          MaxStreams,  \* bound on the texts given to one tokenizer
          PositionMod  \* 2 to the width of usize

Chars == UNION {Letters, Ideographs, Modifiers, Quotes, Ticks, Dashes, Joiners,
                Marks, Others}

\* An alphanumeric character is no apostrophe of punctuation and no dash.
ASSUME ClassesAssumption ==
  (Letters \cup Ideographs \cup Modifiers) \cap (Quotes \cup Ticks \cup Dashes) = {}
ASSUME TextsAssumption == Texts \subseteq Seq(Chars) /\ Reused \subseteq Seq(Chars)
ASSUME PositionAssumption == PositionMod \in Nat \ {0}

is_alphanumeric(ch) == ch \in Letters \cup Ideographs \cup Modifiers
is_apostrophe_like(ch) == ch \in Quotes \cup Ticks \cup Modifiers
is_dash_like(ch) == ch \in Dashes

\* Mutant: nothing at all between two tokens counts as a run of apostrophes.
EmptyIsApostropheRun(sep) == \A i \in DOMAIN sep : is_apostrophe_like(sep[i])

separator_is_apostrophe_run(sep) ==
  sep # <<>> /\ \A i \in DOMAIN sep : is_apostrophe_like(sep[i])

\* Mutant: only a single dash is a run.
SingleDash(sep) == Len(sep) = 1 /\ is_dash_like(sep[1])

separator_is_dash_run(sep) == sep # <<>> /\ \A i \in DOMAIN sep : is_dash_like(sep[i])

-----------------------------------------------------------------------------
(* Words (external) *)

\* The nearest character at or before, and at or after, i that is no mark; 0
\* when there is none.
Before(text, i) == LET S == {j \in 1..i : text[j] \notin Marks}
                   IN  IF S = {} THEN 0 ELSE CHOOSE j \in S : \A k \in S : k <= j
After(text, i) == LET S == {j \in i..Len(text) : text[j] \notin Marks}
                  IN  IF S = {} THEN 0 ELSE CHOOSE j \in S : \A k \in S : k >= j

InClass(text, i, class) == i # 0 /\ text[i] \in class

ALetter == Letters \cup Modifiers

\* No word boundary between characters i and i + 1: rules WB4, WB5, WB6, WB7,
\* WB13a and WB13b.
Joined(text, i) ==
  LET p == Before(text, i)
  IN \/ text[i + 1] \in Marks
     \/ InClass(text, p, ALetter \cup Joiners) /\ text[i + 1] \in ALetter \cup Joiners
     \/ /\ InClass(text, p, ALetter) /\ text[i + 1] \in Quotes
        /\ InClass(text, After(text, i + 2), ALetter)
     \/ /\ InClass(text, p, Quotes) /\ text[i + 1] \in ALetter
        /\ InClass(text, Before(text, p - 1), ALetter)

\* The last character of the word that begins with character i.
WordEnd(text, i) == CHOOSE j \in i..Len(text) :
                      /\ \A k \in i..(j - 1) : Joined(text, k)
                      /\ j = Len(text) \/ ~Joined(text, j)

\* unicode_word_indices: the words that hold an alphanumeric character, as the
\* sequence of their first and last characters.
Words(text) ==
  LET first == InOrder({i \in 1..Len(text) :
                          /\ i = 1 \/ ~Joined(text, i - 1)
                          /\ \E k \in i..WordEnd(text, i) : is_alphanumeric(text[k])})
  IN  [n \in DOMAIN first |-> <<first[n], WordEnd(text, first[n])>>]

-----------------------------------------------------------------------------
(* Tokens *)

\* A PendingToken: its characters and the offsets it spans.
NoToken == [text |-> <<>>, from |-> 0, to |-> 0]

Separator(text, x, y) == SubSeq(text, x.to + 1, y.from)

\* y joined to the end of x.
Combine(x, y) == [text |-> x.text \o y.text, from |-> x.from, to |-> y.to]

\* State of the scan: the tokens so far and the one being built.
flush_pending_token(s) ==
  [tokens |-> IF s.current.text = <<>> THEN s.tokens ELSE Append(s.tokens, s.current),
   current |-> NoToken]

\* The scan of one character of a word.
Scan(text, word, s, i) ==
  LET prev_is_alnum == i > word[1] /\ is_alphanumeric(text[i - 1])
      next_is_alnum == i < word[2] /\ is_alphanumeric(text[i + 1])
      dropped == is_apostrophe_like(text[i]) /\ prev_is_alnum /\ next_is_alnum
  IN CASE dropped -> [s EXCEPT !.current.to = i]
       [] ~dropped /\ is_alphanumeric(text[i]) ->
            [s EXCEPT !.current = [text |-> Append(@.text, text[i]),
                                   from |-> IF @.text = <<>> THEN i - 1 ELSE @.from,
                                   to |-> i]]
       [] OTHER -> flush_pending_token(s)

split_word_tokens(text, word) ==
  LET scan[i \in (word[1] - 1)..word[2]] ==
        IF i = word[1] - 1 THEN [tokens |-> <<>>, current |-> NoToken]
        ELSE Scan(text, word, scan[i - 1], i)
  IN  flush_pending_token(scan[word[2]]).tokens

\* A token is joined to the one before it when only apostrophes part them.
Merge(text, tokens, token) ==
  IF tokens # <<>> /\ separator_is_apostrophe_run(Separator(text, Last(tokens), token))
  THEN Append(Front(tokens), Combine(Last(tokens), token))
  ELSE Append(tokens, token)

MergeWord(text, tokens, word) ==
  LET split == split_word_tokens(text, word)
      merged[n \in 0..Len(split)] ==
        IF n = 0 THEN tokens ELSE Merge(text, merged[n - 1], split[n])
  IN  merged[Len(split)]

merged_tokens(text) ==
  LET words == Words(text)
      merged[n \in 0..Len(words)] ==
        IF n = 0 THEN <<>> ELSE MergeWord(text, merged[n - 1], words[n])
  IN  merged[Len(words)]

\* Mutant: no compound at the end of a run.
EndRunSilently(s) == s.expanded

\* State of the expansion: the tokens so far, the run of tokens bridged by
\* dashes, and whether it has a bridge.
EndRun(s) == IF s.bridge THEN Append(s.expanded, s.run) ELSE s.expanded

\* Mutant: a run has two parts at most.
ExtendPairs(text, s, token) ==
  IF ~s.bridge /\ s.run # NoToken /\ separator_is_dash_run(Separator(text, s.run, token))
  THEN [expanded |-> Append(s.expanded, token), run |-> Combine(s.run, token),
        bridge |-> TRUE]
  ELSE [expanded |-> Append(EndRun(s), token), run |-> token, bridge |-> FALSE]

Extend(text, s, token) ==
  IF s.run # NoToken /\ separator_is_dash_run(Separator(text, s.run, token))
  THEN [expanded |-> Append(s.expanded, token), run |-> Combine(s.run, token),
        bridge |-> TRUE]
  ELSE [expanded |-> Append(EndRun(s), token), run |-> token, bridge |-> FALSE]

\* After the tokens of a run, the run as one token.
expand_dash_compounds(tokens, text) ==
  LET scan[n \in 0..Len(tokens)] ==
        IF n = 0 THEN [expanded |-> <<>>, run |-> NoToken, bridge |-> FALSE]
        ELSE Extend(text, scan[n - 1], tokens[n])
  IN  EndRun(scan[Len(tokens)])

tokenize_text(text) == expand_dash_compounds(merged_tokens(text), text)

-----------------------------------------------------------------------------
(* The stream *)

VARIABLES text,            \* what the current stream was opened on
          pending_tokens,  \* tokens it has not handed out
          position,        \* position of the token it shares with its tokenizer
          streams,         \* streams opened so far
          emitted,         \* auxiliary: the tokens it handed out
          opened           \* auxiliary: the position when it was opened

vars == <<text, pending_tokens, position, streams, emitted, opened>>

\* The tokenizer's token is the default one, whose position is usize::MAX.
Init ==
  /\ text = <<>> /\ pending_tokens = <<>>
  /\ position = PositionMod - 1
  /\ streams = 0
  /\ emitted = <<>> /\ opened = position

\* The token, and the position in it, stay as the last stream left them.
token_stream(t) ==
  /\ streams < MaxStreams
  /\ streams' = streams + 1
  /\ text' = t
  /\ pending_tokens' = tokenize_text(t)
  /\ emitted' = <<>> /\ opened' = position
  /\ UNCHANGED position

\* Mutant: the tokens come out last first.
AdvanceFromBack ==
  /\ pending_tokens # <<>>
  /\ pending_tokens' = Front(pending_tokens)
  /\ position' = (position + 1) % PositionMod
  /\ emitted' = Append(emitted, [token |-> Last(pending_tokens), position |-> position'])
  /\ UNCHANGED <<text, streams, opened>>

advance ==
  /\ pending_tokens # <<>>
  /\ pending_tokens' = Tail(pending_tokens)
  /\ position' = (position + 1) % PositionMod
  /\ emitted' = Append(emitted, [token |-> Head(pending_tokens), position |-> position'])
  /\ UNCHANGED <<text, streams, opened>>

\* What the next stream is opened on.
Inputs == IF streams = 0 THEN Texts ELSE IF text \in Reused THEN Reused ELSE {}

Next == (\E t \in Inputs : token_stream(t)) \/ advance

Spec == Init /\ [][Next]_vars

-----------------------------------------------------------------------------
(* Properties *)

\* Reference: two alphanumeric characters with none between them are in one
\* token when they are neighbours in one word or parted by apostrophes only.
Alnums == {i \in 1..Len(text) : is_alphanumeric(text[i])}

Run(i, j, class) == j > i + 1 /\ \A k \in (i + 1)..(j - 1) : text[k] \in class

Bonds == {p \in Alnums \X Alnums : \/ p[2] = p[1] + 1 /\ Joined(text, p[1])
                                   \/ Run(p[1], p[2], Quotes \cup Ticks)}

Bridges == {p \in Alnums \X Alnums : Run(p[1], p[2], Dashes)}

\* The longest spans from one position of P to another whose consecutive
\* members are all linked.
Spans(P, links) ==
  {s \in P \X P :
     /\ s[1] <= s[2]
     /\ \A k \in P \cap s[1]..(s[2] - 1) : \E j \in P \cap (k + 1)..s[2] : <<k, j>> \in links
     /\ ~ \E i \in P : i < s[1] /\ <<i, s[1]>> \in links
     /\ ~ \E i \in P : i > s[2] /\ <<s[2], i>> \in links}

TokenOf(s) == [text |-> Selected(text, Alnums \cap s[1]..s[2]),
               from |-> s[1] - 1, to |-> s[2]]

ReferenceTokens ==
  {TokenOf(s) : s \in Spans(Alnums, Bonds) \cup Spans(Alnums, Bonds \cup Bridges)}

\* The tokens are the words with their apostrophes dropped and, right after
\* its last part, each longest dash compound once; for texts without letters
\* that pass for apostrophes.
MatchesReference ==
  (\A i \in DOMAIN text : text[i] \notin Modifiers) =>
    LET tokens == tokenize_text(text)
    IN /\ ToSet(tokens) = ReferenceTokens
       /\ \A i, j \in DOMAIN tokens : i < j =>
            \/ tokens[i].to < tokens[j].to
            \/ tokens[i].to = tokens[j].to /\ tokens[i].from > tokens[j].from

\* Index and query agree on dashes: when every dash stands between letters,
\* ideographs or other dashes, the text written without them has no token that
\* the text written with them lacks.
DashesAreOptional ==
  LET Terms(t) == {x.text : x \in ToSet(tokenize_text(t))}
      Bridge(i) == i \in DOMAIN text /\ text[i] \in Letters \cup Ideographs \cup Dashes
  IN (\A i \in DOMAIN text : is_dash_like(text[i]) => Bridge(i - 1) /\ Bridge(i + 1)) =>
       Terms(SelectSeq(text, LAMBDA ch : ~is_dash_like(ch))) \subseteq Terms(text)

\* A stream hands out the tokens of its text in order and numbers them
\* consecutively from where its tokenizer's last stream stopped.
StreamInOrder ==
  /\ [i \in DOMAIN emitted |-> emitted[i].token] \o pending_tokens = tokenize_text(text)
  /\ \A i \in DOMAIN emitted : emitted[i].position = (opened + i) % PositionMod

\* What the comment at unicode_tokenizer.rs:112 says: an apostrophe-like
\* character in the middle of a token is dropped.
ApostrophesDropped ==
  \A i \in DOMAIN pending_tokens :
    LET x == pending_tokens[i].text
    IN  \A k \in 2..(Len(x) - 1) : ~is_apostrophe_like(x[k])
=============================================================================
