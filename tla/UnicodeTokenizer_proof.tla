----------------------- MODULE UnicodeTokenizer_proof -----------------------
(***************************************************************************)
(* Proofs about UnicodeTokenizer, for any classes of characters, any texts *)
(* and any number of streams.                                              *)
(*                                                                         *)
(* A relation between alphanumeric characters links neighbours: WordLinks  *)
(* what the scan of a word keeps together, Bonds what belongs to one token *)
(* of the reference, Links also what belongs to one compound.  Blocks says *)
(* that tokens are, in order, the longest linked spans of a stretch of the *)
(* text.  Each stage of the code has an invariant in these terms: the scan *)
(* makes the blocks of WordLinks (SplitBlocks), merging word by word those *)
(* of Bonds (MergedBlocks), and the expansion keeps these and builds those *)
(* of Links beside them (Expansion, TokensOfText).  Two longest spans that *)
(* share a character are equal (SpansMeet), so that the blocks of the      *)
(* whole text are all of the reference's spans (WholeText).                *)
(*                                                                         *)
(* The loops are recursive functions: a history of one (Iterate) has the   *)
(* value of the function at each step, and an invariant of the history is  *)
(* shown by induction over its steps (Upwards).                            *)
(***************************************************************************)
EXTENDS UnicodeTokenizer, Selection_proof, SequenceTheorems, WellFoundedInduction

Token == [text : Seq(Chars), from : Nat, to : Nat]

ScanState == [tokens : Seq(Token), current : Token]

ExtendState == [expanded : Seq(Token), run : Token, bridge : BOOLEAN]

-----------------------------------------------------------------------------
(* Division *)

\* Division with remainder.
LEMMA Remainder ==
  ASSUME NEW a \in Int, NEW M \in Nat \ {0}
  PROVE  \E q, r \in Int : r = a % M /\ 0 <= r /\ r < M /\ a = M * q + r
<1>1. a % M \in Int /\ 0 <= a % M /\ a % M < M
  OBVIOUS
<1>2. a \div M \in Int
  OBVIOUS
<1>3. a = M * (a \div M) + (a % M)
  OBVIOUS
<1> QED BY <1>1, <1>2, <1>3

\* The remainder is the only one.
LEMMA RemainderUnique ==
  ASSUME NEW p \in Int, NEW q \in Int, NEW r \in Int, NEW s \in Int, NEW M \in Nat \ {0},
         0 <= r, r < M, 0 <= s, s < M, M * p + r = M * q + s
  PROVE  r = s
OBVIOUS

\* Counting on from a remainder.
LEMMA RemainderNext ==
  ASSUME NEW a \in Int, NEW M \in Nat \ {0}
  PROVE  /\ a % M \in 0..(M - 1)
         /\ ((a % M) + 1) % M = (a + 1) % M
<1>1. PICK q, r \in Int : r = a % M /\ 0 <= r /\ r < M /\ a = M * q + r
  BY Remainder
<1>2. PICK b \in Int, c \in Int : b = r + 1 /\ c = a + 1
  OBVIOUS
<1>3. PICK q2, r2 \in Int : r2 = b % M /\ 0 <= r2 /\ r2 < M /\ b = M * q2 + r2
  BY Remainder
<1>4. PICK q3, r3 \in Int : r3 = c % M /\ 0 <= r3 /\ r3 < M /\ c = M * q3 + r3
  BY Remainder
<1>5. PICK p \in Int : p = q + q2
  OBVIOUS
<1>6. M * p + r2 = M * q3 + r3
  BY <1>1, <1>2, <1>3, <1>4, <1>5
<1>7. r2 = r3
  BY <1>3, <1>4, <1>6, RemainderUnique
<1>8. a % M \in 0..(M - 1)
  <2>1. a % M \in Int /\ 0 <= a % M /\ a % M < M
    OBVIOUS
  <2> QED BY <2>1
<1>9. (a % M) + 1 = b /\ a + 1 = c
  BY <1>1, <1>2
<1>10. b % M = c % M
  BY <1>3, <1>4, <1>7
<1> QED BY <1>8, <1>9, <1>10, Zenon

-----------------------------------------------------------------------------
(* The loops of the code *)

\* Flushing keeps the type of the state of the scan.
LEMMA FlushType == ASSUME NEW s \in ScanState PROVE flush_pending_token(s) \in ScanState
<1>1. NoToken \in Token
  BY DEF NoToken, Token
<1>2. s.tokens \in Seq(Token) /\ s.current \in Token
  BY DEF ScanState
<1>3. (IF s.current.text = <<>> THEN s.tokens ELSE Append(s.tokens, s.current)) \in Seq(Token)
  <2> HIDE DEF Token
  <2> QED BY <1>2
<1> QED BY <1>1, <1>3 DEF flush_pending_token, ScanState

\* The scan of a word has a history.
LEMMA ScanHistory ==
  ASSUME NEW t \in Seq(Chars), NEW w \in Nat \X Nat, 1 <= w[1], w[1] <= w[2], w[2] <= Len(t)
  PROVE  \E f \in [(w[1] - 1)..w[2] -> ScanState] :
           /\ f[w[1] - 1] = [tokens |-> <<>>, current |-> NoToken]
           /\ \A i \in w[1]..w[2] : f[i] = Scan(t, w, f[i - 1], i)
           /\ split_word_tokens(t, w) = flush_pending_token(f[w[2]]).tokens
<1> DEFINE lo == w[1] - 1
           hi == w[2]
           base == [tokens |-> <<>>, current |-> NoToken]
           step == [p \in ((lo + 1)..hi) \X ScanState |-> Scan(t, w, p[2], p[1])]
           P(f) == f = [i \in lo..hi |-> IF i = lo THEN base ELSE Scan(t, w, f[i - 1], i)]
<1>1. lo \in Nat /\ hi \in Nat /\ lo <= hi /\ w[1] = lo + 1
  OBVIOUS
<1>2. base \in ScanState
  BY DEF ScanState, Token, NoToken
<1>3. \A i \in (lo + 1)..hi : \A s \in ScanState : Scan(t, w, s, i) \in ScanState
  <2> TAKE i \in (lo + 1)..hi
  <2> TAKE s \in ScanState
  <2>1. i \in 1..Len(t) /\ t[i] \in Chars /\ i - 1 \in Nat /\ i \in Nat
    OBVIOUS
  <2>2. flush_pending_token(s) \in ScanState
    BY FlushType
  <2>3. s.current \in Token /\ s.tokens \in Seq(Token) /\ s.current.text \in Seq(Chars)
        /\ s.current.from \in Nat
    BY DEF ScanState, Token
  <2>4. [s EXCEPT !.current.to = i] \in ScanState
    BY <2>1 DEF ScanState, Token
  <2>5. ASSUME NEW x \in Nat
        PROVE  [s EXCEPT !.current = [text |-> Append(s.current.text, t[i]), from |-> x, to |-> i]]
                 \in ScanState
    <3>1. [text |-> Append(s.current.text, t[i]), from |-> x, to |-> i] \in Token
      BY <2>1, <2>3 DEF Token
    <3> HIDE DEF Token
    <3> QED BY <3>1 DEF ScanState
  <2> QED BY <2>1, <2>2, <2>3, <2>4, <2>5 DEF Scan
<1>4. /\ step \in [((lo + 1)..hi) \X ScanState -> ScanState]
      /\ \A i \in (lo + 1)..hi : \A s \in ScanState : step[<<i, s>>] = Scan(t, w, s, i)
  BY <1>3
<1>5. Loop(lo, hi, ScanState, base, step)
  <2> HIDE DEF lo, hi, base, step
  <2> QED BY <1>1, <1>2, <1>4 DEF Loop
<1>6. PICK f : History(f, lo, hi, ScanState, base, step)
  <2> HIDE DEF lo, hi, base, step
  <2> QED BY <1>5, Iterate
<1>7. /\ f \in [lo..hi -> ScanState] /\ f[lo] = base
      /\ \A i \in (lo + 1)..hi : f[i] = step[<<i, f[i - 1]>>]
  <2> HIDE DEF lo, hi, base, step
  <2> QED BY <1>6 DEF History
<1>8. \A i \in (lo + 1)..hi : f[i - 1] \in ScanState /\ f[i] = Scan(t, w, f[i - 1], i)
  <2> HIDE DEF hi, base, step
  <2>1. \A i \in (lo + 1)..hi : i - 1 \in lo..hi
    BY <1>1
  <2> HIDE DEF lo
  <2> QED BY <1>4, <1>7, <2>1
<1>9. P(f)
  <2> HIDE DEF base, step
  <2>1. \A i \in lo..hi : i # lo => i \in (lo + 1)..hi
    BY <1>1
  <2> HIDE DEF lo, hi
  <2> QED BY <1>7, <1>8, <2>1
<1>10. P(CHOOSE h : P(h))
  <2> HIDE DEF P
  <2> QED BY <1>9
<1>11. PICK h : h = (CHOOSE g : P(g))
  OBVIOUS
<1>12. split_word_tokens(t, w) = flush_pending_token(h[w[2]]).tokens
  BY <1>11 DEF split_word_tokens
<1>13. P(h)
  <2> HIDE DEF P
  <2> QED BY <1>10, <1>11
<1>14. h[lo] = base /\ \A i \in (lo + 1)..hi : h[i] = Scan(t, w, h[i - 1], i)
  <2>1. lo \in lo..hi /\ \A i \in (lo + 1)..hi : i \in lo..hi /\ i # lo
    BY <1>1
  <2> HIDE DEF lo, hi, base
  <2> QED BY <1>13, <2>1
<1>15. \A i \in lo..hi : i \in {n \in lo..hi : h[n] \in ScanState}
  <2>1. lo \in {n \in lo..hi : h[n] \in ScanState}
    BY <1>1, <1>2, <1>14
  <2>2. ASSUME NEW i \in (lo + 1)..hi, i - 1 \in {n \in lo..hi : h[n] \in ScanState}
        PROVE  i \in {n \in lo..hi : h[n] \in ScanState}
    <3>1. i \in lo..hi
      OBVIOUS
    <3> QED BY <1>3, <1>14, <2>2, <3>1
  <2> HIDE DEF lo, hi
  <2> QED BY <1>1, <2>1, <2>2, Upwards
<1>16. h \in [lo..hi -> ScanState]
  <2> HIDE DEF lo, hi, base
  <2> QED BY <1>13, <1>15
<1>17. /\ h \in [(w[1] - 1)..w[2] -> ScanState]
       /\ h[w[1] - 1] = [tokens |-> <<>>, current |-> NoToken]
  BY <1>14, <1>16
<1>18. \A i \in w[1]..w[2] : h[i] = Scan(t, w, h[i - 1], i)
  <2>1. \A i \in w[1]..w[2] : i \in (lo + 1)..hi
    BY <1>1
  <2> HIDE DEF lo, hi, base
  <2> QED BY <1>14, <2>1
<1> QED BY <1>12, <1>17, <1>18

\* One token joined or added.
LEMMA MergeType ==
  ASSUME NEW t, NEW ts \in Seq(Token), NEW y \in Token
  PROVE  Merge(t, ts, y) \in Seq(Token)
<1>1. Append(ts, y) \in Seq(Token)
  <2> HIDE DEF Token
  <2> QED OBVIOUS
<1>2. CASE ts # <<>>
  <2>1. Last(ts) \in Token /\ Front(ts) \in Seq(Token)
    <3> HIDE DEF Token
    <3> QED BY <1>2 DEF Last, Front
  <2>2. Combine(Last(ts), y) \in Token
    BY <2>1 DEF Combine, Token
  <2>3. Append(Front(ts), Combine(Last(ts), y)) \in Seq(Token)
    <3> HIDE DEF Token
    <3> QED BY <2>1, <2>2
  <2> QED BY <1>1, <2>3 DEF Merge
<1> QED BY <1>1, <1>2 DEF Merge

\* A history of merging the tokens of a word.
WordMerged(f, t, ts, w, ys) ==
  /\ f \in [0..Len(ys) -> Seq(Token)] /\ f[0] = ts
  /\ \A i \in 1..Len(ys) : f[i] = Merge(t, f[i - 1], ys[i])
  /\ MergeWord(t, ts, w) = f[Len(ys)]

\* There is one.
LEMMA MergeWordHistory ==
  ASSUME NEW t \in Seq(Chars), NEW ts \in Seq(Token), NEW w, NEW ys \in Seq(Token),
         ys = split_word_tokens(t, w)
  PROVE  \E f : WordMerged(f, t, ts, w, ys)
<1> DEFINE hi == Len(ys)
           base == ts
           step == [p \in (1..hi) \X Seq(Token) |-> Merge(t, p[2], ys[p[1]])]
           P(f) == f = [i \in 0..hi |-> IF i = 0 THEN base ELSE Merge(t, f[i - 1], ys[i])]
<1>1. hi \in Nat /\ 0 + 1 = 1
  OBVIOUS
<1>2. base \in Seq(Token)
  OBVIOUS
<1>3. \A i \in 1..hi : \A s \in Seq(Token) : Merge(t, s, ys[i]) \in Seq(Token)
  <2> HIDE DEF Token
  <2>1. \A i \in 1..hi : ys[i] \in Token
    OBVIOUS
  <2> QED BY <2>1, MergeType
<1>4. \A i \in 1..hi : \A s \in Seq(Token) :
        step[<<i, s>>] = Merge(t, s, ys[i]) /\ step[<<i, s>>] \in Seq(Token)
  BY <1>3
<1>5. Loop(0, hi, Seq(Token), base, step)
  <2> HIDE DEF hi, base, step
  <2> QED BY <1>1, <1>2, <1>4 DEF Loop
<1>6. PICK f : History(f, 0, hi, Seq(Token), base, step)
  <2> HIDE DEF hi, base, step
  <2> QED BY <1>5, Iterate
<1>7. /\ f \in [0..hi -> Seq(Token)] /\ f[0] = base
      /\ \A i \in 1..hi : f[i] = Merge(t, f[i - 1], ys[i])
  <2> HIDE DEF hi, base, step
  <2>1. \A i \in 1..hi : i - 1 \in 0..hi
    BY <1>1
  <2> QED BY <1>1, <1>4, <1>6, <2>1 DEF History
<1>8. P(f)
  <2> HIDE DEF hi, base, step
  <2>1. \A i \in 0..hi : i # 0 => i \in 1..hi
    BY <1>1
  <2> QED BY <1>7, <2>1
<1>9. PICK h : h = (CHOOSE g : P(g))
  OBVIOUS
<1>10. MergeWord(t, ts, w) = h[Len(ys)]
  BY <1>9 DEF MergeWord
<1>11. P(h)
  <2> HIDE DEF P
  <2> QED BY <1>8, <1>9
<1>12. h[0] = base /\ \A i \in 1..hi : h[i] = Merge(t, h[i - 1], ys[i])
  <2>1. 0 \in 0..hi /\ \A i \in 1..hi : i \in 0..hi /\ i # 0
    BY <1>1
  <2> HIDE DEF hi, base
  <2> QED BY <1>11, <2>1
<1>13. \A i \in 0..hi : h[i] \in Seq(Token)
  <2> DEFINE T == {n \in 0..hi : h[n] \in Seq(Token)}
  <2> HIDE DEF hi, base
  <2>1. 0 \in T /\ 0 \in Nat /\ 0 <= hi
    BY <1>1, <1>2, <1>12
  <2>2. ASSUME NEW i \in (0 + 1)..hi, i - 1 \in T PROVE i \in T
    <3>1. i \in 1..hi /\ i \in 0..hi /\ h[i - 1] \in Seq(Token)
      BY <1>1, <2>2
    <3> QED BY <1>3, <1>12, <3>1
  <2>3. \A i \in 0..hi : i \in T
    <3> HIDE DEF T
    <3> QED BY <1>1, <2>1, <2>2, Upwards
  <2> QED BY <2>3
<1>14. h \in [0..hi -> Seq(Token)]
  <2> HIDE DEF hi, base
  <2> QED BY <1>11, <1>13
<1>15. WordMerged(h, t, ts, w, ys)
  BY <1>10, <1>12, <1>14 DEF WordMerged
<1> QED BY <1>15

\* Where the words of a text are.
Placed(t, ws) ==
  \A n \in 1..Len(ws) : /\ ws[n] \in Nat \X Nat
                         /\ 1 <= ws[n][1] /\ ws[n][1] <= ws[n][2] /\ ws[n][2] <= Len(t)

\* The tokens of a word are tokens.
LEMMA SplitType ==
  ASSUME NEW t \in Seq(Chars), NEW w \in Nat \X Nat, 1 <= w[1], w[1] <= w[2], w[2] <= Len(t)
  PROVE  split_word_tokens(t, w) \in Seq(Token)
<1>1. PICK f \in [(w[1] - 1)..w[2] -> ScanState] :
           split_word_tokens(t, w) = flush_pending_token(f[w[2]]).tokens
  BY ScanHistory
<1>2. f[w[2]] \in ScanState
  OBVIOUS
<1> QED BY <1>1, <1>2, FlushType DEF ScanState

\* So are those of a word merged to the tokens before it.
LEMMA MergeWordType ==
  ASSUME NEW t \in Seq(Chars), NEW ts \in Seq(Token),
         NEW w \in Nat \X Nat, 1 <= w[1], w[1] <= w[2], w[2] <= Len(t)
  PROVE  MergeWord(t, ts, w) \in Seq(Token)
<1>1. PICK ys \in Seq(Token) : ys = split_word_tokens(t, w)
  BY SplitType
<1>2. PICK f \in [0..Len(ys) -> Seq(Token)] : MergeWord(t, ts, w) = f[Len(ys)]
  BY SMTT(60), <1>1, MergeWordHistory DEF WordMerged
<1> QED BY <1>2

\* The loop over the words.
LEMMA MergedHistory ==
  ASSUME NEW t \in Seq(Chars), NEW ws, Len(ws) \in Nat, ws = Words(t), Placed(t, ws)
  PROVE  \E f \in [0..Len(ws) -> Seq(Token)] :
           /\ f[0] = <<>>
           /\ \A i \in 1..Len(ws) : f[i] = MergeWord(t, f[i - 1], ws[i])
           /\ merged_tokens(t) = f[Len(ws)]
<1> DEFINE hi == Len(ws)
           base == <<>>
           step == [p \in (1..hi) \X Seq(Token) |-> MergeWord(t, p[2], ws[p[1]])]
           P(f) == f = [i \in 0..hi |-> IF i = 0 THEN base ELSE MergeWord(t, f[i - 1], ws[i])]
<1>1. hi \in Nat /\ 0 + 1 = 1
  OBVIOUS
<1>2. base \in Seq(Token)
  OBVIOUS
<1>3. \A i \in 1..hi : \A s \in Seq(Token) : MergeWord(t, s, ws[i]) \in Seq(Token)
  <2> HIDE DEF Token
  <2> QED BY MergeWordType DEF Placed
<1>4. \A i \in 1..hi : \A s \in Seq(Token) :
        step[<<i, s>>] = MergeWord(t, s, ws[i]) /\ step[<<i, s>>] \in Seq(Token)
  BY <1>3
<1>5. Loop(0, hi, Seq(Token), base, step)
  <2> HIDE DEF hi, base, step
  <2> QED BY <1>1, <1>2, <1>4 DEF Loop
<1>6. PICK f : History(f, 0, hi, Seq(Token), base, step)
  <2> HIDE DEF hi, base, step
  <2> QED BY <1>5, Iterate
<1>7. /\ f \in [0..hi -> Seq(Token)] /\ f[0] = base
      /\ \A i \in 1..hi : f[i] = MergeWord(t, f[i - 1], ws[i])
  <2> HIDE DEF hi, base, step
  <2>1. \A i \in 1..hi : i - 1 \in 0..hi
    BY <1>1
  <2> QED BY <1>1, <1>4, <1>6, <2>1 DEF History
<1>8. P(f)
  <2> HIDE DEF hi, base, step
  <2>1. \A i \in 0..hi : i # 0 => i \in 1..hi
    BY <1>1
  <2> QED BY <1>7, <2>1
<1>9. PICK h : h = (CHOOSE g : P(g))
  OBVIOUS
<1>10. merged_tokens(t) = h[Len(ws)]
  BY <1>9 DEF merged_tokens
<1>11. P(h)
  <2> HIDE DEF P
  <2> QED BY <1>8, <1>9
<1>12. h[0] = base /\ \A i \in 1..hi : h[i] = MergeWord(t, h[i - 1], ws[i])
  <2>1. 0 \in 0..hi /\ \A i \in 1..hi : i \in 0..hi /\ i # 0
    BY <1>1
  <2> HIDE DEF hi, base
  <2> QED BY <1>11, <2>1
<1>13. \A i \in 0..hi : h[i] \in Seq(Token)
  <2> DEFINE T == {n \in 0..hi : h[n] \in Seq(Token)}
  <2> HIDE DEF hi, base
  <2>1. 0 \in T /\ 0 \in Nat /\ 0 <= hi
    BY <1>1, <1>2, <1>12
  <2>2. ASSUME NEW i \in (0 + 1)..hi, i - 1 \in T PROVE i \in T
    <3>1. i \in 1..hi /\ i \in 0..hi /\ h[i - 1] \in Seq(Token)
      BY <1>1, <2>2
    <3> QED BY <1>3, <1>12, <3>1
  <2>3. \A i \in 0..hi : i \in T
    <3> HIDE DEF T
    <3> QED BY <1>1, <2>1, <2>2, Upwards
  <2> QED BY <2>3
<1>14. h \in [0..hi -> Seq(Token)]
  <2> HIDE DEF hi, base
  <2> QED BY <1>11, <1>13
<1> QED BY <1>10, <1>12, <1>14


\* Ending a run, too, leaves tokens.
LEMMA EndRunType == ASSUME NEW s \in ExtendState PROVE EndRun(s) \in Seq(Token)
<1>1. s.expanded \in Seq(Token) /\ s.run \in Token
  BY DEF ExtendState
<1> HIDE DEF Token
<1> QED BY <1>1 DEF EndRun

\* One token more in a run, or the first of the next.
LEMMA ExtendType ==
  ASSUME NEW t, NEW s \in ExtendState, NEW y \in Token
  PROVE  Extend(t, s, y) \in ExtendState
<1>1. s.expanded \in Seq(Token) /\ s.run \in Token
  BY DEF ExtendState
<1>2. Combine(s.run, y) \in Token
  BY <1>1 DEF Combine, Token
<1>3. Append(s.expanded, y) \in Seq(Token) /\ Append(EndRun(s), y) \in Seq(Token)
  <2> HIDE DEF Token
  <2> QED BY <1>1, EndRunType
<1> HIDE DEF Token
<1> QED BY <1>1, <1>2, <1>3 DEF Extend, ExtendState

\* The loop over the merged tokens.
LEMMA ExtendHistory ==
  ASSUME NEW t, NEW ts \in Seq(Token)
  PROVE  \E f \in [0..Len(ts) -> ExtendState] :
           /\ f[0] = [expanded |-> <<>>, run |-> NoToken, bridge |-> FALSE]
           /\ \A i \in 1..Len(ts) : f[i] = Extend(t, f[i - 1], ts[i])
           /\ expand_dash_compounds(ts, t) = EndRun(f[Len(ts)])
<1> DEFINE hi == Len(ts)
           base == [expanded |-> <<>>, run |-> NoToken, bridge |-> FALSE]
           step == [p \in (1..hi) \X ExtendState |-> Extend(t, p[2], ts[p[1]])]
           P(f) == f = [i \in 0..hi |-> IF i = 0 THEN base ELSE Extend(t, f[i - 1], ts[i])]
<1>1. hi \in Nat /\ 0 + 1 = 1
  OBVIOUS
<1>2. base \in ExtendState
  BY DEF ExtendState, Token, NoToken
<1>3. \A i \in 1..hi : \A s \in ExtendState : Extend(t, s, ts[i]) \in ExtendState
  <2>1. \A i \in 1..hi : ts[i] \in Token
    OBVIOUS
  <2> QED BY <2>1, ExtendType
<1>4. \A i \in 1..hi : \A s \in ExtendState :
        step[<<i, s>>] = Extend(t, s, ts[i]) /\ step[<<i, s>>] \in ExtendState
  BY <1>3
<1>5. Loop(0, hi, ExtendState, base, step)
  <2> HIDE DEF hi, base, step
  <2> QED BY <1>1, <1>2, <1>4 DEF Loop
<1>6. PICK f : History(f, 0, hi, ExtendState, base, step)
  <2> HIDE DEF hi, base, step
  <2> QED BY <1>5, Iterate
<1>7. /\ f \in [0..hi -> ExtendState] /\ f[0] = base
      /\ \A i \in 1..hi : f[i] = Extend(t, f[i - 1], ts[i])
  <2> HIDE DEF hi, base, step
  <2>1. \A i \in 1..hi : i - 1 \in 0..hi
    BY <1>1
  <2> QED BY <1>1, <1>4, <1>6, <2>1 DEF History
<1>8. P(f)
  <2> HIDE DEF hi, base, step
  <2>1. \A i \in 0..hi : i # 0 => i \in 1..hi
    BY <1>1
  <2> QED BY <1>7, <2>1
<1>9. PICK h : h = (CHOOSE g : P(g))
  OBVIOUS
<1>10. expand_dash_compounds(ts, t) = EndRun(h[Len(ts)])
  BY <1>9 DEF expand_dash_compounds
<1>11. P(h)
  <2> HIDE DEF P
  <2> QED BY <1>8, <1>9
<1>12. h[0] = base /\ \A i \in 1..hi : h[i] = Extend(t, h[i - 1], ts[i])
  <2>1. 0 \in 0..hi /\ \A i \in 1..hi : i \in 0..hi /\ i # 0
    BY <1>1
  <2> HIDE DEF hi, base
  <2> QED BY <1>11, <2>1
<1>13. \A i \in 0..hi : h[i] \in ExtendState
  <2> DEFINE T == {n \in 0..hi : h[n] \in ExtendState}
  <2> HIDE DEF hi, base
  <2>1. 0 \in T /\ 0 \in Nat /\ 0 <= hi
    BY <1>1, <1>2, <1>12
  <2>2. ASSUME NEW i \in (0 + 1)..hi, i - 1 \in T PROVE i \in T
    <3>1. i \in 1..hi /\ i \in 0..hi /\ h[i - 1] \in ExtendState
      BY <1>1, <2>2
    <3> QED BY <1>3, <1>12, <3>1
  <2>3. \A i \in 0..hi : i \in T
    <3> HIDE DEF T
    <3> QED BY <1>1, <2>1, <2>2, Upwards
  <2> QED BY <2>3
<1>14. h \in [0..hi -> ExtendState]
  <2> HIDE DEF hi, base
  <2> QED BY <1>11, <1>13
<1> QED BY <1>10, <1>12, <1>14

-----------------------------------------------------------------------------
(* Blocks *)

\* The span of a token.
SpanOf(x) == <<x.from + 1, x.to>>

\* Links are between neighbours.
Neighbours(links) ==
  /\ links \subseteq Alnums \X Alnums
  /\ \A p \in links : p[1] < p[2] /\ \A k \in Alnums : ~(p[1] < k /\ k < p[2])

\* The members from d to e are linked.
Connected(d, e, links) ==
  \A k \in Alnums \cap d..(e - 1) : \E j \in Alnums \cap (k + 1)..e : <<k, j>> \in links

\* The tokens are the longest linked spans from lo to hi, in order.
Blocks(ts, lo, hi, links) ==
  /\ ts \in Seq(Token)
  /\ \A m \in 1..Len(ts) : /\ SpanOf(ts[m]) \in Spans(Alnums \cap lo..hi, links)
                           /\ ts[m] = TokenOf(SpanOf(ts[m]))
  /\ \A m, n \in 1..Len(ts) : m < n => ts[m].to <= ts[n].from
  /\ \A k \in Alnums \cap lo..hi : \E m \in 1..Len(ts) : ts[m].from < k /\ k <= ts[m].to

\* The alphanumeric characters are positions of the text.
LEMMA AlnumFacts ==
  ASSUME text \in Seq(Chars)
  PROVE  /\ Len(text) \in Nat /\ DOMAIN text = 1..Len(text)
         /\ Alnums \subseteq 1..Len(text) /\ Alnums \subseteq DOMAIN text
         /\ Alnums \subseteq Nat /\ \A i \in Alnums : i \in Int /\ i >= 1
         /\ \A i \in 1..Len(text) : i \in Alnums <=> is_alphanumeric(text[i])
  BY DEF Alnums

\* A span that the next alphanumeric character is not linked to stays longest.
LEMMA SpanKept ==
  ASSUME text \in Seq(Chars), NEW L, Neighbours(L), NEW lo \in Int, NEW c \in Int,
         NEW s \in Spans(Alnums \cap lo..c, L), NEW d \in Alnums, NEW e \in Int,
         c < d, d <= e, \A k \in Alnums : ~(c < k /\ k < d), <<s[2], d>> \notin L
  PROVE  s \in Spans(Alnums \cap lo..e, L)
<1>1. \A i \in Alnums : i \in Int
  BY AlnumFacts
<1>2. /\ s \in (Alnums \cap lo..c) \X (Alnums \cap lo..c) /\ s[1] <= s[2]
      /\ \A k \in (Alnums \cap lo..c) \cap s[1]..(s[2] - 1) :
           \E j \in (Alnums \cap lo..c) \cap (k + 1)..s[2] : <<k, j>> \in L
      /\ ~ \E i \in Alnums \cap lo..c : i < s[1] /\ <<i, s[1]>> \in L
      /\ ~ \E i \in Alnums \cap lo..c : i > s[2] /\ <<s[2], i>> \in L
  BY DEF Spans
<1>3. s \in (Alnums \cap lo..e) \X (Alnums \cap lo..e) /\ s[1] \in Int /\ s[2] \in Int /\ s[2] <= c
  BY <1>1, <1>2
<1>4. ASSUME NEW k \in (Alnums \cap lo..e) \cap s[1]..(s[2] - 1)
      PROVE  \E j \in (Alnums \cap lo..e) \cap (k + 1)..s[2] : <<k, j>> \in L
  <2>1. k \in (Alnums \cap lo..c) \cap s[1]..(s[2] - 1)
    BY <1>3
  <2>2. PICK j \in (Alnums \cap lo..c) \cap (k + 1)..s[2] : <<k, j>> \in L
    BY <1>2, <2>1
  <2>3. j \in lo..e
    BY <1>1
  <2> QED BY <2>2, <2>3
<1>5. ASSUME NEW i \in Alnums \cap lo..e, i < s[1], <<i, s[1]>> \in L PROVE FALSE
  <2>1. i \in lo..c
    BY <1>1, <1>2, <1>3, <1>5
  <2> QED BY <1>2, <1>5, <2>1
<1>6. ASSUME NEW i \in Alnums \cap lo..e, i > s[2], <<s[2], i>> \in L PROVE FALSE
  <2>1. i \notin lo..c
    BY <1>2, <1>6
  <2>2. i > c /\ i # d
    BY <1>1, <1>6, <2>1
  <2>3. d < i /\ s[2] < d
    BY <1>1, <1>3, <2>2
  <2>4. ~(s[2] < d /\ d < i)
    BY <1>6 DEF Neighbours
  <2> QED BY <2>3, <2>4
<1> QED BY <1>2, <1>3, <1>4, <1>5, <1>6 DEF Spans

\* A connected stretch that nothing before it is linked to is a span of its own.
LEMMA SpanAdded ==
  ASSUME text \in Seq(Chars), NEW L, NEW lo \in Int, NEW c \in Int,
         NEW d \in Alnums, NEW e \in Alnums,
         lo <= d, d <= e, \A k \in Alnums : ~(c < k /\ k < d),
         Connected(d, e, L), \A k \in Alnums \cap lo..c : <<k, d>> \notin L
  PROVE  <<d, e>> \in Spans(Alnums \cap lo..e, L)
<1>1. \A i \in Alnums : i \in Int
  BY AlnumFacts
<1>2. <<d, e>> \in (Alnums \cap lo..e) \X (Alnums \cap lo..e)
  BY <1>1
<1>3. ASSUME NEW k \in (Alnums \cap lo..e) \cap d..(e - 1)
      PROVE  \E j \in (Alnums \cap lo..e) \cap (k + 1)..e : <<k, j>> \in L
  <2>1. PICK j \in Alnums \cap (k + 1)..e : <<k, j>> \in L
    BY DEF Connected
  <2>2. j \in lo..e
    BY <1>1
  <2> QED BY <2>1, <2>2
<1>4. ASSUME NEW i \in Alnums \cap lo..e, i < d PROVE <<i, d>> \notin L
  <2>1. i \in lo..c
    BY <1>1, <1>4
  <2> QED BY <2>1
<1>5. ASSUME NEW i \in Alnums \cap lo..e, i > e PROVE FALSE
  BY <1>1, <1>5
<1> QED BY <1>2, <1>3, <1>4, <1>5 DEF Spans

\* A connected stretch that the last span is linked to makes that span longer.
LEMMA SpanJoined ==
  ASSUME text \in Seq(Chars), NEW L, Neighbours(L), NEW lo \in Int, NEW c \in Int,
         NEW s \in Spans(Alnums \cap lo..c, L), NEW d \in Alnums, NEW e \in Alnums,
         c < d, d <= e, Connected(d, e, L), <<s[2], d>> \in L
  PROVE  <<s[1], e>> \in Spans(Alnums \cap lo..e, L)
<1>1. \A i \in Alnums : i \in Int
  BY AlnumFacts
<1>2. /\ s \in (Alnums \cap lo..c) \X (Alnums \cap lo..c) /\ s[1] <= s[2]
      /\ \A k \in (Alnums \cap lo..c) \cap s[1]..(s[2] - 1) :
           \E j \in (Alnums \cap lo..c) \cap (k + 1)..s[2] : <<k, j>> \in L
      /\ ~ \E i \in Alnums \cap lo..c : i < s[1] /\ <<i, s[1]>> \in L
  BY DEF Spans
<1>3. /\ <<s[1], e>> \in (Alnums \cap lo..e) \X (Alnums \cap lo..e) /\ s[1] \in Int /\ s[2] \in Int
      /\ s[2] < d /\ s[1] <= e /\ s[1] < d /\ lo <= s[1] /\ s[2] <= c
  BY <1>1, <1>2
<1>4. ASSUME NEW k \in (Alnums \cap lo..e) \cap s[1]..(e - 1)
      PROVE  \E j \in (Alnums \cap lo..e) \cap (k + 1)..e : <<k, j>> \in L
  <2>1. ~(s[2] < k /\ k < d)
    BY DEF Neighbours
  <2>2. CASE k < s[2]
    <3>1. k \in (Alnums \cap lo..c) \cap s[1]..(s[2] - 1)
      BY <1>1, <1>3, <2>2
    <3>2. PICK j \in (Alnums \cap lo..c) \cap (k + 1)..s[2] : <<k, j>> \in L
      BY <1>2, <3>1
    <3>3. j \in lo..e /\ j \in (k + 1)..e
      BY <1>1, <1>3
    <3> QED BY <3>2, <3>3
  <2>3. CASE k = s[2]
    <3>1. d \in (Alnums \cap lo..e) \cap (k + 1)..e
      BY <1>1, <1>3, <2>3
    <3> QED BY <2>3, <3>1
  <2>4. CASE d <= k
    <3>1. k \in Alnums \cap d..(e - 1)
      BY <1>1, <2>4
    <3>2. PICK j \in Alnums \cap (k + 1)..e : <<k, j>> \in L
      BY <3>1 DEF Connected
    <3>3. j \in lo..e
      BY <1>1
    <3> QED BY <3>2, <3>3
  <2>5. k \in Int /\ d \in Int
    BY <1>1
  <2> QED BY SMTT(60), <1>3, <2>1, <2>2, <2>3, <2>4, <2>5
<1>5. ASSUME NEW i \in Alnums \cap lo..e, i < s[1], <<i, s[1]>> \in L PROVE FALSE
  <2>1. i \in lo..c
    BY <1>1, <1>2, <1>3, <1>5
  <2> QED BY <1>2, <1>5, <2>1
<1>6. ASSUME NEW i \in Alnums \cap lo..e, i > e PROVE FALSE
  BY <1>1, <1>6
<1> QED BY <1>3, <1>4, <1>5, <1>6 DEF Spans

\* The tokens of a block, in their parts.
LEMMA BlockFacts ==
  ASSUME text \in Seq(Chars), NEW ts, NEW lo \in Int, NEW c \in Int, NEW L, Blocks(ts, lo, c, L),
         NEW m \in 1..Len(ts)
  PROVE  /\ Len(ts) \in Nat /\ ts[m] \in Token /\ ts[m].from \in Nat /\ ts[m].to \in Nat
         /\ ts[m].from + 1 \in Alnums /\ ts[m].to \in Alnums
         /\ ts[m].from + 1 >= lo /\ ts[m].from < ts[m].to /\ ts[m].to <= c
<1>1. ts[m] \in Token /\ Len(ts) \in Nat
  <2> HIDE DEF Token
  <2> QED BY DEF Blocks
<1>2. SpanOf(ts[m]) \in Spans(Alnums \cap lo..c, L)
  BY DEF Blocks
<1>3. /\ ts[m].from + 1 \in Alnums \cap lo..c /\ ts[m].to \in Alnums \cap lo..c
      /\ ts[m].from + 1 <= ts[m].to
  BY <1>2 DEF Spans, SpanOf
<1>4. ts[m].from \in Nat /\ ts[m].to \in Nat
  BY <1>1 DEF Token
<1> QED BY <1>1, <1>3, <1>4

\* The token of a span is a token, and has that span.
LEMMA TokenOfType ==
  ASSUME text \in Seq(Chars), NEW d \in Alnums, NEW e \in Alnums
  PROVE  /\ TokenOf(<<d, e>>) \in Token /\ SpanOf(TokenOf(<<d, e>>)) = <<d, e>>
         /\ TokenOf(<<d, e>>).from = d - 1 /\ TokenOf(<<d, e>>).to = e
         /\ TokenOf(<<d, e>>).text = Selected(text, Alnums \cap d..e)
<1>1. Alnums \cap d..e \in SUBSET (DOMAIN text) /\ d \in Nat /\ d >= 1 /\ e \in Nat
  BY AlnumFacts
<1>2. Selected(text, Alnums \cap d..e) \in Seq(Chars)
  BY <1>1, SelectedElements
<1>3. TokenOf(<<d, e>>) = [text |-> Selected(text, Alnums \cap d..e), from |-> d - 1, to |-> e]
  BY DEF TokenOf
<1>4. d - 1 \in Nat /\ (d - 1) + 1 = d
  BY <1>1
<1>5. PICK v, b, z :
        /\ v \in Seq(Chars) /\ b \in Nat
        /\ v = Selected(text, Alnums \cap d..e) /\ b = d - 1 /\ b + 1 = d
        /\ z = TokenOf(<<d, e>>) /\ z = [text |-> v, from |-> b, to |-> e]
  BY <1>2, <1>3, <1>4
<1>6. z \in Token /\ z.text = v /\ z.from = b /\ z.to = e
  BY <1>1, <1>5 DEF Token
<1>7. SpanOf(z) = <<d, e>>
  BY <1>5, <1>6 DEF SpanOf
<1> QED BY <1>5, <1>6, <1>7

\* A token after the others, not linked to them.
LEMMA BlockAdded ==
  ASSUME text \in Seq(Chars), NEW ts, NEW lo \in Int, NEW c \in Int, NEW L,
         Neighbours(L), Blocks(ts, lo, c, L), NEW d \in Alnums, NEW e \in Alnums,
         lo <= d, c < d, d <= e, \A k \in Alnums : ~(c < k /\ k < d),
         Connected(d, e, L), \A k \in Alnums \cap lo..c : <<k, d>> \notin L
  PROVE  Blocks(Append(ts, TokenOf(<<d, e>>)), lo, e, L)
<1> DEFINE y == TokenOf(<<d, e>>)
<1>1. \A i \in Alnums : i \in Int
  BY AlnumFacts
<1>2. y \in Token /\ SpanOf(y) = <<d, e>> /\ y.from = d - 1 /\ y.to = e
  BY TokenOfType
<1> HIDE DEF y
<1>3. ts \in Seq(Token) /\ Len(ts) \in Nat
  <2> HIDE DEF Token
  <2> QED BY DEF Blocks
<1>4. PICK us : us = Append(ts, y)
  OBVIOUS
<1>5. /\ us \in Seq(Token) /\ Len(us) = Len(ts) + 1 /\ us[Len(ts) + 1] = y
      /\ \A m \in 1..Len(ts) : us[m] = ts[m]
  <2> HIDE DEF Token
  <2> QED BY <1>2, <1>3, <1>4, AppendProperties
<1>6. \A m \in 1..Len(us) : m \in 1..Len(ts) \/ m = Len(ts) + 1
  BY <1>3, <1>5
<1>7. ASSUME NEW m \in 1..Len(us)
      PROVE  SpanOf(us[m]) \in Spans(Alnums \cap lo..e, L) /\ us[m] = TokenOf(SpanOf(us[m]))
  <2>1. CASE m \in 1..Len(ts)
    <3>1. SpanOf(ts[m]) \in Spans(Alnums \cap lo..c, L) /\ ts[m] = TokenOf(SpanOf(ts[m]))
      BY <2>1 DEF Blocks
    <3>2. SpanOf(ts[m])[2] = ts[m].to /\ ts[m].to \in Alnums \cap lo..c
      BY SMTT(60), <2>1, <1>1, BlockFacts DEF SpanOf
    <3>3. SpanOf(ts[m]) \in Spans(Alnums \cap lo..e, L)
      BY <3>1, <3>2, <1>1, SpanKept
    <3> QED BY <2>1, <1>5, <3>1, <3>3
  <2>2. CASE m = Len(ts) + 1
    <3>1. <<d, e>> \in Spans(Alnums \cap lo..e, L)
      BY SpanAdded
    <3> QED BY <2>2, <1>2, <1>5, <3>1 DEF y
  <2> QED BY <2>1, <2>2, <1>6
<1>8. ASSUME NEW m \in 1..Len(us), NEW n \in 1..Len(us), m < n PROVE us[m].to <= us[n].from
  <2>1. m \in 1..Len(ts)
    BY <1>3, <1>5, <1>8
  <2>2. CASE n \in 1..Len(ts)
    BY <1>5, <1>8, <2>1, <2>2 DEF Blocks
  <2>3. CASE n = Len(ts) + 1
    <3>1. us[m].to \in Int /\ us[m].to <= c
      BY <2>1, <1>5, BlockFacts
    <3> QED BY <3>1, <2>3, <1>1, <1>2, <1>5
  <2> QED BY <2>2, <2>3, <1>6
<1>9. ASSUME NEW k \in Alnums \cap lo..e
      PROVE  \E m \in 1..Len(us) : us[m].from < k /\ k <= us[m].to
  <2>1. CASE k <= c
    <3>1. PICK m \in 1..Len(ts) : ts[m].from < k /\ k <= ts[m].to
      BY <1>1, <2>1 DEF Blocks
    <3>2. m \in 1..Len(us) /\ us[m] = ts[m]
      BY <1>3, <1>5
    <3> QED BY <3>1, <3>2
  <2>2. CASE ~(k <= c)
    <3>1. d <= k /\ k <= e /\ d - 1 < k
      BY <1>1, <2>2
    <3>2. Len(ts) + 1 \in 1..Len(us)
      BY <1>3, <1>5
    <3> QED BY <3>1, <3>2, <1>2, <1>5
  <2> QED BY <2>1, <2>2
<1>10. Blocks(us, lo, e, L)
  BY <1>5, <1>7, <1>8, <1>9 DEF Blocks
<1> QED BY <1>4, <1>10 DEF y

\* The characters of two spans, one after the other.
LEMMA TextJoined ==
  ASSUME text \in Seq(Chars), NEW a \in Alnums, NEW c \in Alnums, NEW d \in Alnums, NEW e \in Alnums,
         a <= c, c < d, d <= e, \A k \in Alnums : ~(c < k /\ k < d)
  PROVE  Combine(TokenOf(<<a, c>>), TokenOf(<<d, e>>)) = TokenOf(<<a, e>>)
<1>1. \A i \in Alnums : i \in Int
  BY AlnumFacts
<1>2. PICK P, Q : P = Alnums \cap a..c /\ Q = Alnums \cap d..e
  OBVIOUS
<1>3. P \cup Q = Alnums \cap a..e
  BY <1>1, <1>2
<1>4. P \in SUBSET (DOMAIN text) /\ Q \in SUBSET (DOMAIN text) /\ \A p \in P : \A q \in Q : p < q
  BY <1>1, <1>2, AlnumFacts
<1>5. Selected(text, P \cup Q) = Selected(text, P) \o Selected(text, Q)
  BY <1>4, SelectedUnion
<1>6. Combine(TokenOf(<<a, c>>), TokenOf(<<d, e>>))
        = [text |-> Selected(text, P) \o Selected(text, Q), from |-> a - 1, to |-> e]
  BY <1>2, TokenOfType DEF Combine
<1>7. TokenOf(<<a, e>>) = [text |-> Selected(text, P \cup Q), from |-> a - 1, to |-> e]
  BY <1>3 DEF TokenOf
<1> QED BY <1>5, <1>6, <1>7

\* A token after the others, linked to the last.
LEMMA BlockJoined ==
  ASSUME text \in Seq(Chars), NEW ts \in Seq(Token), NEW x \in Token, NEW lo \in Int, NEW c \in Int,
         NEW L, Neighbours(L), Blocks(Append(ts, x), lo, c, L), NEW d \in Alnums, NEW e \in Alnums,
         c < d, d <= e, Connected(d, e, L), <<x.to, d>> \in L
  PROVE  /\ Combine(x, TokenOf(<<d, e>>)) \in Token
         /\ Combine(x, TokenOf(<<d, e>>)) = TokenOf(<<x.from + 1, e>>)
         /\ Blocks(Append(ts, Combine(x, TokenOf(<<d, e>>))), lo, e, L)
<1> DEFINE y == Combine(x, TokenOf(<<d, e>>))
<1>1. \A i \in Alnums : i \in Int
  BY AlnumFacts
<1>2. PICK vs : vs = Append(ts, x)
  OBVIOUS
<1>3. /\ vs \in Seq(Token) /\ Len(vs) = Len(ts) + 1 /\ vs[Len(ts) + 1] = x
      /\ \A m \in 1..Len(ts) : vs[m] = ts[m]
      /\ Len(ts) \in Nat
  <2> HIDE DEF Token
  <2> QED BY <1>2, AppendProperties
<1>4. /\ Blocks(vs, lo, c, L) /\ Len(ts) + 1 \in 1..Len(vs)
      /\ \A m \in 1..Len(ts) : m \in 1..Len(vs) /\ m < Len(ts) + 1
  BY <1>2, <1>3
<1>5. /\ SpanOf(x) \in Spans(Alnums \cap lo..c, L) /\ x = TokenOf(SpanOf(x))
      /\ SpanOf(x) = <<x.from + 1, x.to>>
  BY <1>3, <1>4 DEF Blocks, SpanOf
<1>6. /\ x.from + 1 \in Alnums /\ x.to \in Alnums /\ x.from + 1 <= x.to /\ x.to <= c
      /\ x.from \in Nat /\ x.from + 1 >= lo
  <2>1. PICK m \in 1..Len(vs) : m = Len(ts) + 1
    BY <1>4
  <2>2. vs[m].from \in Nat /\ vs[m].to \in Nat /\ vs[m].from + 1 \in Alnums /\ vs[m].to \in Alnums
        /\ vs[m].from + 1 >= lo /\ vs[m].from < vs[m].to /\ vs[m].to <= c
    BY <1>4, BlockFacts
  <2>3. vs[m] = x
    BY <1>3, <2>1
  <2> QED BY <2>2, <2>3
<1>7. \A k \in Alnums : ~(x.to < k /\ k < d)
  BY DEF Neighbours
<1>8. y = TokenOf(<<x.from + 1, e>>)
  <2>1. x = TokenOf(<<x.from + 1, x.to>>)
    BY <1>5
  <2>2. PICK a \in Alnums, b \in Alnums : a = x.from + 1 /\ b = x.to
    BY <1>6
  <2>3. Combine(TokenOf(<<a, b>>), TokenOf(<<d, e>>)) = TokenOf(<<a, e>>)
    <3>1. a <= b /\ b < d
      BY <1>1, <1>6, <2>2
    <3> QED BY <1>7, <2>2, <3>1, TextJoined
  <2> QED BY <2>1, <2>2, <2>3
<1>9. y \in Token /\ SpanOf(y) = <<x.from + 1, e>> /\ y.from = x.from /\ y.to = e
  <2>1. PICK a \in Alnums : a = x.from + 1
    BY <1>6
  <2>2. y = TokenOf(<<a, e>>)
    BY <1>8, <2>1
  <2> HIDE DEF y
  <2>3. y \in Token /\ SpanOf(y) = <<a, e>> /\ y.from = a - 1 /\ y.to = e
    BY <2>2, TokenOfType
  <2> QED BY SMTT(60), <1>6, <2>1, <2>3
<1> HIDE DEF y
<1>10. PICK us : us = Append(ts, y)
  OBVIOUS
<1>11. /\ us \in Seq(Token) /\ Len(us) = Len(ts) + 1 /\ us[Len(ts) + 1] = y
       /\ \A m \in 1..Len(ts) : us[m] = ts[m]
  <2> HIDE DEF Token
  <2> QED BY <1>9, <1>10, AppendProperties
<1>12. \A m \in 1..Len(us) : m \in 1..Len(ts) \/ m = Len(ts) + 1
  BY <1>3, <1>11
<1>13. ASSUME NEW m \in 1..Len(us)
       PROVE  SpanOf(us[m]) \in Spans(Alnums \cap lo..e, L) /\ us[m] = TokenOf(SpanOf(us[m]))
  <2>1. CASE m \in 1..Len(ts)
    <3>1. SpanOf(ts[m]) \in Spans(Alnums \cap lo..c, L) /\ ts[m] = TokenOf(SpanOf(ts[m]))
      BY <2>1, <1>3, <1>4 DEF Blocks
    <3>2. SpanOf(ts[m])[2] = ts[m].to /\ ts[m].to \in Int /\ ts[m].to <= x.from
      <4>1. ts[m].to <= x.from
        BY <2>1, <1>3, <1>4 DEF Blocks
      <4>2. vs[m].to \in Nat
        BY <2>1, <1>4, BlockFacts
      <4> QED BY <2>1, <1>3, <4>1, <4>2 DEF SpanOf
    <3>3. <<ts[m].to, d>> \notin L
      <4>1. ts[m].to < x.to /\ x.to < d
        BY SMTT(60), <1>1, <1>6, <3>2
      <4> QED BY <1>6, <4>1 DEF Neighbours
    <3>4. \A k \in Alnums : ~(c < k /\ k < d)
      BY SMTT(60), <1>1, <1>6, <1>7
    <3>5. SpanOf(ts[m]) \in Spans(Alnums \cap lo..e, L)
      BY <1>1, <3>1, <3>2, <3>3, <3>4, SpanKept
    <3> QED BY <2>1, <1>11, <3>1, <3>5
  <2>2. CASE m = Len(ts) + 1
    <3>1. <<x.from + 1, e>> \in Spans(Alnums \cap lo..e, L)
      <4>1. <<SpanOf(x)[1], e>> \in Spans(Alnums \cap lo..e, L)
        BY <1>5, SpanJoined
      <4> QED BY <1>5, <4>1
    <3> QED BY <2>2, <1>8, <1>9, <1>11, <3>1
  <2> QED BY <2>1, <2>2, <1>12
<1>14. ASSUME NEW m \in 1..Len(us), NEW n \in 1..Len(us), m < n PROVE us[m].to <= us[n].from
  <2>1. m \in 1..Len(ts) /\ us[m] = vs[m]
    BY <1>3, <1>11, <1>14
  <2>2. us[n].from = vs[n].from /\ n \in 1..Len(vs) /\ m \in 1..Len(vs)
    BY <1>3, <1>9, <1>11, <1>12, <2>1
  <2>3. vs[m].to <= vs[n].from
    BY <1>4, <1>14, <2>2 DEF Blocks
  <2> QED BY <2>1, <2>2, <2>3
<1>15. ASSUME NEW k \in Alnums \cap lo..e
       PROVE  \E m \in 1..Len(us) : us[m].from < k /\ k <= us[m].to
  <2>1. CASE k <= x.to
    <3>1. k \in Alnums \cap lo..c
      BY <1>1, <1>6, <2>1
    <3>2. PICK m \in 1..Len(vs) : vs[m].from < k /\ k <= vs[m].to
      BY <1>4, <3>1 DEF Blocks
    <3>3. CASE m \in 1..Len(ts)
      <4>1. us[m] = vs[m] /\ m \in 1..Len(us)
        BY <3>3, <1>3, <1>11
      <4> QED BY <3>2, <4>1
    <3>4. CASE m = Len(ts) + 1
      <4>1. us[m].from = x.from /\ us[m].to = e /\ vs[m] = x /\ m \in 1..Len(us)
        BY <3>4, <1>3, <1>9, <1>11
      <4>2. x.from < k /\ k <= e
        BY <3>2, <4>1, <1>1
      <4> QED BY <4>1, <4>2
    <3> QED BY <3>3, <3>4, <1>3, <1>11, <1>12
  <2>2. CASE ~(k <= x.to)
    <3>1. x.from < k /\ k <= e
      BY SMTT(60), <1>1, <1>6, <2>2
    <3>2. Len(ts) + 1 \in 1..Len(us)
      BY <1>3, <1>11
    <3> QED BY <3>1, <3>2, <1>9, <1>11
  <2> QED BY <2>1, <2>2
<1>16. Blocks(us, lo, e, L)
  BY <1>11, <1>13, <1>14, <1>15 DEF Blocks
<1> QED BY <1>8, <1>9, <1>10, <1>16 DEF y

-----------------------------------------------------------------------------
(* The scan of a word *)

\* A text without letters that pass for apostrophes.
Plain == \A i \in DOMAIN text : text[i] \notin Modifiers

IsWord(w) == w \in Nat \X Nat /\ 1 <= w[1] /\ w[1] <= w[2] /\ w[2] <= Len(text)

\* What the scan of a word links.
WordLinks(w) ==
  {p \in Alnums \X Alnums :
     /\ w[1] <= p[1] /\ p[2] <= w[2]
     /\ \/ p[2] = p[1] + 1
        \/ p[2] = p[1] + 2 /\ is_apostrophe_like(text[p[1] + 1])}

\* An apostrophe between alphanumeric characters of the word.
Dropped(w, i) ==
  is_apostrophe_like(text[i]) /\ w[1] < i /\ i - 1 \in Alnums /\ i < w[2] /\ i + 1 \in Alnums

\* Up to character i the scan has the longest spans, the last of them, which
\* ends with c, being built.
ScanInv(w, s, i) ==
  \/ /\ s.current = NoToken
     /\ Blocks(s.tokens, w[1], i, WordLinks(w))
     /\ i = w[1] - 1 \/ (i \notin Alnums /\ ~Dropped(w, i))
  \/ /\ s.current.text # <<>> /\ s.current.to = i
     /\ \E c \in Alnums :
          /\ Blocks(Append(s.tokens, [s.current EXCEPT !.to = c]), w[1], c, WordLinks(w))
          /\ c = i \/ (c = i - 1 /\ i \notin Alnums /\ Dropped(w, i))

\* In such a text no apostrophe and no dash is alphanumeric.
LEMMA NoAlnum ==
  ASSUME text \in Seq(Chars), Plain, NEW i \in 1..Len(text),
         is_apostrophe_like(text[i]) \/ text[i] \in Quotes \cup Ticks \/ text[i] \in Dashes
  PROVE  i \notin Alnums
<1>1. text[i] \notin Modifiers
  BY DEF Plain
<1>2. text[i] \in Quotes \cup Ticks \cup Dashes
  BY <1>1 DEF is_apostrophe_like
<1>3. ~is_alphanumeric(text[i])
  BY <1>2, ClassesAssumption DEF is_alphanumeric
<1> QED BY <1>3, AlnumFacts

\* The scan of a word links only neighbours.
LEMMA WordNeighbours ==
  ASSUME text \in Seq(Chars), Plain, NEW w, IsWord(w)
  PROVE  Neighbours(WordLinks(w))
<1>1. WordLinks(w) \subseteq Alnums \X Alnums
  BY DEF WordLinks
<1>2. ASSUME NEW p \in WordLinks(w)
      PROVE  p[1] < p[2] /\ \A k \in Alnums : ~(p[1] < k /\ k < p[2])
  <2>1. p[1] \in Int /\ p[2] \in Int /\ \A k \in Alnums : k \in Int
    BY <1>1, AlnumFacts
  <2>2. CASE p[2] = p[1] + 1
    BY <2>1, <2>2
  <2>3. CASE p[2] = p[1] + 2 /\ is_apostrophe_like(text[p[1] + 1])
    <3>1. p[1] \in 1..Len(text) /\ p[2] \in 1..Len(text)
      BY <1>1, AlnumFacts
    <3>2. p[1] + 1 \in 1..Len(text)
      BY <2>3, <3>1, AlnumFacts
    <3>3. p[1] + 1 \notin Alnums
      BY <2>3, <3>2, NoAlnum
    <3>4. \A k \in Alnums : p[1] < k /\ k < p[2] => k = p[1] + 1
      BY <2>1, <2>3
    <3> QED BY <2>1, <2>3, <3>3, <3>4
  <2> QED BY <2>2, <2>3 DEF WordLinks
<1> QED BY <1>1, <1>2 DEF Neighbours

\* Characters that are not alphanumeric change nothing.
LEMMA BlockSame ==
  ASSUME NEW ts, NEW lo, NEW c, NEW e, NEW L, Blocks(ts, lo, c, L),
         Alnums \cap lo..c = Alnums \cap lo..e
  PROVE  Blocks(ts, lo, e, L)
  BY DEF Blocks

\* Where nothing is alphanumeric there is no token.
LEMMA NoBlock ==
  ASSUME NEW lo, NEW c, NEW L, Alnums \cap lo..c = {}
  PROVE  Blocks(<<>>, lo, c, L)
<1>1. <<>> \in Seq(Token) /\ Len(<<>>) = 0
  <2> HIDE DEF Token
  <2> QED OBVIOUS
<1>2. 1..0 = {}
  OBVIOUS
<1> QED BY <1>1, <1>2 DEF Blocks

\* A character that stands alone.
LEMMA OneCharacter ==
  ASSUME text \in Seq(Chars), NEW i \in Alnums
  PROVE  /\ TokenOf(<<i, i>>) = [text |-> <<text[i]>>, from |-> i - 1, to |-> i]
         /\ \A L : Connected(i, i, L)
<1>1. i \in Int /\ i \in DOMAIN text /\ \A k \in Alnums : k \in Int
  BY AlnumFacts
<1>2. Alnums \cap i..i = {i} /\ i..(i - 1) = {}
  BY <1>1
<1>3. Selected(text, {i}) = <<text[i]>>
  BY <1>1, SelectedOne
<1> QED BY <1>2, <1>3 DEF TokenOf, Connected

\* The cases of the scan.
LEMMA ScanCases ==
  ASSUME text \in Seq(Chars), NEW w, IsWord(w), NEW s, NEW i \in w[1]..w[2]
  PROVE  Scan(text, w, s, i) =
           IF Dropped(w, i) THEN [s EXCEPT !.current.to = i]
           ELSE IF i \in Alnums
                THEN [s EXCEPT !.current = [text |-> Append(s.current.text, text[i]),
                                            from |-> IF s.current.text = <<>> THEN i - 1
                                                     ELSE s.current.from,
                                            to |-> i]]
                ELSE flush_pending_token(s)
<1>1. i \in 1..Len(text) /\ w[1] \in Int /\ w[2] \in Int /\ i \in Int
  BY DEF IsWord
<1>2. i \in Alnums <=> is_alphanumeric(text[i])
  BY <1>1, AlnumFacts
<1>3. i > w[1] => (i - 1 \in Alnums <=> is_alphanumeric(text[i - 1]))
  <2>1. i > w[1] => i - 1 \in 1..Len(text)
    BY <1>1 DEF IsWord
  <2> QED BY <2>1, AlnumFacts
<1>4. i < w[2] => (i + 1 \in Alnums <=> is_alphanumeric(text[i + 1]))
  <2>1. i < w[2] => i + 1 \in 1..Len(text)
    BY <1>1 DEF IsWord
  <2> QED BY <2>1, AlnumFacts
<1>5. Dropped(w, i) <=> /\ is_apostrophe_like(text[i])
                        /\ i > w[1] /\ is_alphanumeric(text[i - 1])
                        /\ i < w[2] /\ is_alphanumeric(text[i + 1])
  BY <1>1, <1>3, <1>4 DEF Dropped
<1> HIDE DEF Dropped
<1> QED BY <1>2, <1>5 DEF Scan

\* NoToken has no characters.
LEMMA NoTokenFacts == NoToken.text = <<>> /\ NoToken.from = 0 /\ NoToken.to = 0 /\ NoToken \in Token
  BY DEF NoToken, Token

\* An apostrophe is dropped: the token being built goes on.
LEMMA ScanDrops ==
  ASSUME text \in Seq(Chars), Plain, NEW w, IsWord(w), NEW s \in ScanState, NEW i \in w[1]..w[2],
         ScanInv(w, s, i - 1), Dropped(w, i)
  PROVE  ScanInv(w, Scan(text, w, s, i), i)
<1>1. i \in Int /\ w[1] \in Int /\ i \in 1..Len(text)
  BY DEF IsWord
<1>2. i - 1 \in Alnums /\ w[1] < i /\ i \notin Alnums
  BY <1>1, NoAlnum DEF Dropped
<1>3. i - 1 # w[1] - 1
  BY <1>1, <1>2
<1>4. /\ s.current.text # <<>>
      /\ Blocks(Append(s.tokens, [s.current EXCEPT !.to = i - 1]), w[1], i - 1, WordLinks(w))
  BY <1>2, <1>3 DEF ScanInv
<1>5. PICK z : z = [s EXCEPT !.current.to = i]
  OBVIOUS
<1>6. /\ z.tokens = s.tokens /\ z.current.text = s.current.text /\ z.current.to = i
      /\ [z.current EXCEPT !.to = i - 1] = [s.current EXCEPT !.to = i - 1]
  BY <1>5 DEF ScanState, Token
<1>7. Scan(text, w, s, i) = z
  BY <1>5, ScanCases
<1> QED BY <1>1, <1>2, <1>4, <1>6, <1>7 DEF ScanInv

\* An alphanumeric character begins a token.
LEMMA ScanBegins ==
  ASSUME text \in Seq(Chars), Plain, NEW w, IsWord(w), NEW s \in ScanState, NEW i \in w[1]..w[2],
         s.current = NoToken, Blocks(s.tokens, w[1], i - 1, WordLinks(w)),
         i - 1 = w[1] - 1 \/ (i - 1 \notin Alnums /\ ~Dropped(w, i - 1)), i \in Alnums
  PROVE  ScanInv(w, Scan(text, w, s, i), i)
<1>1. i \in Int /\ w[1] \in Int /\ w[2] \in Int /\ w[1] <= i /\ i <= w[2] /\ i \in 1..Len(text)
      /\ \A k \in Alnums : k \in Int
  BY AlnumFacts DEF IsWord
<1>2. ~Dropped(w, i)
  BY <1>1, NoAlnum DEF Dropped
<1>3. PICK z : z = Scan(text, w, s, i)
  OBVIOUS
<1>4. z = [s EXCEPT !.current = [text |-> Append(<<>>, text[i]), from |-> i - 1, to |-> i]]
  BY ZenonT(60), <1>2, <1>3, ScanCases, NoTokenFacts
<1>5. z.tokens = s.tokens /\ z.current = TokenOf(<<i, i>>)
  <2>1. Append(<<>>, text[i]) = <<text[i]>>
    OBVIOUS
  <2> QED BY <1>4, <2>1, OneCharacter DEF ScanState
<1>6. ASSUME NEW k \in Alnums \cap w[1]..(i - 1), <<k, i>> \in WordLinks(w) PROVE FALSE
  <2>1. i = k + 1 \/ (i = k + 2 /\ is_apostrophe_like(text[k + 1]))
    BY <1>6 DEF WordLinks
  <2>2. i - 1 # w[1] - 1 /\ k \in Int /\ w[1] <= k
    BY <1>1
  <2>3. CASE i = k + 1
    BY <2>2, <2>3
  <2>4. CASE i = k + 2 /\ is_apostrophe_like(text[k + 1])
    <3>1. k + 1 = i - 1 /\ (i - 1) - 1 = k /\ (i - 1) + 1 = i /\ w[1] < i - 1 /\ i - 1 < w[2]
      BY <1>1, <2>2, <2>4
    <3>2. Dropped(w, i - 1)
      BY <2>4, <3>1 DEF Dropped
    <3> QED BY <2>2, <3>2
  <2> QED BY <2>1, <2>3, <2>4
<1>7. \A k \in Alnums : ~(i - 1 < k /\ k < i)
  BY <1>1
<1>8. Blocks(Append(s.tokens, TokenOf(<<i, i>>)), w[1], i, WordLinks(w))
  <2>1. i - 1 \in Int /\ i - 1 < i /\ i <= i
    BY <1>1
  <2>2. Connected(i, i, WordLinks(w)) /\ Neighbours(WordLinks(w))
    BY OneCharacter, WordNeighbours
  <2> QED BY <1>1, <1>6, <1>7, <2>1, <2>2, BlockAdded
<1>9. z.current.text # <<>> /\ z.current.to = i /\ [z.current EXCEPT !.to = i] = z.current
  <2>1. PICK v, b : v = <<text[i]>> /\ b = i - 1
    OBVIOUS
  <2>2. z.current = [text |-> v, from |-> b, to |-> i] /\ v # <<>>
    BY <1>5, <2>1, OneCharacter
  <2> QED BY <2>2
<1> QED BY <1>3, <1>5, <1>8, <1>9 DEF ScanInv

\* Or it continues the one being built.
LEMMA ScanContinues ==
  ASSUME text \in Seq(Chars), Plain, NEW w, IsWord(w), NEW s \in ScanState, NEW i \in w[1]..w[2],
         s.current.text # <<>>, s.current.to = i - 1, NEW c \in Alnums,
         Blocks(Append(s.tokens, [s.current EXCEPT !.to = c]), w[1], c, WordLinks(w)),
         c = i - 1 \/ (c = (i - 1) - 1 /\ i - 1 \notin Alnums /\ Dropped(w, i - 1)), i \in Alnums
  PROVE  ScanInv(w, Scan(text, w, s, i), i)
<1>1. i \in Int /\ w[1] \in Int /\ w[2] \in Int /\ w[1] <= i /\ i <= w[2] /\ i \in 1..Len(text)
      /\ c \in Nat /\ c < i
  BY AlnumFacts DEF IsWord
<1>2. ~Dropped(w, i)
  BY <1>1, NoAlnum DEF Dropped
<1>3. PICK x : x = [s.current EXCEPT !.to = c]
  OBVIOUS
<1>4. /\ x \in Token /\ x.to = c /\ x.text = s.current.text /\ x.from = s.current.from
      /\ s.tokens \in Seq(Token)
  BY <1>1, <1>3 DEF ScanState, Token
<1>5. PICK z : z = Scan(text, w, s, i)
  OBVIOUS
<1>6. /\ z.tokens = s.tokens
      /\ z.current = [text |-> Append(s.current.text, text[i]), from |-> s.current.from, to |-> i]
  <2>1. z = [s EXCEPT !.current = [text |-> Append(s.current.text, text[i]),
                                   from |-> IF s.current.text = <<>> THEN i - 1 ELSE s.current.from,
                                   to |-> i]]
    BY <1>2, <1>5, ScanCases
  <2>2. PICK u : u = [text |-> Append(s.current.text, text[i]), from |-> s.current.from, to |-> i]
    OBVIOUS
  <2>3. z = [s EXCEPT !.current = u]
    BY <2>1, <2>2
  <2> QED BY <2>2, <2>3 DEF ScanState
<1>7. z.current = Combine(x, TokenOf(<<i, i>>))
  <2>1. Combine(x, TokenOf(<<i, i>>))
          = [text |-> s.current.text \o <<text[i]>>, from |-> s.current.from, to |-> i]
    <3>1. PICK y : y = TokenOf(<<i, i>>)
      OBVIOUS
    <3>2. y.text = <<text[i]>> /\ y.to = i
      <4>1. PICK v, b : v = <<text[i]>> /\ b = i - 1
        OBVIOUS
      <4>2. y = [text |-> v, from |-> b, to |-> i]
        BY <3>1, <4>1, OneCharacter
      <4> QED BY <4>1, <4>2
    <3> QED BY <1>4, <3>1, <3>2 DEF Combine
  <2>2. s.current.text \in Seq(Chars) /\ text[i] \in Chars
    BY SMTT(60), <1>1 DEF ScanState, Token
  <2>3. s.current.text \o <<text[i]>> = Append(s.current.text, text[i])
    BY <2>2, AppendIsConcat
  <2> QED BY <1>6, <2>1, <2>3
<1>8. <<c, i>> \in WordLinks(w)
  <2>1. c \in Alnums \cap w[1]..c
    <3>1. PICK vs : vs = Append(s.tokens, x)
      OBVIOUS
    <3>2. PICK m \in 1..Len(vs) : vs[m] = x
      <4> HIDE DEF Token
      <4> QED BY SMTT(60), <1>4, <3>1, AppendProperties
    <3>3. vs[m].from + 1 >= w[1] /\ vs[m].from < vs[m].to /\ vs[m].from \in Nat
      <4>1. Blocks(vs, w[1], c, WordLinks(w)) /\ c \in Int
        BY <1>1, <1>3, <3>1
      <4> QED BY <1>1, <4>1, BlockFacts
    <3>4. x.from + 1 >= w[1] /\ x.from < x.to /\ x.from \in Nat
      BY <3>2, <3>3
    <3> QED BY SMTT(60), <1>1, <1>4, <3>4
  <2>2. CASE c = i - 1
    BY <1>1, <2>1, <2>2 DEF WordLinks
  <2>3. CASE c = (i - 1) - 1 /\ Dropped(w, i - 1)
    <3>1. c + 1 = i - 1 /\ i = c + 2
      BY <1>1, <2>3
    <3>2. is_apostrophe_like(text[c + 1])
      BY <2>3, <3>1 DEF Dropped
    <3> QED BY <1>1, <2>1, <3>1, <3>2 DEF WordLinks
  <2> QED BY <2>2, <2>3
<1>9. Blocks(Append(s.tokens, z.current), w[1], i, WordLinks(w))
  <2>1. Connected(i, i, WordLinks(w)) /\ Neighbours(WordLinks(w))
    BY OneCharacter, WordNeighbours
  <2>2. Blocks(Append(s.tokens, x), w[1], c, WordLinks(w)) /\ <<x.to, i>> \in WordLinks(w)
    BY <1>3, <1>4, <1>8
  <2>3. Blocks(Append(s.tokens, Combine(x, TokenOf(<<i, i>>))), w[1], i, WordLinks(w))
    <3>1. w[1] \in Int /\ c \in Int /\ c < i /\ i <= i
      BY <1>1
    <3> QED BY <1>4, <2>1, <2>2, <3>1, BlockJoined
  <2> QED BY <1>7, <2>3
<1>10. z.current.text # <<>> /\ z.current.to = i /\ [z.current EXCEPT !.to = i] = z.current
  <2>1. s.current.text \in Seq(Chars) /\ text[i] \in Chars
    BY <1>1 DEF ScanState, Token
  <2>2. Append(s.current.text, text[i]) # <<>>
    BY <2>1, AppendProperties
  <2>3. PICK v, b : v = Append(s.current.text, text[i]) /\ b = s.current.from
    OBVIOUS
  <2>4. z.current = [text |-> v, from |-> b, to |-> i] /\ v # <<>>
    BY <1>6, <2>2, <2>3
  <2> QED BY <2>4
<1> QED BY <1>5, <1>6, <1>9, <1>10 DEF ScanInv

\* Anything else ends it.
LEMMA ScanEnds ==
  ASSUME text \in Seq(Chars), NEW w, IsWord(w), NEW s \in ScanState, NEW i \in w[1]..w[2],
         ScanInv(w, s, i - 1), ~Dropped(w, i), i \notin Alnums
  PROVE  ScanInv(w, Scan(text, w, s, i), i)
<1>1. i \in Int /\ w[1] \in Int /\ \A k \in Alnums : k \in Int
  BY AlnumFacts DEF IsWord
<1>2. Scan(text, w, s, i) = flush_pending_token(s)
  BY ScanCases
<1>3. Alnums \cap w[1]..(i - 1) = Alnums \cap w[1]..i
  <2>1. \A k \in Alnums : k \in w[1]..(i - 1) <=> k \in w[1]..i
    BY <1>1
  <2> QED BY <2>1
<1>4. CASE s.current = NoToken
  <2>1. Blocks(s.tokens, w[1], i - 1, WordLinks(w))
    BY <1>4, NoTokenFacts DEF ScanInv
  <2>2. Blocks(s.tokens, w[1], i, WordLinks(w))
    BY <1>3, <2>1, BlockSame
  <2> QED BY <1>2, <1>4, <2>2, NoTokenFacts DEF ScanInv, flush_pending_token
<1>5. CASE s.current # NoToken
  <2>1. PICK c \in Alnums :
          /\ s.current.text # <<>> /\ s.current.to = i - 1
          /\ Blocks(Append(s.tokens, [s.current EXCEPT !.to = c]), w[1], c, WordLinks(w))
          /\ c = i - 1 \/ (c = (i - 1) - 1 /\ i - 1 \notin Alnums /\ Dropped(w, i - 1))
    BY <1>5 DEF ScanInv
  <2>2. (i - 1) + 1 = i
    BY <1>1
  <2>3. c = i - 1
    BY <2>1, <2>2 DEF Dropped
  <2>4. [s.current EXCEPT !.to = c] = s.current
    BY <2>1, <2>3 DEF ScanState, Token
  <2>5. Blocks(Append(s.tokens, s.current), w[1], i, WordLinks(w))
    BY <1>3, <2>1, <2>3, <2>4, BlockSame
  <2> QED BY <1>2, <2>1, <2>5 DEF ScanInv, flush_pending_token
<1> QED BY <1>4, <1>5

\* The tokens of a word are its longest spans.
LEMMA SplitBlocks ==
  ASSUME text \in Seq(Chars), Plain, NEW w, IsWord(w)
  PROVE  Blocks(split_word_tokens(text, w), w[1], w[2], WordLinks(w))
<1>1. PICK f \in [(w[1] - 1)..w[2] -> ScanState] :
           /\ f[w[1] - 1] = [tokens |-> <<>>, current |-> NoToken]
           /\ \A i \in w[1]..w[2] : f[i] = Scan(text, w, f[i - 1], i)
           /\ split_word_tokens(text, w) = flush_pending_token(f[w[2]]).tokens
  BY ScanHistory DEF IsWord
<1>2. w[1] - 1 \in Nat /\ w[2] \in Nat /\ w[1] - 1 <= w[2] /\ (w[1] - 1) + 1 = w[1] /\ w[1] \in Int
  BY DEF IsWord
<1> DEFINE T == {i \in (w[1] - 1)..w[2] : ScanInv(w, f[i], i)}
<1>3. w[1] - 1 \in T
  <2>1. Alnums \cap w[1]..(w[1] - 1) = {}
    BY <1>2
  <2>2. Blocks(<<>>, w[1], w[1] - 1, WordLinks(w))
    BY <2>1, NoBlock
  <2>3. ScanInv(w, f[w[1] - 1], w[1] - 1)
    BY <1>1, <2>2 DEF ScanInv
  <2> QED BY <1>2, <2>3
<1>4. ASSUME NEW i \in ((w[1] - 1) + 1)..w[2], i - 1 \in T PROVE i \in T
  <2>1. i \in w[1]..w[2] /\ i \in (w[1] - 1)..w[2] /\ f[i - 1] \in ScanState
    BY SMTT(60), <1>2
  <2>2. PICK s \in ScanState : s = f[i - 1]
    BY <2>1
  <2>3. ScanInv(w, s, i - 1) /\ f[i] = Scan(text, w, s, i)
    BY <1>1, <1>4, <2>1, <2>2
  <2>4. CASE Dropped(w, i)
    BY <2>1, <2>3, <2>4, ScanDrops
  <2>5. CASE ~Dropped(w, i) /\ i \notin Alnums
    BY <2>1, <2>3, <2>5, ScanEnds
  <2>6. CASE i \in Alnums
    <3>1. CASE s.current = NoToken
      <4>1. /\ Blocks(s.tokens, w[1], i - 1, WordLinks(w))
            /\ i - 1 = w[1] - 1 \/ (i - 1 \notin Alnums /\ ~Dropped(w, i - 1))
        BY <2>3, <3>1, NoTokenFacts DEF ScanInv
      <4> QED BY <2>1, <2>3, <2>6, <3>1, <4>1, ScanBegins
    <3>2. CASE s.current # NoToken
      <4>1. PICK c \in Alnums :
              /\ s.current.text # <<>> /\ s.current.to = i - 1
              /\ Blocks(Append(s.tokens, [s.current EXCEPT !.to = c]), w[1], c, WordLinks(w))
              /\ c = i - 1 \/ (c = (i - 1) - 1 /\ i - 1 \notin Alnums /\ Dropped(w, i - 1))
        BY <2>3, <3>2 DEF ScanInv
      <4> QED BY <2>1, <2>3, <2>6, <4>1, ScanContinues
    <3> QED BY <3>1, <3>2
  <2> QED BY <2>1, <2>4, <2>5, <2>6
<1>5. \A i \in (w[1] - 1)..w[2] : i \in T
  <2> HIDE DEF T
  <2> QED BY <1>2, <1>3, <1>4, Upwards
<1>6. w[2] \in (w[1] - 1)..w[2]
  BY <1>2
<1>7. PICK s \in ScanState : s = f[w[2]] /\ ScanInv(w, s, w[2])
  BY <1>5, <1>6
<1>8. CASE s.current = NoToken
  BY <1>1, <1>7, <1>8, NoTokenFacts DEF ScanInv, flush_pending_token
<1>9. CASE s.current # NoToken
  <2>1. PICK c \in Alnums :
          /\ s.current.text # <<>> /\ s.current.to = w[2]
          /\ Blocks(Append(s.tokens, [s.current EXCEPT !.to = c]), w[1], c, WordLinks(w))
          /\ c = w[2] \/ Dropped(w, w[2])
    BY <1>7, <1>9 DEF ScanInv
  <2>2. c = w[2]
    BY <1>2, <2>1 DEF Dropped
  <2>3. [s.current EXCEPT !.to = c] = s.current
    BY <2>1, <2>2 DEF ScanState, Token
  <2> QED BY SMTT(60), <1>1, <1>7, <2>1, <2>2, <2>3 DEF flush_pending_token
<1> QED BY <1>8, <1>9

-----------------------------------------------------------------------------
(* Words *)

Begins(t, i) == i = 1 \/ ~Joined(t, i - 1)

\* A word reaches to the next boundary.
LEMMA WordEndFacts ==
  ASSUME NEW t \in Seq(Chars), NEW i \in 1..Len(t)
  PROVE  /\ WordEnd(t, i) \in i..Len(t)
         /\ \A k \in i..(WordEnd(t, i) - 1) : Joined(t, k)
         /\ WordEnd(t, i) = Len(t) \/ ~Joined(t, WordEnd(t, i))
<1> DEFINE P(j) == /\ \A k \in i..(j - 1) : Joined(t, k)
                   /\ j = Len(t) \/ ~Joined(t, j)
           T == {j \in i..Len(t) : j = Len(t) \/ ~Joined(t, j)}
<1>1. Len(t) \in Nat
  OBVIOUS
<1>2. PICK e \in T : \A j \in T : e <= j
  <2>1. T \subseteq Nat /\ Len(t) \in T
    BY <1>1
  <2> HIDE DEF T
  <2> QED BY <2>1, Least
<1>3. e \in i..Len(t) /\ P(e)
  <2>1. \A k \in i..(e - 1) : k \in i..Len(t) /\ k < e
    BY <1>1, <1>2
  <2>2. \A k \in i..(e - 1) : k \notin T
    BY <1>1, <1>2, <2>1
  <2> QED BY <1>2, <2>1, <2>2
<1>4. PICK w : w = CHOOSE j \in i..Len(t) : P(j)
  OBVIOUS
<1>5. w \in i..Len(t) /\ P(w)
  <2> HIDE DEF P
  <2> QED BY <1>3, <1>4
<1>6. w = WordEnd(t, i)
  BY <1>4 DEF WordEnd
<1> QED BY <1>5, <1>6

\* The words are in order, and every alphanumeric character is in one.
LEMMA WordsFacts ==
  ASSUME NEW t \in Seq(Chars), NEW ws, ws = Words(t)
  PROVE  /\ Len(ws) \in Nat /\ Placed(t, ws)
         /\ \A n \in 1..Len(ws) : /\ Begins(t, ws[n][1])
                                  /\ \A k \in ws[n][1]..(ws[n][2] - 1) : Joined(t, k)
         /\ \A m, n \in 1..Len(ws) : m < n => ws[m][2] < ws[n][1]
         /\ \A k \in 1..Len(t) : is_alphanumeric(t[k]) =>
              \E n \in 1..Len(ws) : ws[n][1] <= k /\ k <= ws[n][2]
<1> DEFINE S == {i \in 1..Len(t) : /\ i = 1 \/ ~Joined(t, i - 1)
                                   /\ \E k \in i..WordEnd(t, i) : is_alphanumeric(t[k])}
<1>1. Len(t) \in Nat
  OBVIOUS
<1>2. IsFiniteSet(S) /\ S \in SUBSET Int /\ Cardinality(S) \in Nat /\ S \subseteq 1..Len(t)
  <2>1. IsFiniteSet(1..Len(t)) /\ S \in SUBSET (1..Len(t))
    BY <1>1, FS_Interval
  <2> HIDE DEF S
  <2>2. IsFiniteSet(S) /\ Cardinality(S) \in Nat
    BY <2>1, FS_Subset, FS_CardinalityType
  <2>3. 1..Len(t) \in SUBSET Int
    BY <1>1
  <2> QED BY <2>1, <2>2, <2>3
<1>3. PICK c, f : c \in Nat /\ c = Cardinality(S) /\ f = InOrder(S)
  BY <1>2
<1>4. /\ f \in [1..c -> S] /\ \A m, n \in 1..c : m < n => f[m] < f[n]
      /\ \A p \in S : \E n \in 1..c : f[n] = p
  <2> HIDE DEF S
  <2> QED BY <1>2, <1>3, InOrderLists
<1>5. ws = [n \in 1..c |-> <<f[n], WordEnd(t, f[n])>>]
  <2>1. DOMAIN f = 1..c
    <3> HIDE DEF S
    <3> QED BY <1>4
  <2> QED BY <1>3, <2>1 DEF Words
<1>6. \A i \in S : /\ i \in 1..Len(t) /\ Begins(t, i)
                   /\ WordEnd(t, i) \in i..Len(t)
                   /\ \A k \in i..(WordEnd(t, i) - 1) : Joined(t, k)
  BY WordEndFacts DEF Begins
<1>7. \A n \in 1..c : ws[n] = <<f[n], WordEnd(t, f[n])>> /\ f[n] \in S
  <2> HIDE DEF S
  <2> QED BY <1>4, <1>5
<1>8. Len(ws) = c
  <2>1. ws \in [1..c -> S \X Nat]
    <3> HIDE DEF S
    <3> QED BY <1>1, <1>4, <1>5, <1>6
  <2> HIDE DEF S
  <2> QED BY <1>3, <2>1
<1>9. ASSUME NEW n \in 1..c
      PROVE  /\ ws[n][1] = f[n] /\ f[n] \in 1..Len(t) /\ Begins(t, f[n])
             /\ ws[n][2] = WordEnd(t, f[n]) /\ ws[n][2] \in f[n]..Len(t) /\ ws[n] \in Nat \X Nat
             /\ \A k \in f[n]..(ws[n][2] - 1) : Joined(t, k)
  <2> HIDE DEF S
  <2>1. ws[n] = <<f[n], WordEnd(t, f[n])>> /\ f[n] \in S
    BY <1>7
  <2>2. /\ f[n] \in 1..Len(t) /\ Begins(t, f[n]) /\ WordEnd(t, f[n]) \in f[n]..Len(t)
        /\ \A k \in f[n]..(WordEnd(t, f[n]) - 1) : Joined(t, k)
    BY <1>6, <2>1
  <2> QED BY <1>1, <2>1, <2>2
<1> HIDE DEF S
<1>10. ASSUME NEW m \in 1..c, NEW n \in 1..c, m < n PROVE ws[m][2] < ws[n][1]
  <2>1. f[m] < f[n] /\ f[m] \in Int /\ f[n] \in Int /\ f[m] >= 1 /\ ws[m][2] \in Int
    BY <1>1, <1>4, <1>9, <1>10
  <2>2. ~Joined(t, f[n] - 1)
    BY <1>9, <2>1 DEF Begins
  <2>3. f[n] - 1 \notin f[m]..(ws[m][2] - 1)
    BY <1>9, <2>2
  <2> QED BY SMTT(60), <1>9, <2>1, <2>3
<1>11. ASSUME NEW k \in 1..Len(t), is_alphanumeric(t[k])
       PROVE  \E n \in 1..c : ws[n][1] <= k /\ k <= ws[n][2]
  <2> DEFINE U == {j \in 1..k : Begins(t, j)}
  <2>1. PICK b \in U : \A j \in U : j <= b
    <3>1. U \subseteq 0..k /\ 1 \in U /\ k \in Nat
      BY <1>1 DEF Begins
    <3> HIDE DEF U
    <3> QED BY <3>1, Greatest
  <2>2. b \in 1..Len(t) /\ b <= k /\ Begins(t, b)
    BY <1>1, <2>1
  <2>3. PICK e : e = WordEnd(t, b)
    OBVIOUS
  <2>4. e \in b..Len(t) /\ (e = Len(t) \/ ~Joined(t, e))
    BY <2>2, <2>3, WordEndFacts
  <2>5. k <= e
    <3>1. SUFFICES ASSUME e < k PROVE FALSE
      BY <1>1, <2>4
    <3>2. (e + 1) - 1 = e /\ e + 1 \in 1..k /\ e # Len(t)
      BY <1>1, <2>2, <2>4, <3>1
    <3>3. e + 1 \in U
      BY <2>4, <3>2 DEF Begins
    <3>4. e + 1 <= b
      BY <2>1, <3>3
    <3> QED BY <2>2, <2>4, <3>4
  <2>6. b \in S
    <3>1. k \in b..WordEnd(t, b)
      BY <1>1, <2>2, <2>3, <2>4, <2>5
    <3> QED BY <1>11, <2>2, <3>1 DEF S, Begins
  <2>7. PICK n \in 1..c : f[n] = b
    BY <1>4, <2>6
  <2>8. ws[n][1] = b /\ ws[n][2] = e
    BY <1>9, <2>3, <2>7
  <2> QED BY <2>2, <2>5, <2>8
<1>12. Placed(t, ws)
  <2>1. \A n \in 1..c : 1 <= f[n] /\ f[n] <= ws[n][2] /\ ws[n][2] <= Len(t)
    BY <1>1, <1>9
  <2> QED BY <1>8, <1>9, <2>1 DEF Placed
<1> QED BY <1>3, <1>8, <1>9, <1>10, <1>11, <1>12

-----------------------------------------------------------------------------
(* Merging *)

\* Bonds are between neighbours, and so are bridges.
LEMMA BondNeighbours == ASSUME text \in Seq(Chars), Plain PROVE Neighbours(Bonds)
<1>1. Bonds \subseteq Alnums \X Alnums
  BY DEF Bonds
<1>2. ASSUME NEW p \in Bonds PROVE p[1] < p[2] /\ \A k \in Alnums : ~(p[1] < k /\ k < p[2])
  <2>1. p[1] \in Int /\ p[2] \in Int /\ p[1] \in 1..Len(text) /\ p[2] \in 1..Len(text)
        /\ \A k \in Alnums : k \in Int
    BY <1>1, AlnumFacts
  <2>2. CASE p[2] = p[1] + 1
    BY <2>1, <2>2
  <2>3. CASE Run(p[1], p[2], Quotes \cup Ticks)
    <3>1. p[2] > p[1] + 1 /\ \A k \in (p[1] + 1)..(p[2] - 1) : text[k] \in Quotes \cup Ticks
      BY <2>3 DEF Run
    <3>2. \A k \in (p[1] + 1)..(p[2] - 1) : k \in 1..Len(text)
      BY <2>1, AlnumFacts
    <3>3. \A k \in (p[1] + 1)..(p[2] - 1) : k \notin Alnums
      BY <3>1, <3>2, NoAlnum
    <3>4. \A k \in Alnums : p[1] < k /\ k < p[2] => k \in (p[1] + 1)..(p[2] - 1)
      BY <2>1
    <3> QED BY <2>1, <3>1, <3>3, <3>4
  <2> QED BY <2>2, <2>3 DEF Bonds
<1> QED BY <1>1, <1>2 DEF Neighbours

\* A run of dashes parts neighbours.
LEMMA BridgeNeighbours == ASSUME text \in Seq(Chars), Plain PROVE Neighbours(Bridges)
<1>1. Bridges \subseteq Alnums \X Alnums
  BY DEF Bridges
<1>2. ASSUME NEW p \in Bridges PROVE p[1] < p[2] /\ \A k \in Alnums : ~(p[1] < k /\ k < p[2])
  <2>1. p[1] \in Int /\ p[2] \in Int /\ p[1] \in 1..Len(text) /\ p[2] \in 1..Len(text)
        /\ \A k \in Alnums : k \in Int
    BY <1>1, AlnumFacts
  <2>2. p[2] > p[1] + 1 /\ \A k \in (p[1] + 1)..(p[2] - 1) : text[k] \in Dashes
    BY DEF Bridges, Run
  <2>3. \A k \in (p[1] + 1)..(p[2] - 1) : k \in 1..Len(text)
    BY <2>1, AlnumFacts
  <2>4. \A k \in (p[1] + 1)..(p[2] - 1) : k \notin Alnums
    BY <2>2, <2>3, NoAlnum
  <2>5. \A k \in Alnums : p[1] < k /\ k < p[2] => k \in (p[1] + 1)..(p[2] - 1)
    BY <2>1
  <2> QED BY <2>1, <2>2, <2>4, <2>5
<1> QED BY <1>1, <1>2 DEF Neighbours

\* What parts two tokens.
LEMMA SeparatorFacts ==
  ASSUME text \in Seq(Chars), NEW i \in Alnums, NEW d \in Alnums, i < d
  PROVE  /\ SubSeq(text, i + 1, d - 1) # <<>> <=> d > i + 1
         /\ \A P : (\A k \in DOMAIN SubSeq(text, i + 1, d - 1) : SubSeq(text, i + 1, d - 1)[k] \in P)
                     <=> \A k \in (i + 1)..(d - 1) : text[k] \in P
<1>1. i \in 1..Len(text) /\ d \in 1..Len(text) /\ i \in Int /\ d \in Int /\ Len(text) \in Nat
  BY AlnumFacts
<1>2. PICK s : s = SubSeq(text, i + 1, d - 1)
  OBVIOUS
<1>3. CASE d = i + 1
  <2>1. s = <<>>
    BY <1>1, <1>2, <1>3, SubSeqEmpty
  <2>2. DOMAIN s = {} /\ (i + 1)..(d - 1) = {}
    BY <1>1, <1>3, <2>1
  <2> QED BY <1>1, <1>2, <1>3, <2>1, <2>2
<1>4. CASE d > i + 1
  <2>1. /\ s \in Seq(Chars) /\ Len(s) = (d - 1) - i
        /\ \A k \in 1..((d - 1) - i) : s[k] = text[(i + 1) + k - 1]
    BY <1>1, <1>2, <1>4, SubSeqProperties
  <2>2. DOMAIN s = 1..((d - 1) - i) /\ s # <<>>
    BY <1>1, <1>4, <2>1
  <2>3. \A k \in 1..((d - 1) - i) : k + i \in (i + 1)..(d - 1) /\ s[k] = text[k + i]
    BY <1>1, <2>1
  <2>4. \A k \in (i + 1)..(d - 1) : k - i \in 1..((d - 1) - i) /\ s[k - i] = text[k]
    <3> TAKE k \in (i + 1)..(d - 1)
    <3>1. k - i \in 1..((d - 1) - i) /\ (k - i) + i = k
      BY <1>1
    <3> QED BY <2>3, <3>1
  <2>5. ASSUME NEW P
        PROVE  (\A k \in 1..((d - 1) - i) : s[k] \in P) <=> \A k \in (i + 1)..(d - 1) : text[k] \in P
    <3>1. ASSUME \A k \in 1..((d - 1) - i) : s[k] \in P, NEW k \in (i + 1)..(d - 1) PROVE text[k] \in P
      BY <2>4, <3>1
    <3>2. ASSUME \A k \in (i + 1)..(d - 1) : text[k] \in P, NEW k \in 1..((d - 1) - i) PROVE s[k] \in P
      BY <2>3, <3>2
    <3> QED BY <3>1, <3>2
  <2> QED BY <1>2, <1>4, <2>2, <2>5
<1>5. d = i + 1 \/ d > i + 1
  BY <1>1
<1> QED BY <1>3, <1>4, <1>5

\* A separator is a run of apostrophes when the characters it spans are.
LEMMA ApostropheRun ==
  ASSUME text \in Seq(Chars), Plain, NEW i \in Alnums, NEW d \in Alnums, i < d
  PROVE  separator_is_apostrophe_run(SubSeq(text, i + 1, d - 1)) <=> Run(i, d, Quotes \cup Ticks)
<1>1. PICK s : s = SubSeq(text, i + 1, d - 1)
  OBVIOUS
<1>2. separator_is_apostrophe_run(s) <=>
        s # <<>> /\ \A k \in DOMAIN s : s[k] \in Quotes \cup Ticks \cup Modifiers
  BY DEF separator_is_apostrophe_run, is_apostrophe_like
<1>3. /\ s # <<>> <=> d > i + 1
      /\ (\A k \in DOMAIN s : s[k] \in Quotes \cup Ticks \cup Modifiers)
           <=> \A k \in (i + 1)..(d - 1) : text[k] \in Quotes \cup Ticks \cup Modifiers
  BY <1>1, SeparatorFacts
<1>4. \A k \in (i + 1)..(d - 1) : text[k] \notin Modifiers
  <2>1. \A k \in (i + 1)..(d - 1) : k \in DOMAIN text
    BY AlnumFacts
  <2> QED BY <2>1 DEF Plain
<1> QED BY <1>1, <1>2, <1>3, <1>4 DEF Run

\* A separator is a run of dashes when the characters it spans are.
LEMMA DashRun ==
  ASSUME text \in Seq(Chars), NEW i \in Alnums, NEW d \in Alnums, i < d
  PROVE  separator_is_dash_run(SubSeq(text, i + 1, d - 1)) <=> Run(i, d, Dashes)
<1>1. PICK s : s = SubSeq(text, i + 1, d - 1)
  OBVIOUS
<1>2. separator_is_dash_run(s) <=> s # <<>> /\ \A k \in DOMAIN s : s[k] \in Dashes
  BY DEF separator_is_dash_run, is_dash_like
<1>3. /\ s # <<>> <=> d > i + 1
      /\ (\A k \in DOMAIN s : s[k] \in Dashes) <=> \A k \in (i + 1)..(d - 1) : text[k] \in Dashes
  BY <1>1, SeparatorFacts
<1> QED BY <1>1, <1>2, <1>3 DEF Run

\* In a list of intervals that holds k: what is after the first n of them is
\* not before the next.
LEMMA NoGap ==
  ASSUME NEW N \in Nat, NEW a, NEW b,
         \A m \in 1..N : a[m] \in Int /\ b[m] \in Int /\ a[m] <= b[m],
         \A m, n \in 1..N : m < n => b[m] < a[n],
         NEW k \in Int, NEW j \in 1..N, a[j] <= k, k <= b[j],
         NEW n \in 0..N, n = 0 \/ b[n] < k
  PROVE  n + 1 \in 1..N /\ a[n + 1] <= k
<1>1. j > n
  <2>1. SUFFICES ASSUME j <= n PROVE FALSE
    OBVIOUS
  <2>2. n \in 1..N /\ b[n] < k
    BY <2>1
  <2>3. CASE j = n
    BY <2>2, <2>3
  <2>4. CASE j < n
    <3>1. b[j] < a[n] /\ a[n] <= b[n] /\ b[j] \in Int /\ a[n] \in Int /\ b[n] \in Int
      BY <2>2, <2>4
    <3> QED BY <2>2, <3>1
  <2> QED BY <2>1, <2>3, <2>4
<1>2. n + 1 \in 1..N
  BY <1>1
<1>3. CASE j = n + 1
  BY <1>3
<1>4. CASE j > n + 1
  <2>1. b[n + 1] < a[j] /\ a[n + 1] <= b[n + 1]
    BY <1>2, <1>4
  <2>2. a[n + 1] \in Int /\ b[n + 1] \in Int /\ a[j] \in Int
    BY <1>2
  <2> QED BY <1>2, <2>1, <2>2
<1> QED BY <1>1, <1>2, <1>3, <1>4

\* Where a list of tokens is empty there is no alphanumeric character.
LEMMA BlocksEmpty ==
  ASSUME NEW lo, NEW c, NEW L, Blocks(<<>>, lo, c, L) PROVE Alnums \cap lo..c = {}
<1>1. \A m \in 1..Len(<<>>) : FALSE
  OBVIOUS
<1> QED BY <1>1 DEF Blocks

\* A sequence that is not empty is its front and its last token.
LEMMA FrontLast ==
  ASSUME NEW ts \in Seq(Token), ts # <<>>
  PROVE  /\ Front(ts) \in Seq(Token) /\ Last(ts) \in Token /\ Append(Front(ts), Last(ts)) = ts
         /\ Last(ts) = ts[Len(ts)] /\ Len(ts) \in 1..Len(ts)
<1> HIDE DEF Token
<1>1. Len(ts) \in Nat /\ Len(ts) > 0
  OBVIOUS
<1>2. /\ Front(ts) \in Seq(Token) /\ Len(Front(ts)) = Len(ts) - 1
      /\ \A i \in 1..(Len(ts) - 1) : Front(ts)[i] = ts[i]
  <2>1. /\ 1 \in Int /\ Len(ts) - 1 \in Int /\ \A i \in 1..(Len(ts) - 1) : ts[i] \in Token
        /\ 1 <= Len(ts) - 1 \/ Len(ts) - 1 = 0
    <3>1. \A i \in 1..(Len(ts) - 1) : i \in 1..Len(ts)
      BY <1>1
    <3>2. \A i \in 1..(Len(ts) - 1) : ts[i] \in Token
      BY <3>1, ElementOfSeq
    <3>3. Len(ts) - 1 \in Int /\ (1 <= Len(ts) - 1 \/ Len(ts) - 1 = 0)
      <4>1. PICK n \in Nat : n = Len(ts)
        BY <1>1
      <4>2. n - 1 \in Int /\ (1 <= n - 1 \/ n - 1 = 0)
        BY <1>1, <4>1
      <4> QED BY <4>1, <4>2
    <3> QED BY <3>2, <3>3
  <2>2. /\ Front(ts) \in Seq(Token)
        /\ Len(Front(ts)) = IF 1 <= Len(ts) - 1 THEN (Len(ts) - 1) - 1 + 1 ELSE 0
        /\ \A i \in 1..((Len(ts) - 1) - 1 + 1) : Front(ts)[i] = ts[1 + i - 1]
    BY <2>1, SubSeqProperties DEF Front
  <2>3. Len(Front(ts)) = Len(ts) - 1
    BY <1>1, <2>1, <2>2
  <2>4. \A i \in 1..(Len(ts) - 1) : i \in 1..((Len(ts) - 1) - 1 + 1) /\ 1 + i - 1 = i
    BY <1>1
  <2> QED BY <2>2, <2>3, <2>4
<1>3. Last(ts) = ts[Len(ts)] /\ Last(ts) \in Token
  BY <1>1 DEF Last
<1>4. PICK us : us = Append(Front(ts), Last(ts))
  OBVIOUS
<1>5. /\ us \in Seq(Token) /\ Len(us) = Len(ts) /\ us[Len(ts)] = ts[Len(ts)]
      /\ \A i \in 1..(Len(ts) - 1) : us[i] = ts[i]
  <2>1. (Len(ts) - 1) + 1 = Len(ts)
    BY <1>1
  <2> QED BY <1>2, <1>3, <1>4, <2>1, AppendProperties
<1>6. \A i \in 1..Len(ts) : us[i] = ts[i]
  BY <1>1, <1>5
<1>7. us = ts
  BY <1>5, <1>6, SeqEqual
<1> QED BY <1>1, <1>2, <1>3, <1>4, <1>7

\* Of the tokens so far only the last can be linked to what follows.
LEMMA LinkedToLast ==
  ASSUME text \in Seq(Chars), NEW L, Neighbours(L), NEW ts, NEW lo \in Int, NEW c \in Int,
         Blocks(ts, lo, c, L), NEW d \in Alnums, c < d,
         NEW k \in Alnums \cap lo..c, NEW R, Neighbours(R), <<k, d>> \in R
  PROVE  ts # <<>> /\ k = Last(ts).to
<1>1. \A i \in Alnums : i \in Int
  BY AlnumFacts
<1>2. PICK m \in 1..Len(ts) : ts[m].from < k /\ k <= ts[m].to
  BY DEF Blocks
<1>3. Len(ts) \in Nat /\ ts[m].to \in Alnums /\ ts[m].to <= c
  BY BlockFacts
<1>4. \A i \in Alnums : ~(k < i /\ i < d)
  BY DEF Neighbours
<1>5. k = ts[m].to
  BY SMTT(60), <1>1, <1>2, <1>3, <1>4
<1>6. Len(ts) \in 1..Len(ts) /\ ts \in Seq(Token) /\ ts # <<>>
  <2> HIDE DEF Token
  <2>1. ts \in Seq(Token)
    BY DEF Blocks
  <2> QED BY <1>3, <2>1
<1>7. PICK n \in 1..Len(ts) : n = Len(ts)
  BY <1>6
<1>8. ts[n].to \in Alnums /\ ts[n].to <= c /\ ts[n].from < ts[n].to /\ ts[n].from \in Int
  BY BlockFacts
<1>9. CASE m = n
  BY <1>5, <1>6, <1>7, <1>9, FrontLast
<1>10. CASE m < n
  <2>1. ts[m].to <= ts[n].from
    BY <1>10 DEF Blocks
  <2>2. k < ts[n].to /\ ts[n].to < d
    BY SMTT(60), <1>1, <1>5, <1>8, <2>1
  <2> QED BY <1>4, <1>8, <2>2
<1> QED BY <1>3, <1>7, <1>9, <1>10

\* Merging one more token of a word.
LEMMA MergeStep ==
  ASSUME text \in Seq(Chars), Plain, NEW w, IsWord(w), Begins(text, w[1]),
         \A k \in w[1]..(w[2] - 1) : Joined(text, k),
         NEW ts, NEW c \in Int, Blocks(ts, 1, c, Bonds),
         NEW y, SpanOf(y) \in Spans(Alnums \cap w[1]..w[2], WordLinks(w)), y = TokenOf(SpanOf(y)),
         c < y.from + 1, \A k \in Alnums : ~(c < k /\ k < y.from + 1)
  PROVE  Blocks(Merge(text, ts, y), 1, y.to, Bonds)
<1>1. \A i \in Alnums : i \in Int /\ i >= 1
  BY AlnumFacts
<1>2. PICK d, e : d = y.from + 1 /\ e = y.to
  OBVIOUS
<1>3. SpanOf(y) = <<d, e>> /\ y = TokenOf(<<d, e>>)
  BY <1>2 DEF SpanOf
<1>4. /\ d \in Alnums /\ e \in Alnums /\ d <= e /\ w[1] <= d /\ e <= w[2] /\ d <= w[2] /\ 1 <= d
      /\ w[1] \in Int /\ w[2] \in Int /\ w[1] >= 1
      /\ \A k \in (Alnums \cap w[1]..w[2]) \cap d..(e - 1) :
           \E j \in (Alnums \cap w[1]..w[2]) \cap (k + 1)..e : <<k, j>> \in WordLinks(w)
      /\ ~ \E i \in Alnums \cap w[1]..w[2] : i < d /\ <<i, d>> \in WordLinks(w)
  <2>1. PICK s \in Spans(Alnums \cap w[1]..w[2], WordLinks(w)) : s = <<d, e>> /\ s[1] = d /\ s[2] = e
    BY <1>3
  <2>2. /\ s \in (Alnums \cap w[1]..w[2]) \X (Alnums \cap w[1]..w[2]) /\ s[1] <= s[2]
        /\ \A k \in (Alnums \cap w[1]..w[2]) \cap s[1]..(s[2] - 1) :
             \E j \in (Alnums \cap w[1]..w[2]) \cap (k + 1)..s[2] : <<k, j>> \in WordLinks(w)
        /\ ~ \E i \in Alnums \cap w[1]..w[2] : i < s[1] /\ <<i, s[1]>> \in WordLinks(w)
    BY DEF Spans
  <2>3. w[1] \in Int /\ w[2] \in Int /\ w[1] >= 1
    BY DEF IsWord
  <2>4. d \in Alnums /\ e \in Alnums /\ d <= e /\ d \in w[1]..w[2] /\ e \in w[1]..w[2]
    BY <2>1, <2>2
  <2>5. w[1] <= d /\ e <= w[2] /\ d <= w[2] /\ 1 <= d
    BY <1>1, <2>3, <2>4
  <2> QED BY <2>1, <2>2, <2>3, <2>4, <2>5
<1>5. c < d /\ \A k \in Alnums : ~(c < k /\ k < d)
  BY <1>2
<1>6. Neighbours(Bonds)
  BY BondNeighbours
<1>7. Connected(d, e, Bonds)
  <2>1. SUFFICES ASSUME NEW k \in Alnums \cap d..(e - 1)
                 PROVE  \E j \in Alnums \cap (k + 1)..e : <<k, j>> \in Bonds
    BY DEF Connected
  <2>2. k \in w[1]..(w[2] - 1) /\ k \in w[1]..w[2]
    BY <1>1, <1>4
  <2>3. PICK j \in Alnums \cap (k + 1)..e : <<k, j>> \in WordLinks(w)
    BY <1>4, <2>2
  <2>4. CASE j = k + 1
    <3>1. Joined(text, k)
      BY <2>2
    <3> QED BY <2>4, <3>1 DEF Bonds
  <2>5. CASE j = k + 2 /\ is_apostrophe_like(text[k + 1])
    <3>1. k + 1 \in DOMAIN text
      <4>1. k \in 1..Len(text) /\ j \in 1..Len(text) /\ Len(text) \in Nat
        BY AlnumFacts
      <4> QED BY <2>5, <4>1
    <3>2. text[k + 1] \in Quotes \cup Ticks
      BY <2>5, <3>1 DEF is_apostrophe_like, Plain
    <3>3. j > k + 1 /\ \A i \in (k + 1)..(j - 1) : i = k + 1
      BY <1>1, <2>5
    <3>4. Run(k, j, Quotes \cup Ticks)
      BY <3>2, <3>3 DEF Run
    <3> QED BY <3>4 DEF Bonds
  <2> QED BY <2>3, <2>4, <2>5 DEF WordLinks
<1>8. ts \in Seq(Token)
  BY DEF Blocks
<1>9. ASSUME ts # <<>>
      PROVE  /\ Last(ts).to \in Alnums /\ Last(ts).to < d /\ Last(ts).to \in 1..c
             /\ separator_is_apostrophe_run(Separator(text, Last(ts), y))
                  <=> <<Last(ts).to, d>> \in Bonds /\ d # Last(ts).to + 1
  <2>1. PICK n \in 1..Len(ts) : n = Len(ts) /\ Last(ts) = ts[n]
    BY <1>8, <1>9, FrontLast
  <2>2. ts[n].to \in Alnums /\ ts[n].to <= c
    <3>1. 1 \in Int
      OBVIOUS
    <3> QED BY <3>1, BlockFacts
  <2>3. PICK i \in Alnums : i = Last(ts).to /\ i < d
    BY <1>1, <1>4, <1>5, <2>1, <2>2
  <2>4. Separator(text, Last(ts), y) = SubSeq(text, i + 1, d - 1)
    <3>1. y.from = d - 1
      BY <1>3, <1>4, TokenOfType
    <3> QED BY <2>3, <3>1 DEF Separator
  <2>5. separator_is_apostrophe_run(SubSeq(text, i + 1, d - 1)) <=> Run(i, d, Quotes \cup Ticks)
    BY <1>4, <2>3, ApostropheRun
  <2>6. Run(i, d, Quotes \cup Ticks) <=> <<i, d>> \in Bonds /\ d # i + 1
    BY SMTT(60), <1>1, <1>4 DEF Bonds, Run
  <2> QED BY <1>1, <2>1, <2>2, <2>3, <2>4, <2>5, <2>6
<1>10. CASE ts # <<>> /\ separator_is_apostrophe_run(Separator(text, Last(ts), y))
  <2>1. PICK us \in Seq(Token), x \in Token :
          us = Front(ts) /\ x = Last(ts) /\ ts = Append(us, x)
    BY <1>8, <1>10, FrontLast
  <2>2. <<x.to, d>> \in Bonds /\ 1 \in Int
    BY <1>9, <1>10, <2>1
  <2>3. Blocks(Append(us, Combine(x, TokenOf(<<d, e>>))), 1, e, Bonds)
    <3>1. Blocks(Append(us, x), 1, c, Bonds)
      BY <2>1
    <3> QED BY <1>4, <1>5, <1>6, <1>7, <2>2, <3>1, BlockJoined
  <2> QED BY <1>2, <1>3, <1>10, <2>1, <2>3 DEF Merge
<1>11. CASE ~(ts # <<>> /\ separator_is_apostrophe_run(Separator(text, Last(ts), y)))
  <2>1. ASSUME NEW k \in Alnums \cap 1..c, <<k, d>> \in Bonds PROVE FALSE
    <3>1. ts # <<>> /\ k = Last(ts).to
      BY <1>4, <1>5, <1>6, <2>1, LinkedToLast
    <3>2. d = k + 1
      BY <1>9, <1>11, <2>1, <3>1
    <3>3. Joined(text, k)
      BY <1>1, <2>1, <3>2 DEF Bonds, Run
    <3>4. k = d - 1 /\ k \in Int /\ k >= 1 /\ d \in Int
      BY <1>1, <3>2
    <3>5. w[1] # d
      BY <3>3, <3>4 DEF Begins
    <3>6. k \in Alnums \cap w[1]..w[2] /\ k < d
      BY <1>4, <3>4, <3>5
    <3>7. <<k, d>> \in WordLinks(w)
      BY <1>4, <3>2, <3>6 DEF WordLinks
    <3> QED BY <1>4, <3>6, <3>7
  <2>2. Blocks(Append(ts, TokenOf(<<d, e>>)), 1, e, Bonds)
    BY SMTT(60), <1>4, <1>5, <1>6, <1>7, <2>1, BlockAdded
  <2> QED BY <1>2, <1>3, <1>11, <2>2 DEF Merge
<1> QED BY <1>10, <1>11

\* Merging the tokens of a word.
LEMMA MergeWordBlocks ==
  ASSUME text \in Seq(Chars), Plain, NEW w, IsWord(w), Begins(text, w[1]),
         \A k \in w[1]..(w[2] - 1) : Joined(text, k),
         NEW ts \in Seq(Token), Blocks(ts, 1, w[1] - 1, Bonds)
  PROVE  Blocks(MergeWord(text, ts, w), 1, w[2], Bonds)
<1>1. w[1] \in Int /\ w[2] \in Int /\ w[1] <= w[2] /\ \A k \in Alnums : k \in Int /\ k >= 1
  BY AlnumFacts DEF IsWord
<1>2. PICK ys : ys = split_word_tokens(text, w)
  OBVIOUS
<1>3. Blocks(ys, w[1], w[2], WordLinks(w))
  BY <1>2, SplitBlocks
<1>4. ys \in Seq(Token) /\ Len(ys) \in Nat
  <2> HIDE DEF Token
  <2> QED BY <1>3 DEF Blocks
<1>5. PICK f : WordMerged(f, text, ts, w, ys)
  BY <1>2, <1>4, MergeWordHistory
<1>6. /\ f \in [0..Len(ys) -> Seq(Token)] /\ f[0] = ts
      /\ \A n \in 1..Len(ys) : f[n] = Merge(text, f[n - 1], ys[n])
      /\ MergeWord(text, ts, w) = f[Len(ys)]
  BY <1>5 DEF WordMerged
<1>7. PICK N \in Nat : N = Len(ys)
  BY <1>4
<1>8. \A n \in 1..N : /\ ys[n].from \in Int /\ ys[n].to \in Int /\ ys[n].from < ys[n].to
                      /\ ys[n].from + 1 >= w[1] /\ ys[n].to <= w[2] /\ ys[n].from + 1 \in Alnums
  BY SMTT(60), <1>1, <1>3, <1>7, BlockFacts
<1> DEFINE reach(n) == IF n = 0 THEN w[1] - 1 ELSE ys[n].to
           a == [n \in 1..N |-> ys[n].from + 1]
           b == [n \in 1..N |-> ys[n].to]
<1>9. \A m \in 1..N : a[m] \in Int /\ b[m] \in Int /\ a[m] <= b[m]
  BY <1>8
<1>10. \A m, n \in 1..N : m < n => b[m] < a[n]
  <2> TAKE m \in 1..N, n \in 1..N
  <2> HAVE m < n
  <2>1. ys[m].to <= ys[n].from
    BY <1>3, <1>7 DEF Blocks
  <2> QED BY <1>8, <2>1
<1>11. ASSUME NEW n \in 0..N
      PROVE  /\ reach(n) \in Int /\ reach(n) >= w[1] - 1 /\ reach(n) <= w[2]
             /\ n + 1 \in 1..N => reach(n) < ys[n + 1].from + 1
             /\ \A k \in Alnums : reach(n) < k /\ k <= w[2] =>
                  n + 1 \in 1..N /\ ys[n + 1].from + 1 <= k
  <2>1. reach(n) \in Int /\ reach(n) >= w[1] - 1 /\ reach(n) <= w[2]
    <3>1. CASE n = 0
      BY <1>1, <3>1
    <3>2. CASE n # 0
      <4>1. n \in 1..N
        BY <3>2
      <4> QED BY SMTT(60), <1>1, <1>8, <3>2, <4>1
    <3> QED BY <3>1, <3>2
  <2>2. n + 1 \in 1..N => reach(n) < ys[n + 1].from + 1
    <3>1. CASE n = 0
      BY <1>1, <1>8, <3>1
    <3>2. CASE n # 0
      <4>1. n \in 1..N
        BY <3>2
      <4> QED BY <1>10, <3>2, <4>1
    <3> QED BY <3>1, <3>2
  <2>3. ASSUME NEW k \in Alnums, reach(n) < k, k <= w[2]
        PROVE  n + 1 \in 1..N /\ ys[n + 1].from + 1 <= k
    <3>1. k \in Int /\ k \in w[1]..w[2]
      BY <1>1, <2>1, <2>3
    <3>2. PICK j \in 1..N : ys[j].from < k /\ k <= ys[j].to
      BY <1>3, <1>7, <3>1 DEF Blocks
    <3>3. a[j] <= k /\ k <= b[j]
      BY <1>8, <3>1, <3>2
    <3>4. n = 0 \/ b[n] < k
      BY <2>3
    <3>5. n + 1 \in 1..N /\ a[n + 1] <= k
      <4> HIDE DEF a, b
      <4> QED BY <1>9, <1>10, <3>1, <3>3, <3>4, NoGap
    <3> QED BY <3>5
  <2> QED BY <2>1, <2>2, <2>3
<1> DEFINE T == {n \in 0..N : Blocks(f[n], 1, reach(n), Bonds)}
<1>12. 0 \in T
  BY <1>6
<1>13. ASSUME NEW n \in (0 + 1)..N, n - 1 \in T PROVE n \in T
  <2>1. n \in 1..N /\ n - 1 \in 0..N /\ (n - 1) + 1 = n
    OBVIOUS
  <2>2. PICK c \in Int : c = reach(n - 1)
    BY <1>11, <2>1
  <2>3. Blocks(f[n - 1], 1, c, Bonds)
    BY <1>13, <2>2
  <2>4. c < ys[n].from + 1 /\ \A k \in Alnums : c < k /\ k <= w[2] => ys[n].from + 1 <= k
    BY <1>11, <2>1, <2>2
  <2>5. \A k \in Alnums : ~(c < k /\ k < ys[n].from + 1)
    <3> SUFFICES ASSUME NEW k \in Alnums, c < k, k < ys[n].from + 1 PROVE FALSE
      OBVIOUS
    <3>1. k <= w[2]
      <4>1. ys[n].from \in Int /\ ys[n].to \in Int /\ ys[n].from < ys[n].to /\ ys[n].to <= w[2]
        BY <1>8, <2>1
      <4>2. k \in Int /\ w[2] \in Int
        BY <1>1
      <4> QED BY <4>1, <4>2
    <3> QED BY SMTT(60), <1>1, <1>8, <2>1, <2>4, <3>1
  <2>6. SpanOf(ys[n]) \in Spans(Alnums \cap w[1]..w[2], WordLinks(w)) /\ ys[n] = TokenOf(SpanOf(ys[n]))
    BY <1>3, <1>7, <2>1 DEF Blocks
  <2>7. Blocks(Merge(text, f[n - 1], ys[n]), 1, ys[n].to, Bonds)
    BY <2>3, <2>4, <2>5, <2>6, MergeStep
  <2>8. f[n] = Merge(text, f[n - 1], ys[n])
    BY <1>6, <1>7, <2>1
  <2> QED BY <2>1, <2>7, <2>8
<1>14. N \in T
  <2>1. \A n \in 0..N : n \in T
    <3>1. 0 \in Nat /\ 0 <= N
      OBVIOUS
    <3> HIDE DEF T
    <3> QED BY <1>12, <1>13, <3>1, Upwards
  <2> QED BY <2>1
<1>15. Alnums \cap 1..reach(N) = Alnums \cap 1..w[2]
  <2>1. N \in 0..N /\ N + 1 \notin 1..N
    OBVIOUS
  <2>2. reach(N) \in Int /\ reach(N) <= w[2] /\ \A k \in Alnums : ~(reach(N) < k /\ k <= w[2])
    BY <1>11, <2>1
  <2> HIDE DEF reach
  <2> QED BY <1>1, <2>2
<1>16. Blocks(f[N], 1, w[2], Bonds)
  <2>1. Blocks(f[N], 1, reach(N), Bonds)
    BY <1>14
  <2> HIDE DEF reach
  <2> QED BY <1>15, <2>1, BlockSame
<1> QED BY <1>6, <1>7, <1>16

\* The merged tokens are the longest bonded spans.
LEMMA MergedBlocks ==
  ASSUME text \in Seq(Chars), Plain
  PROVE  Blocks(merged_tokens(text), 1, Len(text), Bonds)
<1>1. Len(text) \in Nat /\ \A k \in Alnums : k \in Int /\ k >= 1 /\ k <= Len(text)
  BY AlnumFacts
<1>2. PICK ws : ws = Words(text)
  OBVIOUS
<1>3. /\ Len(ws) \in Nat /\ Placed(text, ws)
      /\ \A n \in 1..Len(ws) : /\ Begins(text, ws[n][1])
                               /\ \A k \in ws[n][1]..(ws[n][2] - 1) : Joined(text, k)
      /\ \A m, n \in 1..Len(ws) : m < n => ws[m][2] < ws[n][1]
      /\ \A k \in Alnums : \E n \in 1..Len(ws) : ws[n][1] <= k /\ k <= ws[n][2]
  BY <1>2, WordsFacts DEF Alnums
<1>4. PICK N \in Nat : N = Len(ws)
  BY <1>3
<1>5. PICK f \in [0..N -> Seq(Token)] :
           /\ f[0] = <<>>
           /\ \A n \in 1..N : f[n] = MergeWord(text, f[n - 1], ws[n])
           /\ merged_tokens(text) = f[N]
  BY <1>2, <1>3, <1>4, MergedHistory
<1>6. \A n \in 1..N : /\ IsWord(ws[n]) /\ ws[n][1] \in Int /\ ws[n][2] \in Int
                      /\ ws[n][1] <= ws[n][2] /\ 1 <= ws[n][1] /\ ws[n][2] <= Len(text)
  BY <1>3, <1>4 DEF Placed, IsWord
<1> DEFINE reach(n) == IF n = 0 THEN 0 ELSE ws[n][2]
           a == [n \in 1..N |-> ws[n][1]]
           b == [n \in 1..N |-> ws[n][2]]
<1>7. \A m \in 1..N : a[m] \in Int /\ b[m] \in Int /\ a[m] <= b[m]
  BY <1>6
<1>8. \A m, n \in 1..N : m < n => b[m] < a[n]
  BY <1>3, <1>4
<1>9. ASSUME NEW n \in 0..N
      PROVE  /\ reach(n) \in Int /\ reach(n) <= Len(text)
             /\ n + 1 \in 1..N => reach(n) < ws[n + 1][1]
             /\ \A k \in Alnums : reach(n) < k => n + 1 \in 1..N /\ ws[n + 1][1] <= k
  <2>1. reach(n) \in Int /\ reach(n) <= Len(text)
    <3>1. CASE n = 0
      BY <1>1, <3>1
    <3>2. CASE n # 0
      <4>1. n \in 1..N
        BY <3>2
      <4> QED BY <1>6, <3>2, <4>1
    <3> QED BY <3>1, <3>2
  <2>2. n + 1 \in 1..N => reach(n) < ws[n + 1][1]
    <3>1. CASE n = 0
      BY <1>6, <3>1
    <3>2. CASE n # 0
      <4>1. n \in 1..N
        BY <3>2
      <4> QED BY <1>8, <3>2, <4>1
    <3> QED BY <3>1, <3>2
  <2>3. ASSUME NEW k \in Alnums, reach(n) < k PROVE n + 1 \in 1..N /\ ws[n + 1][1] <= k
    <3>1. PICK j \in 1..N : ws[j][1] <= k /\ k <= ws[j][2]
      BY <1>3, <1>4
    <3>2. k \in Int /\ a[j] <= k /\ k <= b[j]
      BY <1>1, <3>1
    <3>3. n = 0 \/ b[n] < k
      BY <2>3
    <3>4. n + 1 \in 1..N /\ a[n + 1] <= k
      <4> HIDE DEF a, b
      <4> QED BY <1>7, <1>8, <3>2, <3>3, NoGap
    <3> QED BY <3>4
  <2> QED BY <2>1, <2>2, <2>3
<1> DEFINE T == {n \in 0..N : Blocks(f[n], 1, reach(n), Bonds)}
<1>10. 0 \in T
  <2>1. Alnums \cap 1..0 = {}
    OBVIOUS
  <2>2. Blocks(<<>>, 1, 0, Bonds)
    BY <2>1, NoBlock
  <2> QED BY <1>5, <2>2
<1>11. ASSUME NEW n \in (0 + 1)..N, n - 1 \in T PROVE n \in T
  <2>1. n \in 1..N /\ n - 1 \in 0..N /\ (n - 1) + 1 = n /\ f[n - 1] \in Seq(Token)
    OBVIOUS
  <2>2. PICK c \in Int : c = reach(n - 1)
    BY <1>9, <2>1
  <2>3. Blocks(f[n - 1], 1, c, Bonds)
    BY <1>11, <2>2
  <2>4. c < ws[n][1] /\ ws[n][1] \in Int /\ \A k \in Alnums : c < k => ws[n][1] <= k
    BY <1>6, <1>9, <2>1, <2>2
  <2>5. Alnums \cap 1..c = Alnums \cap 1..(ws[n][1] - 1)
    <3>1. ASSUME NEW k \in Alnums PROVE k <= c <=> k <= ws[n][1] - 1
      <4>1. PICK d \in Int : d = ws[n][1]
        BY <2>4
      <4>2. k \in Int /\ c < d /\ (c < k => d <= k)
        BY <1>1, <2>4, <4>1
      <4> QED BY SMTT(60), <4>1, <4>2
    <3>2. \A k \in Alnums : k \in Int /\ k >= 1
      BY <1>1
    <3>3. ws[n][1] - 1 \in Int
      BY <2>4
    <3> QED BY <3>1, <3>2, <3>3
  <2>6. Blocks(f[n - 1], 1, ws[n][1] - 1, Bonds)
    BY <2>3, <2>5, BlockSame
  <2>7. Blocks(MergeWord(text, f[n - 1], ws[n]), 1, ws[n][2], Bonds)
    BY <1>3, <1>4, <1>6, <2>1, <2>6, MergeWordBlocks
  <2>8. f[n] = MergeWord(text, f[n - 1], ws[n])
    BY <1>5, <2>1
  <2> QED BY <2>1, <2>7, <2>8
<1>12. N \in T
  <2>1. \A n \in 0..N : n \in T
    <3>1. 0 \in Nat /\ 0 <= N
      OBVIOUS
    <3> HIDE DEF T
    <3> QED BY <1>10, <1>11, <3>1, Upwards
  <2> QED BY <2>1
<1>13. Alnums \cap 1..reach(N) = Alnums \cap 1..Len(text)
  <2>1. N \in 0..N /\ N + 1 \notin 1..N
    OBVIOUS
  <2>2. reach(N) \in Int /\ reach(N) <= Len(text) /\ \A k \in Alnums : ~(reach(N) < k)
    BY <1>9, <2>1
  <2> HIDE DEF reach
  <2> QED BY <1>1, <2>2
<1>14. Blocks(f[N], 1, Len(text), Bonds)
  <2>1. Blocks(f[N], 1, reach(N), Bonds)
    BY <1>12
  <2> HIDE DEF reach
  <2> QED BY <1>13, <2>1, BlockSame
<1> QED BY <1>5, <1>14

-----------------------------------------------------------------------------
(* Expanding *)

Links == Bonds \cup Bridges

\* Bonds and bridges together are links between neighbours.
LEMMA LinkNeighbours == ASSUME text \in Seq(Chars), Plain PROVE Neighbours(Links)
BY BondNeighbours, BridgeNeighbours DEF Neighbours, Links

\* One element more.
LEMMA AppendElements ==
  ASSUME NEW S, NEW xs \in Seq(S), NEW y \in S
  PROVE  ToSet(Append(xs, y)) = ToSet(xs) \cup {y}
<1>1. PICK us : us = Append(xs, y)
  OBVIOUS
<1>2. /\ Len(xs) \in Nat /\ DOMAIN xs = 1..Len(xs) /\ DOMAIN us = 1..(Len(xs) + 1)
      /\ us[Len(xs) + 1] = y /\ \A i \in 1..Len(xs) : us[i] = xs[i]
  BY <1>1, AppendProperties
<1>3. DOMAIN us = DOMAIN xs \cup {Len(xs) + 1}
  BY <1>2
<1> QED BY <1>1, <1>2, <1>3 DEF ToSet

\* The order of the tokens: by their ends, the shorter first.
Precedes(x, y) == x.to < y.to \/ (x.to = y.to /\ x.from > y.from)

\* The offsets of a token are numbers.
LEMMA TokenFacts ==
  ASSUME NEW x \in Token
  PROVE  x.from \in Int /\ x.to \in Int /\ x.from >= 0 /\ x.to >= 0
BY DEF Token

\* A token that ends earlier comes first.
LEMMA EndsEarlier ==
  ASSUME NEW x \in Token, NEW y \in Token, x.to < y.to PROVE Precedes(x, y)
<1>1. x.to \in Int /\ y.to \in Int
  BY TokenFacts
<1> QED BY <1>1 DEF Precedes

\* Of two that end together the shorter comes first.
LEMMA BeginsLater ==
  ASSUME NEW x \in Token, NEW y \in Token, x.to = y.to, x.from > y.from PROVE Precedes(x, y)
<1>1. x.from \in Int /\ y.from \in Int /\ x.to \in Int
  BY TokenFacts
<1> QED BY <1>1 DEF Precedes

Sorted(xs) == \A i, j \in 1..Len(xs) : i < j => Precedes(xs[i], xs[j])

\* A token that all others precede.
LEMMA SortedAppend ==
  ASSUME NEW xs \in Seq(Token), Sorted(xs), NEW y \in Token,
         \A i \in 1..Len(xs) : Precedes(xs[i], y)
  PROVE  Sorted(Append(xs, y))
<1>1. PICK us : us = Append(xs, y)
  OBVIOUS
<1>2. /\ Len(xs) \in Nat /\ Len(us) = Len(xs) + 1 /\ us[Len(xs) + 1] = y
      /\ \A i \in 1..Len(xs) : us[i] = xs[i]
  <2> HIDE DEF Token
  <2> QED BY <1>1, AppendProperties
<1>3. ASSUME NEW i \in 1..Len(us), NEW j \in 1..Len(us), i < j PROVE Precedes(us[i], us[j])
  <2>1. i \in 1..Len(xs) /\ (j \in 1..Len(xs) \/ j = Len(xs) + 1)
    BY <1>2, <1>3
  <2> QED BY <1>2, <1>3, <2>1 DEF Sorted
<1> QED BY <1>1, <1>3 DEF Sorted

\* Tokens that end by c, and one more.
EndBy(xs, c) == \A i \in 1..Len(xs) : xs[i].to <= c

\* A token that ends no earlier can be appended.
LEMMA EndByAppend ==
  ASSUME NEW xs \in Seq(Token), NEW c \in Int, EndBy(xs, c), NEW y \in Token, c <= y.to
  PROVE  EndBy(Append(xs, y), y.to)
<1>1. PICK us : us = Append(xs, y)
  OBVIOUS
<1>2. /\ Len(xs) \in Nat /\ Len(us) = Len(xs) + 1 /\ us[Len(xs) + 1] = y
      /\ \A i \in 1..Len(xs) : us[i] = xs[i] /\ xs[i] \in Token
  <2> HIDE DEF Token
  <2> QED BY <1>1, AppendProperties
<1>3. ASSUME NEW i \in 1..Len(us) PROVE us[i].to <= y.to
  <2>1. y.to \in Int
    BY DEF Token
  <2>2. CASE i \in 1..Len(xs)
    <3>1. xs[i] \in Token /\ xs[i].to <= c
      BY <1>2, <2>2 DEF EndBy
    <3>2. xs[i].to \in Int
      BY <3>1, TokenFacts
    <3> QED BY <1>2, <2>1, <2>2, <3>1, <3>2
  <2>3. CASE i = Len(xs) + 1
    BY <1>2, <2>1, <2>3
  <2> QED BY <1>2, <2>2, <2>3
<1> QED BY <1>1, <1>3 DEF EndBy

\* Where the first n tokens end.
Reach(ts, n) == IF n = 0 THEN 0 ELSE ts[n].to

\* After n tokens: the longest linked spans so far, of which all but the run
\* are among the tokens.
Expansion(s, ts, n, gs, us) ==
  /\ gs \in Seq(Token) /\ us \in Seq(Token) /\ Blocks(us, 1, Reach(ts, n), Links)
  /\ ToSet(s.expanded) = {ts[m] : m \in 1..n} \cup ToSet(gs)
  /\ Sorted(s.expanded) /\ EndBy(s.expanded, Reach(ts, n))
  /\ n = 0 => us = <<>> /\ gs = <<>> /\ s.run = NoToken /\ s.bridge = FALSE
  /\ n # 0 => /\ us = Append(gs, s.run) /\ s.run.to = Reach(ts, n)
              /\ s.bridge = FALSE => s.run = ts[n]
              /\ s.bridge = TRUE => \A i \in 1..Len(s.expanded) : Precedes(s.expanded[i], s.run)

\* The end of a run.
LEMMA RunEnded ==
  ASSUME NEW s \in ExtendState, NEW ts \in Seq(Token), NEW n \in 0..Len(ts), NEW gs, NEW us,
         Expansion(s, ts, n, gs, us)
  PROVE  /\ EndRun(s) \in Seq(Token) /\ Sorted(EndRun(s)) /\ EndBy(EndRun(s), Reach(ts, n))
         /\ ToSet(EndRun(s)) = {ts[m] : m \in 1..n} \cup ToSet(us)
<1>1. /\ s.expanded \in Seq(Token) /\ s.run \in Token /\ (s.bridge = TRUE \/ s.bridge = FALSE)
  BY DEF ExtendState
<1>2. /\ gs \in Seq(Token)
      /\ ToSet(s.expanded) = {ts[m] : m \in 1..n} \cup ToSet(gs)
      /\ Sorted(s.expanded) /\ EndBy(s.expanded, Reach(ts, n))
      /\ n = 0 => us = <<>> /\ gs = <<>> /\ s.run = NoToken /\ s.bridge = FALSE
      /\ n # 0 => /\ us = Append(gs, s.run) /\ s.run.to = Reach(ts, n)
                  /\ s.bridge = FALSE => s.run = ts[n]
                  /\ s.bridge = TRUE => \A i \in 1..Len(s.expanded) : Precedes(s.expanded[i], s.run)
  BY DEF Expansion
<1>3. EndRun(s) \in Seq(Token)
  BY EndRunType
<1>4. n # 0 => ToSet(us) = ToSet(gs) \cup {s.run}
  <2> SUFFICES ASSUME n # 0 PROVE ToSet(us) = ToSet(gs) \cup {s.run}
    OBVIOUS
  <2>1. PICK g \in Seq(Token), r \in Token : g = gs /\ r = s.run /\ us = Append(g, r)
    BY <1>1, <1>2
  <2>2. ToSet(Append(g, r)) = ToSet(g) \cup {r}
    <3> HIDE DEF Token
    <3> QED BY AppendElements
  <2> QED BY <2>1, <2>2
<1>5. CASE s.bridge = TRUE
  <2>1. n # 0 /\ EndRun(s) = Append(s.expanded, s.run)
    BY <1>2, <1>5 DEF EndRun
  <2>2. Sorted(EndRun(s))
    BY <1>1, <1>2, <1>5, <2>1, SortedAppend
  <2>3. EndBy(EndRun(s), Reach(ts, n))
    <3>1. s.run.to \in Int /\ s.run.to <= s.run.to
      BY <1>1 DEF Token
    <3>2. EndBy(s.expanded, s.run.to)
      BY <1>2, <2>1
    <3>3. EndBy(Append(s.expanded, s.run), s.run.to)
      BY <1>1, <3>1, <3>2, EndByAppend
    <3> QED BY <1>2, <2>1, <3>3
  <2>4. ToSet(EndRun(s)) = ToSet(s.expanded) \cup {s.run}
    <3> HIDE DEF Token
    <3> QED BY <1>1, <2>1, AppendElements
  <2> QED BY <1>2, <1>3, <1>4, <2>1, <2>2, <2>3, <2>4
<1>6. CASE s.bridge = FALSE
  <2>1. EndRun(s) = s.expanded
    BY <1>6 DEF EndRun
  <2>2. n = 0 => us = gs
    BY <1>2
  <2>3. n # 0 => n \in 1..n /\ s.run = ts[n]
    BY <1>2, <1>6
  <2>4. n # 0 => s.run \in {ts[m] : m \in 1..n}
    BY <2>3
  <2> QED BY <1>2, <1>3, <1>4, <2>1, <2>2, <2>4
<1> QED BY <1>1, <1>5, <1>6

\* A token that does not go on with the run.
LEMMA ExtendEnds ==
  ASSUME text \in Seq(Chars), Plain, NEW s \in ExtendState,
         NEW ts \in Seq(Token), NEW n \in 1..Len(ts), NEW gs, NEW us,
         Expansion(s, ts, n - 1, gs, us), NEW d \in Alnums, NEW e \in Alnums,
         ts[n] = TokenOf(<<d, e>>), d <= e, Connected(d, e, Links),
         Reach(ts, n - 1) \in Int, Reach(ts, n - 1) < d,
         \A k \in Alnums : ~(Reach(ts, n - 1) < k /\ k < d),
         \A k \in Alnums \cap 1..Reach(ts, n - 1) : <<k, d>> \notin Links
  PROVE  Expansion([expanded |-> Append(EndRun(s), ts[n]), run |-> ts[n], bridge |-> FALSE],
                   ts, n, us, Append(us, ts[n]))
<1> DEFINE c == Reach(ts, n - 1)
           t == [expanded |-> Append(EndRun(s), ts[n]), run |-> ts[n], bridge |-> FALSE]
<1>1. /\ n \in Nat /\ n # 0 /\ n - 1 \in 0..Len(ts) /\ Len(ts) \in Nat
      /\ \A m : m \in 1..n <=> m \in 1..(n - 1) \/ m = n
  <2> HIDE DEF Token
  <2> QED OBVIOUS
<1>2. /\ d \in Int /\ d >= 1 /\ e \in Int
  BY AlnumFacts
<1>3. PICK y \in Token : y = ts[n] /\ y = TokenOf(<<d, e>>) /\ y.from = d - 1 /\ y.to = e
  BY TokenOfType
<1>4. /\ EndRun(s) \in Seq(Token) /\ Sorted(EndRun(s)) /\ EndBy(EndRun(s), c)
      /\ ToSet(EndRun(s)) = {ts[m] : m \in 1..(n - 1)} \cup ToSet(us)
  BY <1>1, RunEnded
<1>5. us \in Seq(Token) /\ Blocks(us, 1, c, Links)
  BY DEF Expansion
<1>6. Reach(ts, n) = e
  BY <1>1, <1>3 DEF Reach
<1>7. Append(us, y) \in Seq(Token) /\ Blocks(Append(us, y), 1, e, Links)
  <2>1. Blocks(Append(us, TokenOf(<<d, e>>)), 1, e, Links)
    <3>1. Neighbours(Links) /\ 1 \in Int /\ 1 <= d
      BY <1>2, LinkNeighbours
    <3> QED BY <1>5, <3>1, BlockAdded
  <2> HIDE DEF Token
  <2> QED BY <1>3, <1>5, <2>1
<1>8. PICK xs \in Seq(Token) : xs = EndRun(s)
  BY <1>4
<1>9. ToSet(Append(xs, y)) = {ts[m] : m \in 1..n} \cup ToSet(us)
  <2>1. ToSet(Append(xs, y)) = ToSet(xs) \cup {y}
    <3> HIDE DEF Token
    <3> QED BY AppendElements
  <2>2. {ts[m] : m \in 1..n} = {ts[m] : m \in 1..(n - 1)} \cup {y}
    BY <1>1, <1>3
  <2> QED BY <1>4, <1>8, <2>1, <2>2
<1>10. Sorted(Append(xs, y))
  <2>1. ASSUME NEW i \in 1..Len(xs) PROVE Precedes(xs[i], y)
    <3>1. xs[i] \in Token /\ xs[i].to <= c
      <4>1. xs[i].to <= c
        BY <1>4, <1>8 DEF EndBy
      <4> HIDE DEF Token
      <4> QED BY <4>1
    <3>2. xs[i].to \in Int
      BY <3>1, TokenFacts
    <3> HIDE DEF c
    <3>3. c < d /\ c \in Int
      BY DEF c
    <3>4. xs[i].to < y.to
      BY SMTT(60), <1>2, <1>3, <3>1, <3>2, <3>3
    <3> QED BY <3>1, <3>4, EndsEarlier
  <2> QED BY <1>4, <1>8, <2>1, SortedAppend
<1>11. EndBy(Append(xs, y), e)
  <2>1. c \in Int /\ c <= y.to
    <3>1. c \in Int /\ c < d
      OBVIOUS
    <3> HIDE DEF c
    <3> QED BY <1>2, <1>3, <3>1
  <2>2. EndBy(xs, c)
    BY <1>4, <1>8
  <2> HIDE DEF c
  <2> QED BY <1>3, <2>1, <2>2, EndByAppend
<1>12. PICK z : z = t
  OBVIOUS
<1>13. z.expanded = Append(xs, y) /\ z.run = y /\ z.bridge = FALSE
  BY <1>3, <1>8, <1>12
<1>14. Expansion(z, ts, n, us, Append(us, y))
  BY <1>1, <1>3, <1>5, <1>6, <1>7, <1>9, <1>10, <1>11, <1>13 DEF Expansion
<1> QED BY <1>3, <1>12, <1>14

\* A token that does.
LEMMA ExtendContinues ==
  ASSUME text \in Seq(Chars), Plain, NEW s \in ExtendState,
         NEW ts \in Seq(Token), NEW n \in 1..Len(ts), NEW gs, NEW us,
         Expansion(s, ts, n - 1, gs, us), n # 1, NEW d \in Alnums, NEW e \in Alnums,
         ts[n] = TokenOf(<<d, e>>), d <= e, Connected(d, e, Links),
         Reach(ts, n - 1) \in Int, Reach(ts, n - 1) < d,
         <<s.run.to, d>> \in Links
  PROVE  Expansion([expanded |-> Append(s.expanded, ts[n]), run |-> Combine(s.run, ts[n]),
                    bridge |-> TRUE],
                   ts, n, gs, Append(gs, Combine(s.run, ts[n])))
<1> DEFINE c == Reach(ts, n - 1)
           t == [expanded |-> Append(s.expanded, ts[n]), run |-> Combine(s.run, ts[n]),
                 bridge |-> TRUE]
<1>1. /\ n \in Nat /\ n # 0 /\ n - 1 \in 0..Len(ts) /\ n - 1 # 0 /\ Len(ts) \in Nat
      /\ \A m : m \in 1..n <=> m \in 1..(n - 1) \/ m = n
  <2> HIDE DEF Token
  <2> QED OBVIOUS
<1>2. /\ d \in Int /\ d >= 1 /\ e \in Int
  BY AlnumFacts
<1>3. PICK y \in Token : y = ts[n] /\ y = TokenOf(<<d, e>>) /\ y.from = d - 1 /\ y.to = e
  BY TokenOfType
<1>4. /\ gs \in Seq(Token) /\ Blocks(us, 1, c, Links) /\ us = Append(gs, s.run)
      /\ ToSet(s.expanded) = {ts[m] : m \in 1..(n - 1)} \cup ToSet(gs)
      /\ Sorted(s.expanded) /\ EndBy(s.expanded, c) /\ s.run.to = c
  BY <1>1 DEF Expansion
<1>5. PICK xs \in Seq(Token), x \in Token : xs = s.expanded /\ x = s.run
  BY DEF ExtendState
<1>6. Reach(ts, n) = e
  BY <1>1, <1>3 DEF Reach
<1>7. c \in Int /\ c < d
  OBVIOUS
<1> HIDE DEF c
<1>8. /\ Combine(x, y) \in Token /\ Combine(x, y) = TokenOf(<<x.from + 1, e>>)
      /\ Blocks(Append(gs, Combine(x, y)), 1, e, Links)
  <2>1. Blocks(Append(gs, x), 1, c, Links) /\ <<x.to, d>> \in Links
    BY <1>4, <1>5
  <2>2. Neighbours(Links) /\ 1 \in Int
    BY LinkNeighbours
  <2>3. /\ Combine(x, TokenOf(<<d, e>>)) \in Token
        /\ Combine(x, TokenOf(<<d, e>>)) = TokenOf(<<x.from + 1, e>>)
        /\ Blocks(Append(gs, Combine(x, TokenOf(<<d, e>>))), 1, e, Links)
    BY <1>4, <1>7, <2>1, <2>2, BlockJoined
  <2> QED BY <1>3, <2>3
<1>9. PICK v \in Token : v = Combine(x, y)
  BY <1>8
<1>10. v.from = x.from /\ v.to = e
  BY <1>3, <1>9 DEF Combine
<1>11. Append(gs, v) \in Seq(Token)
  <2> HIDE DEF Token
  <2> QED BY <1>4
<1>12. ToSet(Append(xs, y)) = {ts[m] : m \in 1..n} \cup ToSet(gs)
  <2>1. ToSet(Append(xs, y)) = ToSet(xs) \cup {y}
    <3> HIDE DEF Token
    <3> QED BY AppendElements
  <2>2. {ts[m] : m \in 1..n} = {ts[m] : m \in 1..(n - 1)} \cup {y}
    BY <1>1, <1>3
  <2> QED BY <1>4, <1>5, <2>1, <2>2
<1>13. \A i \in 1..Len(xs) : xs[i] \in Token /\ xs[i].to \in Int /\ xs[i].to < e
  <2> TAKE i \in 1..Len(xs)
  <2>1. xs[i] \in Token
    <3> HIDE DEF Token
    <3> QED OBVIOUS
  <2>2. xs[i].to \in Int
    BY <2>1, TokenFacts
  <2>3. xs[i].to <= c
    BY <1>4, <1>5 DEF EndBy
  <2> QED BY SMTT(60), <1>2, <1>7, <2>1, <2>2, <2>3
<1>14. Sorted(Append(xs, y))
  <2>1. \A i \in 1..Len(xs) : Precedes(xs[i], y)
    BY <1>3, <1>13, EndsEarlier
  <2> QED BY <1>4, <1>5, <2>1, SortedAppend
<1>15. EndBy(Append(xs, y), e)
  <2>1. EndBy(xs, c) /\ c <= y.to
    BY SMTT(60), <1>2, <1>3, <1>4, <1>5, <1>7
  <2> QED BY <1>3, <1>7, <2>1, EndByAppend
<1>16. \A i \in 1..Len(Append(xs, y)) : Precedes(Append(xs, y)[i], v)
  <2>1. PICK us1 : us1 = Append(xs, y)
    OBVIOUS
  <2>2. /\ Len(xs) \in Nat /\ Len(us1) = Len(xs) + 1 /\ us1[Len(xs) + 1] = y
        /\ \A i \in 1..Len(xs) : us1[i] = xs[i]
    <3> HIDE DEF Token
    <3> QED BY <2>1, AppendProperties
  <2>3. ASSUME NEW i \in 1..Len(us1) PROVE Precedes(us1[i], v)
    <3>1. CASE i \in 1..Len(xs)
      <4>1. us1[i] = xs[i] /\ xs[i].to < v.to /\ xs[i] \in Token
        BY <1>10, <1>13, <2>2, <3>1
      <4> QED BY <4>1, EndsEarlier
    <3>2. CASE i = Len(xs) + 1
      <4>1. x.from \in Int /\ x.to = c
        BY <1>4, <1>5, TokenFacts
      <4>2. x.from < x.to
        <5>1. PICK m \in 1..Len(us) : us[m] = x
          <6> HIDE DEF Token
          <6>1. us = Append(gs, x) /\ gs \in Seq(Token) /\ x \in Token
            BY <1>4, <1>5
          <6>2. Len(us) = Len(gs) + 1 /\ us[Len(gs) + 1] = x /\ Len(gs) \in Nat
            BY <6>1, AppendProperties
          <6>3. Len(gs) + 1 \in 1..Len(us)
            BY <6>2
          <6> QED BY <6>2, <6>3
        <5>2. us[m].from < us[m].to
          <6>1. 1 \in Int
            OBVIOUS
          <6> QED BY <1>4, <1>7, <6>1, BlockFacts
        <5> QED BY <5>1, <5>2
      <4>3. y.from > v.from
        BY SMTT(60), <1>2, <1>3, <1>7, <1>10, <4>1, <4>2
      <4>4. Precedes(y, v)
        BY <1>3, <1>10, <4>3, BeginsLater
      <4> QED BY <2>2, <3>2, <4>4
    <3> QED BY <2>2, <3>1, <3>2
  <2> QED BY <2>1, <2>3
<1>17. PICK z : z = t
  OBVIOUS
<1>18. z.expanded = Append(xs, y) /\ z.run = v /\ z.bridge = TRUE
  BY <1>3, <1>5, <1>9, <1>17
<1>19. Expansion(z, ts, n, gs, Append(gs, v))
  BY <1>1, <1>4, <1>6, <1>8, <1>9, <1>10, <1>11, <1>12, <1>14, <1>15, <1>16, <1>18 DEF Expansion
<1> QED BY <1>3, <1>5, <1>9, <1>17, <1>19

\* The n-th merged token: where it stands.
LEMMA MergedFacts ==
  ASSUME text \in Seq(Chars), NEW ts, Blocks(ts, 1, Len(text), Bonds),
         NEW n \in 1..Len(ts), NEW d, NEW e, d = ts[n].from + 1, e = ts[n].to
  PROVE  /\ d \in Alnums /\ e \in Alnums /\ d <= e /\ ts[n] = TokenOf(<<d, e>>)
         /\ Connected(d, e, Links) /\ \A k \in Alnums : k < d => <<k, d>> \notin Bonds
         /\ Reach(ts, n - 1) \in Int /\ Reach(ts, n - 1) >= 0 /\ Reach(ts, n - 1) < d
         /\ n # 1 => Reach(ts, n - 1) \in Alnums
         /\ \A k \in Alnums : ~(Reach(ts, n - 1) < k /\ k < d)
<1>1. Len(text) \in Nat /\ \A k \in Alnums : k \in Int /\ k \in 1..Len(text)
  BY AlnumFacts
<1>2. PICK N \in Nat : N = Len(ts)
  <2> HIDE DEF Token
  <2>1. ts \in Seq(Token)
    BY DEF Blocks
  <2> QED BY <2>1
<1>3. ASSUME NEW m \in 1..N
      PROVE  /\ ts[m].from \in Int /\ ts[m].from >= 0 /\ ts[m].to \in Int /\ ts[m].from < ts[m].to
             /\ ts[m].from + 1 \in Alnums /\ ts[m].to \in Alnums
  <2>1. 1 \in Int /\ Len(text) \in Int /\ m \in 1..Len(ts)
    BY <1>1, <1>2
  <2>2. /\ ts[m].from \in Nat /\ ts[m].to \in Nat /\ ts[m].from < ts[m].to
        /\ ts[m].from + 1 \in Alnums /\ ts[m].to \in Alnums
    BY <2>1, BlockFacts
  <2> QED BY <2>2
<1>4. n \in 1..N /\ d \in Alnums /\ e \in Alnums /\ d \in Int /\ e \in Int /\ d <= e
  <2>1. n \in 1..N
    BY <1>2
  <2>2. d \in Alnums /\ e \in Alnums /\ ts[n].from \in Int /\ e \in Int /\ ts[n].from < e
    BY <1>3, <2>1
  <2> QED BY <2>1, <2>2
<1>5. /\ <<d, e>> \in Spans(Alnums \cap 1..Len(text), Bonds) /\ ts[n] = TokenOf(<<d, e>>)
  BY DEF Blocks, SpanOf
<1>6. Alnums \cap 1..Len(text) = Alnums
  BY <1>1
<1>7. /\ \A k \in Alnums \cap d..(e - 1) : \E j \in Alnums \cap (k + 1)..e : <<k, j>> \in Bonds
      /\ \A k \in Alnums : k < d => <<k, d>> \notin Bonds
  <2>1. <<d, e>> \in Spans(Alnums, Bonds)
    BY <1>5, <1>6
  <2> QED BY <2>1 DEF Spans
<1>8. Connected(d, e, Links)
  BY <1>7 DEF Connected, Links
<1>9. CASE n = 1
  <2>1. Reach(ts, n - 1) = 0
    BY <1>9 DEF Reach
  <2>2. ASSUME NEW k \in Alnums, k < d PROVE FALSE
    <3>1. PICK m \in 1..N : ts[m].from < k /\ k <= ts[m].to
      <4>1. k \in Alnums \cap 1..Len(text)
        BY <1>1
      <4> QED BY <1>2, <4>1 DEF Blocks
    <3>2. CASE m = 1
      <4>1. d = ts[m].from + 1 /\ ts[m].from \in Int /\ k \in Int
        BY <1>1, <1>3, <1>9, <3>2
      <4> QED BY <2>2, <3>1, <4>1
    <3>3. CASE 1 < m
      <4>1. ts[1].to <= ts[m].from
        BY <1>2, <1>4, <1>9, <3>3 DEF Blocks
      <4>2. ts[m].from \in Int /\ k \in Int /\ e = ts[1].to
        BY <1>1, <1>3, <1>9
      <4> QED BY SMTT(60), <1>4, <2>2, <3>1, <4>1, <4>2
    <3> QED BY <3>2, <3>3
  <2>3. 0 < d
    BY <1>1, <1>4
  <2> QED BY SMTT(60), <1>4, <1>5, <1>7, <1>8, <1>9, <2>1, <2>2, <2>3
<1>10. CASE n # 1
  <2>1. n - 1 \in 1..N /\ n - 1 < n /\ n - 1 # 0
    BY <1>4, <1>10
  <2>2. PICK c \in Int : c = ts[n - 1].to
    BY <1>3, <2>1
  <2>3. Reach(ts, n - 1) = c
    BY <2>1, <2>2 DEF Reach
  <2>4. c \in Alnums /\ c >= 0
    BY <1>1, <1>3, <2>1, <2>2
  <2>5. c < d
    <3>1. c <= ts[n].from
      BY <1>2, <1>4, <2>1, <2>2 DEF Blocks
    <3>2. ts[n].from \in Int
      BY <1>3, <1>4
    <3> QED BY <3>1, <3>2
  <2>6. ASSUME NEW k \in Alnums, c < k, k < d PROVE FALSE
    <3>1. k \in Int /\ k \in Alnums \cap 1..Len(text)
      BY <1>1
    <3>2. PICK m \in 1..N : ts[m].from < k /\ k <= ts[m].to
      BY <1>2, <3>1 DEF Blocks
    <3>3. ts[m].from \in Int /\ ts[m].to \in Int /\ m \in Int /\ n \in Int
      BY SMTT(60), <1>3, <1>4
    <3>4. CASE m = n
      <4>1. d = ts[m].from + 1
        BY <3>4
      <4> QED BY SMTT(60), <2>6, <3>1, <3>2, <3>3, <4>1
    <3>5. CASE n < m
      <4>1. e <= ts[m].from
        BY <1>2, <1>4, <3>5 DEF Blocks
      <4> QED BY SMTT(60), <1>4, <2>6, <3>1, <3>2, <3>3, <4>1
    <3>6. CASE m = n - 1
      BY <2>2, <2>6, <3>1, <3>2, <3>6
    <3>7. CASE m < n - 1
      <4>1. ts[m].to <= ts[n - 1].from
        BY <1>2, <2>1, <3>7 DEF Blocks
      <4>2. ts[n - 1].from \in Int /\ ts[n - 1].from < c
        BY <1>3, <2>1, <2>2
      <4> QED BY SMTT(60), <2>6, <3>1, <3>2, <3>3, <4>1, <4>2
    <3>8. m = n \/ n < m \/ m = n - 1 \/ m < n - 1
      BY <3>3
    <3> QED BY <3>4, <3>5, <3>6, <3>7, <3>8
  <2> QED BY <1>4, <1>5, <1>7, <1>8, <2>3, <2>4, <2>5, <2>6
<1> QED BY <1>9, <1>10

\* One token more.
LEMMA ExtendStep ==
  ASSUME text \in Seq(Chars), Plain, NEW ts \in Seq(Token), Blocks(ts, 1, Len(text), Bonds),
         NEW n \in 1..Len(ts), NEW s \in ExtendState,
         NEW gs, NEW us, Expansion(s, ts, n - 1, gs, us)
  PROVE  \E hs, vs : Expansion(Extend(text, s, ts[n]), ts, n, hs, vs)
<1>1. PICK d, e : d = ts[n].from + 1 /\ e = ts[n].to
  OBVIOUS
<1>2. /\ d \in Alnums /\ e \in Alnums /\ d <= e /\ ts[n] = TokenOf(<<d, e>>)
      /\ Connected(d, e, Links) /\ \A k \in Alnums : k < d => <<k, d>> \notin Bonds
      /\ Reach(ts, n - 1) \in Int /\ Reach(ts, n - 1) >= 0 /\ Reach(ts, n - 1) < d
      /\ n # 1 => Reach(ts, n - 1) \in Alnums
      /\ \A k \in Alnums : ~(Reach(ts, n - 1) < k /\ k < d)
  BY <1>1, MergedFacts
<1>3. ts[n].from = d - 1
  BY ZenonT(60), <1>2, TokenOfType
<1>4. PICK c \in Int : c = Reach(ts, n - 1)
  BY <1>2
<1>5. n \in Nat /\ n >= 1
  <2> HIDE DEF Token
  <2> QED OBVIOUS
<1>6. n # 1 => us = Append(gs, s.run) /\ s.run.to = c /\ c \in Alnums /\ c < d /\ c >= 1
  <2>1. \A k \in Alnums : k >= 1
    BY AlnumFacts
  <2> QED BY <1>2, <1>4, <1>5, <2>1 DEF Expansion
<1>7. n = 1 => s.run = NoToken /\ us = <<>>
  BY DEF Expansion
<1>8. n # 1 => s.run # NoToken
  <2>1. NoToken.to = 0
    BY DEF NoToken
  <2> QED BY <1>4, <1>6, <2>1
<1>9. n # 1 => (separator_is_dash_run(Separator(text, s.run, ts[n])) <=> Run(c, d, Dashes))
  <2> SUFFICES ASSUME n # 1
               PROVE  separator_is_dash_run(Separator(text, s.run, ts[n])) <=> Run(c, d, Dashes)
    OBVIOUS
  <2>1. Separator(text, s.run, ts[n]) = SubSeq(text, c + 1, d - 1)
    BY <1>3, <1>6 DEF Separator
  <2>2. separator_is_dash_run(SubSeq(text, c + 1, d - 1)) <=> Run(c, d, Dashes)
    BY <1>2, <1>6, DashRun
  <2> QED BY <2>1, <2>2
<1>10. CASE n # 1 /\ Run(c, d, Dashes)
  <2>1. Extend(text, s, ts[n]) = [expanded |-> Append(s.expanded, ts[n]),
                                  run |-> Combine(s.run, ts[n]), bridge |-> TRUE]
    BY <1>8, <1>9, <1>10 DEF Extend
  <2>2. <<s.run.to, d>> \in Links
    <3>1. <<c, d>> \in Bridges
      BY <1>2, <1>6, <1>10 DEF Bridges
    <3> QED BY <1>6, <1>10, <3>1 DEF Links
  <2>3. Expansion([expanded |-> Append(s.expanded, ts[n]), run |-> Combine(s.run, ts[n]),
                   bridge |-> TRUE], ts, n, gs, Append(gs, Combine(s.run, ts[n])))
    BY <1>2, <1>10, <2>2, ExtendContinues
  <2> QED BY <2>1, <2>3
<1>11. CASE ~(n # 1 /\ Run(c, d, Dashes))
  <2>1. Extend(text, s, ts[n]) = [expanded |-> Append(EndRun(s), ts[n]), run |-> ts[n],
                                  bridge |-> FALSE]
    BY <1>7, <1>9, <1>11 DEF Extend
  <2>2. ASSUME NEW k \in Alnums \cap 1..c, <<k, d>> \in Links PROVE FALSE
    <3>1. us # <<>> /\ k = Last(us).to
      <4>1. Blocks(us, 1, c, Links) /\ 1 \in Int
        BY <1>4 DEF Expansion
      <4> QED BY <1>2, <1>4, <2>2, <4>1, LinkNeighbours, LinkedToLast
    <3>2. n # 1
      BY <1>7, <3>1
    <3>3. Last(us) = s.run
      <4>1. PICK g \in Seq(Token), r \in Token : g = gs /\ r = s.run /\ us = Append(g, r)
        BY <1>6, <3>2 DEF Expansion, ExtendState
      <4>2. PICK v : v = Append(g, r)
        OBVIOUS
      <4>3. v[Len(g) + 1] = r /\ Len(v) = Len(g) + 1
        <5> HIDE DEF Token
        <5> QED BY <4>2, AppendProperties
      <4> QED BY <4>1, <4>2, <4>3 DEF Last
    <3>4. k = c /\ k < d
      BY <1>6, <3>1, <3>2, <3>3
    <3>5. <<c, d>> \in Bridges
      BY <1>2, <2>2, <3>4 DEF Links
    <3> QED BY <1>11, <3>2, <3>5 DEF Bridges
  <2>3. Expansion([expanded |-> Append(EndRun(s), ts[n]), run |-> ts[n], bridge |-> FALSE],
                  ts, n, us, Append(us, ts[n]))
    BY <1>2, <1>4, <2>2, ExtendEnds
  <2> QED BY <2>1, <2>3
<1> QED BY <1>10, <1>11

\* The tokens of a text: the merged ones and the longest linked spans, in order.
LEMMA TokensOfText ==
  ASSUME text \in Seq(Chars), Plain
  PROVE  \E us : /\ Blocks(us, 1, Len(text), Links) /\ Sorted(tokenize_text(text))
                 /\ ToSet(tokenize_text(text)) = ToSet(merged_tokens(text)) \cup ToSet(us)
<1>1. Len(text) \in Nat /\ \A k \in Alnums : k \in Int /\ k >= 1 /\ k <= Len(text)
  BY AlnumFacts
<1>2. PICK ts : ts = merged_tokens(text) /\ Blocks(ts, 1, Len(text), Bonds)
  BY MergedBlocks
<1>3. ts \in Seq(Token)
  BY <1>2 DEF Blocks
<1>4. PICK N \in Nat : N = Len(ts)
  <2> HIDE DEF Token
  <2> QED BY <1>3
<1>5. DOMAIN ts = 1..N
  <2> HIDE DEF Token
  <2> QED BY <1>3, <1>4
<1>6. PICK f \in [0..Len(ts) -> ExtendState] :
           /\ f[0] = [expanded |-> <<>>, run |-> NoToken, bridge |-> FALSE]
           /\ \A i \in 1..Len(ts) : f[i] = Extend(text, f[i - 1], ts[i])
           /\ expand_dash_compounds(ts, text) = EndRun(f[Len(ts)])
  BY <1>3, ExtendHistory
<1> DEFINE T == {n \in 0..N : \E gs, us : Expansion(f[n], ts, n, gs, us)}
<1>7. 0 \in T
  <2>1. PICK z : z = f[0]
    OBVIOUS
  <2>2. z.expanded = <<>> /\ z.run = NoToken /\ z.bridge = FALSE
    BY <1>6, <2>1
  <2>3. <<>> \in Seq(Token) /\ Len(<<>>) = 0 /\ 1..0 = {} /\ DOMAIN <<>> = {}
    <3> HIDE DEF Token
    <3> QED OBVIOUS
  <2>4. Blocks(<<>>, 1, 0, Links)
    <3>1. Alnums \cap 1..0 = {}
      BY <2>3
    <3> QED BY <3>1, NoBlock
  <2>5. Sorted(<<>>) /\ EndBy(<<>>, 0) /\ ToSet(<<>>) = {} /\ {ts[m] : m \in 1..0} = {}
    BY <2>3 DEF Sorted, EndBy, ToSet
  <2>6. Reach(ts, 0) = 0
    BY DEF Reach
  <2>7. Expansion(z, ts, 0, <<>>, <<>>)
    BY <2>2, <2>3, <2>4, <2>5, <2>6 DEF Expansion
  <2> QED BY <2>1, <2>7
<1>8. ASSUME NEW n \in (0 + 1)..N, n - 1 \in T PROVE n \in T
  <2>1. n \in 1..Len(ts) /\ n \in 0..N /\ f[n - 1] \in ExtendState
    BY <1>4
  <2>2. PICK gs, us : Expansion(f[n - 1], ts, n - 1, gs, us)
    BY <1>8
  <2>3. \E hs, vs : Expansion(Extend(text, f[n - 1], ts[n]), ts, n, hs, vs)
    BY <1>2, <1>3, <2>1, <2>2, ExtendStep
  <2>4. f[n] = Extend(text, f[n - 1], ts[n])
    BY <1>6, <2>1
  <2> QED BY <2>1, <2>3, <2>4
<1>9. N \in T
  <2>1. \A n \in 0..N : n \in T
    <3>1. 0 \in Nat /\ 0 <= N
      OBVIOUS
    <3> HIDE DEF T
    <3> QED BY <1>7, <1>8, <3>1, Upwards
  <2> QED BY <2>1
<1>10. PICK gs, us : Expansion(f[N], ts, N, gs, us)
  BY <1>9
<1>11. /\ Sorted(EndRun(f[N])) /\ ToSet(EndRun(f[N])) = {ts[m] : m \in 1..N} \cup ToSet(us)
  <2>1. N \in 0..Len(ts) /\ f[N] \in ExtendState
    BY <1>4
  <2> QED BY <1>3, <1>10, <2>1, RunEnded
<1>12. {ts[m] : m \in 1..N} = ToSet(ts)
  BY <1>5 DEF ToSet
<1>13. tokenize_text(text) = EndRun(f[N])
  BY <1>2, <1>4, <1>6 DEF tokenize_text
<1>14. Blocks(us, 1, Len(text), Links)
  <2>1. Blocks(us, 1, Reach(ts, N), Links)
    BY <1>10 DEF Expansion
  <2>2. ASSUME NEW k \in Alnums PROVE k <= Reach(ts, N)
    <3>1. PICK m \in 1..N : ts[m].from < k /\ k <= ts[m].to
      <4>1. k \in Alnums \cap 1..Len(text)
        BY <1>1
      <4> QED BY <1>2, <1>4, <4>1 DEF Blocks
    <3>2. N # 0 /\ Reach(ts, N) = ts[N].to /\ N \in 1..N
      BY DEF Reach
    <3>3. CASE m = N
      BY <3>1, <3>2, <3>3
    <3>4. CASE m < N
      <4>1. ts[m].to <= ts[N].from
        BY <1>2, <1>4, <3>2, <3>4 DEF Blocks
      <4>2. ts[m].to \in Nat /\ ts[N].from \in Nat /\ ts[N].to \in Nat /\ ts[N].from < ts[N].to
        <5>1. 1 \in Int /\ Len(text) \in Int /\ m \in 1..Len(ts) /\ N \in 1..Len(ts)
          BY <1>1, <1>4, <3>2
        <5> QED BY <1>2, <5>1, BlockFacts
      <4>3. k \in Int
        BY <1>1
      <4> QED BY SMTT(60), <3>1, <3>2, <4>1, <4>2, <4>3
    <3> QED BY <3>3, <3>4
  <2>3. Alnums \cap 1..Reach(ts, N) = Alnums \cap 1..Len(text)
    <3>1. Reach(ts, N) \in Int
      <4>1. CASE N = 0
        BY <4>1 DEF Reach
      <4>2. CASE N # 0
        <5>1. N \in 1..N /\ Reach(ts, N) = ts[N].to
          BY <4>2 DEF Reach
        <5>2. ts[N].to \in Nat
          <6>1. 1 \in Int /\ Len(text) \in Int /\ N \in 1..Len(ts)
            BY <1>1, <1>4, <5>1
          <6> QED BY <1>2, <6>1, BlockFacts
        <5> QED BY <5>1, <5>2
      <4> QED BY <4>1, <4>2
    <3> QED BY <1>1, <2>2, <3>1
  <2> QED BY <2>1, <2>3, BlockSame
<1> QED BY <1>2, <1>11, <1>12, <1>13, <1>14

\* Longest linked spans that meet are the same.
LEMMA SpansMeet ==
  ASSUME text \in Seq(Chars), NEW L, Neighbours(L), NEW r \in Spans(Alnums, L),
         NEW s \in Spans(Alnums, L), r[1] <= s[1], s[1] <= r[2]
  PROVE  r = s
<1>1. Len(text) \in Nat /\ \A k \in Alnums : k \in Int /\ k \in 0..Len(text)
  BY AlnumFacts
<1>2. /\ r \in Alnums \X Alnums /\ s \in Alnums \X Alnums /\ r[1] <= r[2] /\ s[1] <= s[2]
      /\ \A k \in Alnums \cap r[1]..(r[2] - 1) : \E j \in Alnums \cap (k + 1)..r[2] : <<k, j>> \in L
      /\ \A k \in Alnums \cap s[1]..(s[2] - 1) : \E j \in Alnums \cap (k + 1)..s[2] : <<k, j>> \in L
      /\ ~ \E i \in Alnums : i < s[1] /\ <<i, s[1]>> \in L
      /\ ~ \E i \in Alnums : i > r[2] /\ <<r[2], i>> \in L
      /\ ~ \E i \in Alnums : i > s[2] /\ <<s[2], i>> \in L
  BY DEF Spans
<1>3. PICK a, b, c, d \in Alnums : r = <<a, b>> /\ s = <<c, d>>
  BY <1>2
<1>4. a \in Int /\ b \in Int /\ c \in Int /\ d \in Int /\ a <= c /\ c <= b /\ a <= b /\ c <= d
  BY <1>1, <1>2, <1>3
<1>5. /\ \A k \in Alnums \cap a..(b - 1) : \E j \in Alnums \cap (k + 1)..b : <<k, j>> \in L
      /\ \A k \in Alnums \cap c..(d - 1) : \E j \in Alnums \cap (k + 1)..d : <<k, j>> \in L
      /\ ~ \E i \in Alnums : i < c /\ <<i, c>> \in L
      /\ ~ \E i \in Alnums : i > b /\ <<b, i>> \in L
      /\ ~ \E i \in Alnums : i > d /\ <<d, i>> \in L
  BY <1>2, <1>3
<1>6. a = c
  <2> SUFFICES ASSUME a < c PROVE FALSE
    BY <1>4
  <2> DEFINE U == {k \in Alnums : k < c}
  <2>1. PICK p \in U : \A k \in U : k <= p
    <3>1. U \subseteq 0..Len(text) /\ a \in U
      BY <1>1
    <3> HIDE DEF U
    <3> QED BY <1>1, <3>1, Greatest
  <2>2. p \in Alnums /\ p \in Int /\ a <= p /\ p < c
    BY <1>1, <2>1
  <2>3. p \in Alnums \cap a..(b - 1)
    BY <1>4, <2>2
  <2>4. PICK j \in Alnums \cap (p + 1)..b : <<p, j>> \in L
    BY <1>5, <2>3
  <2>5. j \in Int /\ p < j
    BY <1>1, <2>2
  <2>6. ~(p < c /\ c < j)
    BY <2>4 DEF Neighbours
  <2>7. ~(j < c)
    BY <2>1, <2>2, <2>5
  <2>8. j = c
    BY <1>4, <2>2, <2>5, <2>6, <2>7
  <2> QED BY <1>5, <2>2, <2>4, <2>8
<1>7. b = d
  <2>1. ASSUME b < d PROVE FALSE
    <3>1. b \in Alnums \cap c..(d - 1)
      BY <1>4, <2>1
    <3>2. PICK j \in Alnums \cap (b + 1)..d : <<b, j>> \in L
      BY <1>5, <3>1
    <3>3. j > b
      BY <1>1, <1>4
    <3> QED BY <1>5, <3>2, <3>3
  <2>2. ASSUME d < b PROVE FALSE
    <3>1. d \in Alnums \cap a..(b - 1)
      BY <1>4, <2>2
    <3>2. PICK j \in Alnums \cap (d + 1)..b : <<d, j>> \in L
      BY <1>5, <3>1
    <3>3. j > d
      BY <1>1, <1>4
    <3> QED BY <1>5, <3>2, <3>3
  <2> QED BY <1>4, <2>1, <2>2
<1> QED BY <1>3, <1>6, <1>7

\* Blocks over the whole text are its longest linked spans.
LEMMA WholeText ==
  ASSUME text \in Seq(Chars), NEW L, Neighbours(L), NEW ts, Blocks(ts, 1, Len(text), L)
  PROVE  ToSet(ts) = {TokenOf(s) : s \in Spans(Alnums, L)}
<1>1. Len(text) \in Nat /\ Alnums \cap 1..Len(text) = Alnums /\ \A k \in Alnums : k \in Int
  <2>1. \A k \in Alnums : k \in 1..Len(text)
    BY AlnumFacts
  <2> QED BY <2>1, AlnumFacts
<1>2. PICK N \in Nat : N = Len(ts) /\ DOMAIN ts = 1..N
  <2> HIDE DEF Token
  <2>1. ts \in Seq(Token)
    BY DEF Blocks
  <2> QED BY <2>1
<1>3. \A m \in 1..N : SpanOf(ts[m]) \in Spans(Alnums, L) /\ ts[m] = TokenOf(SpanOf(ts[m]))
  BY <1>1, <1>2 DEF Blocks
<1>4. \A k \in Alnums : \E m \in 1..N : ts[m].from < k /\ k <= ts[m].to
  BY <1>1, <1>2 DEF Blocks
<1>5. ASSUME NEW s \in Spans(Alnums, L) PROVE \E m \in 1..N : ts[m] = TokenOf(s)
  <2>1. s[1] \in Alnums /\ s[1] \in Int
    BY <1>1 DEF Spans
  <2>2. PICK m \in 1..N : ts[m].from < s[1] /\ s[1] <= ts[m].to
    BY <1>4, <2>1
  <2>3. PICK r : r = SpanOf(ts[m]) /\ r[1] = ts[m].from + 1 /\ r[2] = ts[m].to
    <3>1. PICK a, b : a = ts[m].from + 1 /\ b = ts[m].to
      OBVIOUS
    <3>2. PICK r : r = <<a, b>>
      OBVIOUS
    <3>3. r[1] = a /\ r[2] = b
      BY <3>2
    <3>4. r = SpanOf(ts[m])
      BY <3>1, <3>2 DEF SpanOf
    <3> QED BY <3>1, <3>3, <3>4
  <2>4. r[1] <= s[1] /\ s[1] <= r[2]
    <3>1. ts[m].from \in Nat
      <4>1. 1 \in Int /\ Len(text) \in Int /\ m \in 1..Len(ts)
        BY <1>1, <1>2
      <4> QED BY <4>1, BlockFacts
    <3> QED BY <2>1, <2>2, <2>3, <3>1
  <2>5. r = s
    BY <1>3, <2>3, <2>4, SpansMeet
  <2> QED BY <1>3, <2>3, <2>5
<1>6. ToSet(ts) = {ts[m] : m \in 1..N}
  BY <1>2 DEF ToSet
<1> QED BY <1>3, <1>5, <1>6

\* The tokens of any text are tokens.
LEMMA TokenizeType == ASSUME NEW t \in Seq(Chars) PROVE tokenize_text(t) \in Seq(Token)
<1>1. PICK ws : ws = Words(t)
  OBVIOUS
<1>2. Len(ws) \in Nat /\ Placed(t, ws)
  BY <1>1, WordsFacts
<1>3. PICK f \in [0..Len(ws) -> Seq(Token)] : merged_tokens(t) = f[Len(ws)]
  BY <1>1, <1>2, MergedHistory
<1>4. merged_tokens(t) \in Seq(Token)
  BY <1>2, <1>3
<1>5. PICK ts \in Seq(Token) : ts = merged_tokens(t)
  BY <1>4
<1>6. PICK N \in Nat : N = Len(ts)
  <2> HIDE DEF Token
  <2> QED OBVIOUS
<1>7. PICK g \in [0..Len(ts) -> ExtendState] : expand_dash_compounds(ts, t) = EndRun(g[Len(ts)])
  BY ExtendHistory
<1>8. g[N] \in ExtendState
  <2>1. N \in 0..Len(ts)
    BY <1>6
  <2> QED BY <2>1
<1>9. EndRun(g[N]) \in Seq(Token)
  BY <1>8, EndRunType
<1> QED BY <1>5, <1>6, <1>7, <1>9 DEF tokenize_text

\* The tokens of a text are the reference's, in order.
LEMMA Reference == ASSUME text \in Seq(Chars) PROVE MatchesReference
<1> SUFFICES ASSUME Plain
             PROVE  /\ ToSet(tokenize_text(text)) = ReferenceTokens
                    /\ \A i, j \in DOMAIN tokenize_text(text) : i < j =>
                         Precedes(tokenize_text(text)[i], tokenize_text(text)[j])
  BY DEF MatchesReference, Plain, Precedes
<1>1. PICK us : /\ Blocks(us, 1, Len(text), Links) /\ Sorted(tokenize_text(text))
                /\ ToSet(tokenize_text(text)) = ToSet(merged_tokens(text)) \cup ToSet(us)
  BY TokensOfText
<1>2. ToSet(us) = {TokenOf(s) : s \in Spans(Alnums, Links)}
  BY <1>1, LinkNeighbours, WholeText
<1>3. ToSet(merged_tokens(text)) = {TokenOf(s) : s \in Spans(Alnums, Bonds)}
  BY MergedBlocks, BondNeighbours, WholeText
<1>4. ReferenceTokens = {TokenOf(s) : s \in Spans(Alnums, Bonds) \cup Spans(Alnums, Links)}
  BY DEF ReferenceTokens, Links
<1>5. ToSet(tokenize_text(text)) = ReferenceTokens
  BY <1>1, <1>2, <1>3, <1>4
<1>6. PICK ts \in Seq(Token) : ts = tokenize_text(text)
  BY TokenizeType
<1>7. DOMAIN ts = 1..Len(ts)
  <2> HIDE DEF Token
  <2> QED OBVIOUS
<1> QED BY <1>1, <1>5, <1>6, <1>7 DEF Sorted

-----------------------------------------------------------------------------
(* The stream *)

\* The text of a stream is a text.
THEOREM TextIsText == Spec => [](text \in Seq(Chars))
<1>1. Init => text \in Seq(Chars)
  BY DEF Init
<1>2. ASSUME text \in Seq(Chars), [Next]_vars PROVE (text \in Seq(Chars))'
  <2>1. Inputs \subseteq Seq(Chars)
    BY TextsAssumption DEF Inputs
  <2>2. CASE \E t \in Inputs : token_stream(t)
    BY <2>1, <2>2 DEF token_stream
  <2>3. CASE advance
    BY <1>2, <2>3 DEF advance
  <2>4. CASE UNCHANGED vars
    BY <1>2, <2>4 DEF vars
  <2> QED BY <1>2, <2>2, <2>3, <2>4 DEF Next
<1> QED BY <1>1, <1>2, PTL DEF Spec

\* The tokens of every text a stream is opened on are the ones the reference
\* gives: its words, their apostrophes dropped, joined over apostrophes, and
\* after its last part each longest dash compound, in order.
THEOREM TokensMatchReference == Spec => []MatchesReference
BY TextIsText, Reference, PTL

Emitted == [token : Token, position : 0..(PositionMod - 1)]

\* Strengthening: the position counts on from where the stream was opened.
StreamInv ==
  /\ text \in Seq(Chars) /\ pending_tokens \in Seq(Token) /\ emitted \in Seq(Emitted)
  /\ opened \in 0..(PositionMod - 1)
  /\ position = (opened + Len(emitted)) % PositionMod
  /\ StreamInOrder

\* The empty text has no tokens.
LEMMA NoTokens == ASSUME text = <<>> PROVE tokenize_text(text) = <<>>
<1>1. text \in Seq(Chars) /\ Plain /\ Len(text) = 0 /\ 1..0 = {}
  BY DEF Plain
<1>2. Alnums = {}
  BY <1>1 DEF Alnums
<1>3. ASSUME NEW ts, NEW L, Blocks(ts, 1, Len(text), L) PROVE ToSet(ts) = {}
  <2>1. ts \in Seq(Token)
    BY <1>3 DEF Blocks
  <2>2. ASSUME NEW m \in 1..Len(ts) PROVE FALSE
    <3>1. 1 \in Int /\ Len(text) \in Int
      BY <1>1
    <3>2. ts[m].to \in Alnums
      BY <1>1, <1>3, <3>1, BlockFacts
    <3> QED BY <1>2, <3>2
  <2>3. DOMAIN ts = {}
    <3> HIDE DEF Token
    <3> QED BY <2>1, <2>2
  <2> QED BY <2>3 DEF ToSet
<1>4. ToSet(tokenize_text(text)) = {}
  <2>1. PICK us : /\ Blocks(us, 1, Len(text), Links)
                  /\ ToSet(tokenize_text(text)) = ToSet(merged_tokens(text)) \cup ToSet(us)
    BY <1>1, TokensOfText
  <2>2. ToSet(merged_tokens(text)) = {}
    BY <1>1, <1>3, MergedBlocks
  <2>3. ToSet(us) = {}
    BY <1>3, <2>1
  <2> QED BY <2>1, <2>2, <2>3
<1>5. PICK ts \in Seq(Token) : ts = tokenize_text(text)
  BY <1>1, TokenizeType
<1>6. DOMAIN ts = {}
  BY <1>4, <1>5 DEF ToSet
<1>7. ts = <<>>
  <2> HIDE DEF Token
  <2> QED BY <1>6
<1> QED BY <1>5, <1>7

\* Handing out the head of the tokens still to come keeps what they are together.
LEMMA HandedOut ==
  ASSUME NEW S, NEW u \in Seq(S), NEW p \in Seq(S), p # <<>>
  PROVE  Append(u, Head(p)) \o Tail(p) = u \o p
<1>1. PICK h \in S, t \in Seq(S) : h = Head(p) /\ t = Tail(p)
  BY HeadTailProperties
<1>2. p = <<h>> \o t
  <2>1. PICK q : q = <<h>> \o t
    OBVIOUS
  <2>2. /\ q \in Seq(S) /\ Len(q) = 1 + Len(t) /\ Len(t) \in Nat
        /\ \A i \in 1..(1 + Len(t)) : q[i] = IF i <= 1 THEN <<h>>[i] ELSE t[i - 1]
    <3>1. <<h>> \in Seq(S) /\ Len(<<h>>) = 1
      OBVIOUS
    <3> QED BY <2>1, <3>1, ConcatProperties
  <2>3. /\ Len(t) = Len(p) - 1 /\ Len(p) \in Nat /\ h = p[1]
        /\ \A i \in 1..Len(t) : t[i] = p[i + 1]
    BY <1>1, HeadTailProperties
  <2>4. Len(q) = Len(p)
    BY <2>2, <2>3
  <2>5. ASSUME NEW i \in 1..Len(p) PROVE q[i] = p[i]
    <3>1. CASE i = 1
      BY <2>2, <2>3, <3>1
    <3>2. CASE i # 1
      <4>1. i \in 1..(1 + Len(t)) /\ ~(i <= 1) /\ i - 1 \in 1..Len(t) /\ (i - 1) + 1 = i
        BY <2>3, <3>2
      <4> QED BY <2>2, <2>3, <4>1
    <3> QED BY <3>1, <3>2
  <2> QED BY <2>1, <2>2, <2>4, <2>5, SeqEqual
<1>3. Append(u, h) = u \o <<h>> /\ <<h>> \in Seq(S)
  BY AppendIsConcat
<1>4. (u \o <<h>>) \o t = u \o (<<h>> \o t)
  BY <1>3, ConcatAssociative
<1> QED BY <1>1, <1>2, <1>3, <1>4

\* Every stream hands out the tokens of its text in order, numbered
\* consecutively from where its tokenizer's last stream stopped.
THEOREM StreamsInOrder == Spec => []StreamInOrder
<1>1. Init => StreamInv
  <2> SUFFICES ASSUME Init PROVE StreamInv
    OBVIOUS
  <2>1. /\ text = <<>> /\ pending_tokens = <<>> /\ emitted = <<>>
        /\ position = PositionMod - 1 /\ opened = PositionMod - 1
    BY DEF Init
  <2>2. tokenize_text(text) = <<>>
    BY <2>1, NoTokens
  <2>3. /\ text \in Seq(Chars) /\ pending_tokens \in Seq(Token) /\ emitted \in Seq(Emitted)
        /\ Len(emitted) = 0 /\ DOMAIN emitted = {}
    <3> HIDE DEF Token, Emitted
    <3> QED BY <2>1
  <2>4. opened \in 0..(PositionMod - 1) /\ position = (opened + 0) % PositionMod
    BY <2>1, PositionAssumption
  <2>5. [i \in DOMAIN emitted |-> emitted[i].token] \o pending_tokens = <<>>
    <3>1. [i \in DOMAIN emitted |-> emitted[i].token] = <<>>
      BY <2>3
    <3> QED BY <2>1, <3>1
  <2> QED BY <2>2, <2>3, <2>4, <2>5 DEF StreamInv, StreamInOrder
<1>2. ASSUME StreamInv, [Next]_vars PROVE StreamInv'
  <2>1. /\ text \in Seq(Chars) /\ pending_tokens \in Seq(Token) /\ emitted \in Seq(Emitted)
        /\ opened \in 0..(PositionMod - 1)
        /\ position = (opened + Len(emitted)) % PositionMod
        /\ [i \in DOMAIN emitted |-> emitted[i].token] \o pending_tokens = tokenize_text(text)
        /\ \A i \in DOMAIN emitted : emitted[i].position = (opened + i) % PositionMod
    BY <1>2 DEF StreamInv, StreamInOrder
  <2>2. /\ Len(emitted) \in Nat /\ DOMAIN emitted = 1..Len(emitted)
        /\ \A i \in 1..Len(emitted) : emitted[i] \in Emitted
    <3> HIDE DEF Emitted
    <3> QED BY <2>1
  <2>3. CASE \E t \in Inputs : token_stream(t)
    <3>1. PICK t \in Inputs : token_stream(t)
      BY <2>3
    <3>2. /\ text' = t /\ pending_tokens' = tokenize_text(t) /\ emitted' = <<>>
          /\ opened' = position /\ position' = position
      BY <3>1 DEF token_stream
    <3>3. t \in Seq(Chars)
      BY TextsAssumption DEF Inputs
    <3>4. tokenize_text(t) \in Seq(Token)
      BY <3>3, TokenizeType
    <3>5. position \in 0..(PositionMod - 1) /\ position = (position + 0) % PositionMod
      <4>1. opened + Len(emitted) \in Int
        BY <2>1, <2>2
      <4>2. position \in 0..(PositionMod - 1)
        BY <2>1, <4>1, PositionAssumption, RemainderNext
      <4> QED BY <4>2, PositionAssumption
    <3>6. emitted' \in Seq(Emitted) /\ Len(emitted') = 0 /\ DOMAIN emitted' = {}
      <4> HIDE DEF Emitted
      <4> QED BY <3>2
    <3>7. [i \in DOMAIN emitted' |-> emitted'[i].token] \o pending_tokens' = tokenize_text(text')
      <4>1. [i \in DOMAIN emitted' |-> emitted'[i].token] = <<>>
        BY <3>6
      <4>2. <<>> \o tokenize_text(t) = tokenize_text(t)
        <5> HIDE DEF Token
        <5> QED BY <3>4, ConcatEmptySeq
      <4> QED BY <3>2, <4>1, <4>2
    <3> QED BY <3>2, <3>3, <3>4, <3>5, <3>6, <3>7 DEF StreamInv, StreamInOrder
  <2>4. CASE advance
    <3>1. /\ pending_tokens # <<>> /\ pending_tokens' = Tail(pending_tokens)
          /\ position' = (position + 1) % PositionMod
          /\ emitted' = Append(emitted, [token |-> Head(pending_tokens), position |-> position'])
          /\ text' = text /\ opened' = opened
      BY <2>4 DEF advance
    <3>2. Head(pending_tokens) \in Token /\ Tail(pending_tokens) \in Seq(Token)
      <4> HIDE DEF Token
      <4> QED BY <2>1, <3>1, HeadTailProperties
    <3>3. /\ position' \in 0..(PositionMod - 1)
          /\ position' = (opened + (Len(emitted) + 1)) % PositionMod
      <4>1. PICK a \in Int : a = opened + Len(emitted) /\ a + 1 = opened + (Len(emitted) + 1)
        BY <2>1, <2>2
      <4>2. position' = (a + 1) % PositionMod
        BY <2>1, <3>1, <4>1, PositionAssumption, RemainderNext
      <4>3. a + 1 \in Int
        OBVIOUS
      <4>4. (a + 1) % PositionMod \in 0..(PositionMod - 1)
        BY <4>3, PositionAssumption, RemainderNext
      <4> QED BY <4>1, <4>2, <4>4
    <3>4. PICK v \in Emitted : /\ v = [token |-> Head(pending_tokens), position |-> position']
                               /\ v.token = Head(pending_tokens) /\ v.position = position'
      <4>1. PICK x \in Token, n \in 0..(PositionMod - 1) : x = Head(pending_tokens) /\ n = position'
        BY <3>2, <3>3
      <4>2. PICK v : v = [token |-> x, position |-> n]
        OBVIOUS
      <4>3. v \in Emitted /\ v.token = x /\ v.position = n
        <5> HIDE DEF Token
        <5> QED BY <4>2 DEF Emitted
      <4> QED BY <4>1, <4>2, <4>3
    <3>5. /\ emitted' \in Seq(Emitted) /\ Len(emitted') = Len(emitted) + 1
          /\ emitted'[Len(emitted) + 1] = v /\ \A i \in 1..Len(emitted) : emitted'[i] = emitted[i]
          /\ DOMAIN emitted' = 1..(Len(emitted) + 1)
      <4> HIDE DEF Emitted
      <4> QED BY <2>1, <3>1, <3>4, AppendProperties
    <3>6. [i \in DOMAIN emitted' |-> emitted'[i].token] \o pending_tokens' = tokenize_text(text')
      <4> DEFINE u == [i \in 1..Len(emitted) |-> emitted[i].token]
      <4>1. u \in Seq(Token) /\ Len(u) = Len(emitted)
        <5>1. \A i \in 1..Len(emitted) : emitted[i].token \in Token
          BY <2>2 DEF Emitted
        <5> HIDE DEF Token
        <5> QED BY <2>2, <5>1
      <4>2. [i \in 1..(Len(emitted) + 1) |-> emitted'[i].token] = Append(u, Head(pending_tokens))
        <5>1. PICK w : w = Append(u, Head(pending_tokens))
          OBVIOUS
        <5>2. /\ w \in Seq(Token) /\ Len(w) = Len(emitted) + 1
              /\ w[Len(emitted) + 1] = v.token /\ \A i \in 1..Len(emitted) : w[i] = u[i]
          <6> HIDE DEF Token, u
          <6> QED BY <3>2, <3>4, <4>1, <5>1, AppendProperties
        <5>3. ASSUME NEW i \in 1..(Len(emitted) + 1) PROVE w[i] = emitted'[i].token
          <6>1. CASE i = Len(emitted) + 1
            BY <3>5, <5>2, <6>1
          <6>2. CASE i # Len(emitted) + 1
            <7>1. i \in 1..Len(emitted)
              BY <2>2, <6>2
            <7> QED BY <3>5, <5>2, <7>1
          <6> QED BY <6>1, <6>2
        <5>4. w = [i \in 1..Len(w) |-> w[i]]
          <6> HIDE DEF Token, u
          <6> QED BY <5>2
        <5> QED BY <5>1, <5>2, <5>3, <5>4
      <4>3. Append(u, Head(pending_tokens)) \o Tail(pending_tokens) = u \o pending_tokens
        <5> HIDE DEF Token, u
        <5> QED BY <2>1, <3>1, <4>1, HandedOut
      <4> QED BY <2>1, <2>2, <3>1, <3>5, <4>2, <4>3
    <3>7. \A i \in DOMAIN emitted' : emitted'[i].position = (opened' + i) % PositionMod
      <4> TAKE i \in DOMAIN emitted'
      <4>1. CASE i = Len(emitted) + 1
        BY <3>1, <3>3, <3>4, <3>5, <4>1
      <4>2. CASE i # Len(emitted) + 1
        <5>1. i \in 1..Len(emitted)
          BY <2>2, <3>5, <4>2
        <5> QED BY <2>1, <2>2, <3>1, <3>5, <5>1
      <4> QED BY <4>1, <4>2
    <3> QED BY <2>1, <3>1, <3>2, <3>3, <3>5, <3>6, <3>7 DEF StreamInv, StreamInOrder
  <2>5. CASE UNCHANGED vars
    BY <1>2, <2>5 DEF vars, StreamInv, StreamInOrder
  <2> QED BY <1>2, <2>3, <2>4, <2>5 DEF Next
<1>3. StreamInv => StreamInOrder
  BY DEF StreamInv
<1> QED BY <1>1, <1>2, <1>3, PTL DEF Spec
=============================================================================
