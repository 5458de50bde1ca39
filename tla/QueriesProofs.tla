---------------------------- MODULE QueriesProofs ----------------------------
(***************************************************************************)
(* Theorems about Queries, for texts of every length, all feeds at the     *)
(* start and every number of suggestions.                                  *)
(*                                                                         *)
(* What is searched and what is found are related by parts: a normalised   *)
(* query is a part of the text it comes from, in lower case, and so are    *)
(* the query's parts of whatever the query is a part of (HasText is        *)
(* reflexive and transitive, and ToLower keeps it).                        *)
(* The spellings of an address are undone prefix by prefix: each is what   *)
(* is removed, and none is made by what follows it.                        *)
(***************************************************************************)
EXTENDS Queries, SelectionProofs, SequenceTheorems

------------------------------------------------------------------------------
(* Parts of texts *)

\* HasText, position by position.
LEMMA HasTextAt ==
  ASSUME NEW t \in Seq(Tokens), NEW p \in Seq(Tokens)
  PROVE  HasText(t, p) <=>
           \E n \in Nat : /\ n + Len(p) <= Len(t)
                          /\ \A k \in 1..Len(p) : t[n + k] = p[k]
<1>1. Len(t) \in Nat /\ Len(p) \in Nat
  OBVIOUS
<1>2. ASSUME NEW n \in Nat, n + Len(p) <= Len(t)
      PROVE  SubSeq(t, n + 1, n + Len(p)) = p <=> \A k \in 1..Len(p) : t[n + k] = p[k]
  <2> DEFINE u == SubSeq(t, n + 1, n + Len(p))
  <2>1. \A i \in (n + 1)..(n + Len(p)) : t[i] \in Tokens
    BY <1>1, <1>2
  <2>2. /\ u \in Seq(Tokens)
        /\ Len(u) = IF n + 1 <= n + Len(p) THEN n + Len(p) - (n + 1) + 1 ELSE 0
        /\ \A i \in 1..(n + Len(p) - (n + 1) + 1) : u[i] = t[n + 1 + i - 1]
    BY <1>1, <2>1, SubSeqProperties
  <2> HIDE DEF u
  <2>3. Len(u) = Len(p) /\ \A i \in 1..Len(p) : u[i] = t[n + i]
    BY <1>1, <2>2
  <2>4. u = p <=> \A i \in 1..Len(p) : u[i] = p[i]
    BY <2>2, <2>3, SeqEqual
  <2>5. QED  BY <2>3, <2>4 DEF u
<1>3. \A n : n \in 0..(Len(t) - Len(p)) <=> n \in Nat /\ n + Len(p) <= Len(t)
  BY <1>1
<1>4. QED  BY <1>2, <1>3 DEF HasText

\* HasText is reflexive ...
LEMMA PartOfItself ==
  ASSUME NEW t \in Seq(Tokens)  PROVE HasText(t, t)
<1>1. Len(t) \in Nat /\ 0 + Len(t) <= Len(t) /\ \A k \in 1..Len(t) : t[0 + k] = t[k]
  OBVIOUS
<1>2. QED  BY <1>1, HasTextAt

\* ... and transitive.
LEMMA PartOfPart ==
  ASSUME NEW t \in Seq(Tokens), NEW u \in Seq(Tokens), NEW v \in Seq(Tokens),
         HasText(t, u), HasText(u, v)
  PROVE  HasText(t, v)
<1>1. PICK m \in Nat : m + Len(u) <= Len(t) /\ \A k \in 1..Len(u) : t[m + k] = u[k]
  BY HasTextAt
<1>2. PICK n \in Nat : n + Len(v) <= Len(u) /\ \A k \in 1..Len(v) : u[n + k] = v[k]
  BY HasTextAt
<1>3. Len(t) \in Nat /\ Len(u) \in Nat /\ Len(v) \in Nat
  OBVIOUS
<1>4. m + n \in Nat /\ m + n + Len(v) <= Len(t)
  BY <1>1, <1>2, <1>3
<1>5. \A k \in 1..Len(v) : t[m + n + k] = v[k]
  <2> SUFFICES ASSUME NEW k \in 1..Len(v)  PROVE t[m + n + k] = v[k]
    OBVIOUS
  <2>1. n + k \in 1..Len(u) /\ m + (n + k) = m + n + k
    BY <1>1, <1>2, <1>3
  <2>2. QED  BY <1>1, <1>2, <2>1
<1>6. QED  BY <1>4, <1>5, HasTextAt

\* A slice of a text is a part of it.
LEMMA SliceIsPart ==
  ASSUME NEW t \in Seq(Tokens), NEW m \in Nat \ {0}, NEW n \in Nat,
         m <= n + 1, n <= Len(t)
  PROVE  SubSeq(t, m, n) \in Seq(Tokens) /\ HasText(t, SubSeq(t, m, n))
<1> DEFINE u == SubSeq(t, m, n)
<1>1. \A i \in m..n : t[i] \in Tokens
  OBVIOUS
<1>2. /\ u \in Seq(Tokens)
      /\ Len(u) = IF m <= n THEN n - m + 1 ELSE 0
      /\ \A i \in 1..(n - m + 1) : u[i] = t[m + i - 1]
  BY <1>1, SubSeqProperties
<1> HIDE DEF u
<1>3. /\ m - 1 \in Nat /\ Len(u) = n - m + 1 /\ m - 1 + Len(u) <= Len(t)
      /\ \A k \in 1..Len(u) : t[m - 1 + k] = u[k]
  BY <1>2
<1>4. HasText(t, u)
  BY <1>2, <1>3, HasTextAt
<1>5. QED  BY <1>2, <1>4 DEF u

------------------------------------------------------------------------------
(* Lower case *)

\* ToLower, token by token; doing it again changes nothing.
LEMMA LowerType ==
  ASSUME NEW t \in Seq(Tokens)
  PROVE  /\ ToLower(t) \in Seq(Tokens) /\ Len(ToLower(t)) = Len(t)
         /\ \A k \in 1..Len(t) : ToLower(t)[k] = IF t[k] = "X" THEN "x" ELSE t[k]
         /\ ToLower(ToLower(t)) = ToLower(t)
<1> DEFINE u == ToLower(t)
<1>1. DOMAIN t = 1..Len(t) /\ Len(t) \in Nat /\ \A k \in 1..Len(t) : t[k] \in Tokens
  OBVIOUS
<1>2. /\ u \in [1..Len(t) -> Tokens]
      /\ \A k \in 1..Len(t) : u[k] = IF t[k] = "X" THEN "x" ELSE t[k]
  BY <1>1 DEF ToLower, Tokens
<1>3. u \in Seq(Tokens) /\ Len(u) = Len(t)
  BY <1>1, <1>2
<1>4. ToLower(u) = u
  <2>1. \A k \in DOMAIN u : u[k] # "X"
    BY <1>2
  <2>2. u = [k \in DOMAIN u |-> u[k]]
    BY <1>2
  <2>3. QED  BY <2>1, <2>2 DEF ToLower
<1>5. QED  BY <1>2, <1>3, <1>4

\* Parts stay parts when both are put in lower case.
LEMMA LowerPart ==
  ASSUME NEW t \in Seq(Tokens), NEW p \in Seq(Tokens), HasText(t, p)
  PROVE  HasText(ToLower(t), ToLower(p))
<1>1. PICK n \in Nat : n + Len(p) <= Len(t) /\ \A k \in 1..Len(p) : t[n + k] = p[k]
  BY HasTextAt
<1>2. /\ ToLower(t) \in Seq(Tokens) /\ Len(ToLower(t)) = Len(t)
      /\ \A k \in 1..Len(t) : ToLower(t)[k] = IF t[k] = "X" THEN "x" ELSE t[k]
      /\ ToLower(p) \in Seq(Tokens) /\ Len(ToLower(p)) = Len(p)
      /\ \A k \in 1..Len(p) : ToLower(p)[k] = IF p[k] = "X" THEN "x" ELSE p[k]
  BY LowerType
<1>3. \A k \in 1..Len(p) : n + k \in 1..Len(t)
  BY <1>1
<1>4. \A k \in 1..Len(ToLower(p)) : ToLower(t)[n + k] = ToLower(p)[k]
  BY <1>1, <1>2, <1>3
<1>5. QED  BY <1>1, <1>2, <1>4, HasTextAt

\* A part of a text in lower case is in lower case.
LEMMA PartOfLower ==
  ASSUME NEW t \in Seq(Tokens), NEW p \in Seq(Tokens), HasText(t, p), ToLower(t) = t
  PROVE  ToLower(p) = p
<1>1. PICK n \in Nat : n + Len(p) <= Len(t) /\ \A k \in 1..Len(p) : t[n + k] = p[k]
  BY HasTextAt
<1>2. \A k \in 1..Len(t) : t[k] # "X"
  BY LowerType
<1>3. \A k \in 1..Len(p) : n + k \in 1..Len(t)
  BY <1>1
<1>4. \A k \in 1..Len(p) : ToLower(p)[k] = p[k]
  BY <1>1, <1>2, <1>3, LowerType
<1>5. ToLower(p) \in Seq(Tokens) /\ Len(ToLower(p)) = Len(p)
  BY LowerType
<1>6. QED  BY <1>4, <1>5, SeqEqual

------------------------------------------------------------------------------
(* What is trimmed *)

\* Min, of a set of numbers that is not empty, is the least of them.
LEMMA MinIsLeast ==
  ASSUME NEW S \in SUBSET Nat, S # {}
  PROVE  Min(S) \in S /\ \A m \in S : Min(S) <= m
<1>1. \E n \in S : \A m \in S : n <= m
  BY LeastOf
<1>2. QED  BY <1>1 DEF Min

\* Max, of a set of positions that is not empty, is the last of them.
LEMMA MaxIsGreatest ==
  ASSUME NEW l \in Nat, NEW S \in SUBSET 1..l, S # {}
  PROVE  Max(S) \in S /\ \A m \in S : m <= Max(S)
<1> DEFINE R == {l - n : n \in S}
<1>1. R \in SUBSET Nat /\ R # {}
  <2>1. ASSUME NEW n \in S  PROVE l - n \in Nat
    <3>1. n \in 1..l
      OBVIOUS
    <3>2. QED  BY <3>1
  <2>2. QED  BY <2>1
<1>2. PICK r \in R : \A m \in R : r <= m
  BY <1>1, LeastOf
<1>3. PICK n \in S : r = l - n
  OBVIOUS
<1>4. \A m \in S : n >= m
  <2> SUFFICES ASSUME NEW m \in S  PROVE n >= m
    OBVIOUS
  <2>1. l - n <= l - m
    BY <1>2, <1>3
  <2>2. QED  BY <2>1
<1>5. Max(S) \in S /\ \A m \in S : Max(S) >= m
  BY <1>4 DEF Max
<1>6. QED  BY <1>5

\* Spaces are removed at both ends, up to a token that is none.
LEMMA TrimSpaceSlice ==
  ASSUME NEW t \in Seq(Tokens)
  PROVE  \/ TrimSpace(t) = <<>> /\ \A k \in 1..Len(t) : t[k] = " "
         \/ \E m, n \in 1..Len(t) :
              /\ m <= n /\ TrimSpace(t) = SubSeq(t, m, n)
              /\ t[m] # " " /\ t[n] # " "
              /\ \A k \in 1..Len(t) : t[k] # " " => m <= k /\ k <= n
<1> DEFINE ink == {n \in DOMAIN t : t[n] # " "}
<1>1. DOMAIN t = 1..Len(t) /\ Len(t) \in Nat
  OBVIOUS
<1>2. CASE ink = {}
  BY <1>1, <1>2 DEF TrimSpace
<1>3. CASE ink # {}
  <2>1. ink \in SUBSET 1..Len(t) /\ ink \in SUBSET Nat
    <3>1. ink \in SUBSET 1..Len(t)
      BY <1>1, Zenon
    <3>2. 1..Len(t) \in SUBSET Nat
      BY <1>1
    <3>3. QED  BY <3>1, <3>2, Zenon
  <2>2. Min(ink) \in ink /\ \A m \in ink : Min(ink) <= m
    BY <1>3, <2>1, MinIsLeast
  <2>3. Max(ink) \in ink /\ \A m \in ink : m <= Max(ink)
    BY <1>1, <1>3, <2>1, MaxIsGreatest
  <2>4. TrimSpace(t) = SubSeq(t, Min(ink), Max(ink))
    BY <1>3 DEF TrimSpace
  <2>5. \A k \in 1..Len(t) : t[k] # " " => k \in ink
    BY <1>1
  <2>6. /\ Min(ink) \in 1..Len(t) /\ Max(ink) \in 1..Len(t)
        /\ t[Min(ink)] # " " /\ t[Max(ink)] # " "
    BY <2>1, <2>2, <2>3
  <2> HIDE DEF ink
  <2>7. Min(ink) <= Max(ink)
    BY <2>2, <2>3
  <2>8. QED  BY <2>2, <2>3, <2>4, <2>5, <2>6, <2>7
<1>4. QED  BY <1>2, <1>3

\* TrimSpace takes a part of a text.
LEMMA TrimSpaceIsPart ==
  ASSUME NEW t \in Seq(Tokens)
  PROVE  TrimSpace(t) \in Seq(Tokens) /\ HasText(t, TrimSpace(t))
<1>1. CASE TrimSpace(t) = <<>>
  <2>1. TrimSpace(t) \in Seq(Tokens) /\ Len(TrimSpace(t)) = 0 /\ Len(t) \in Nat
    BY <1>1
  <2>2. 0 + Len(TrimSpace(t)) <= Len(t)
    BY <2>1
  <2>3. \A k \in 1..Len(TrimSpace(t)) : t[0 + k] = TrimSpace(t)[k]
    BY <2>1
  <2>4. 0 \in Nat
    OBVIOUS
  <2>5. QED  BY <2>1, <2>2, <2>3, <2>4, HasTextAt
<1>2. CASE TrimSpace(t) # <<>>
  <2>1. PICK m, n \in 1..Len(t) : m <= n /\ TrimSpace(t) = SubSeq(t, m, n)
    BY <1>2, TrimSpaceSlice
  <2>2. m \in Nat \ {0} /\ n \in Nat /\ m <= n + 1 /\ n <= Len(t)
    BY <2>1
  <2>3. QED  BY <2>1, <2>2, SliceIsPart
<1>3. QED  BY <1>1, <1>2

\* A sequence that is not empty has a first and a last position.
LEMMA FirstAndLast ==
  ASSUME NEW T, NEW t \in Seq(T), t # <<>>
  PROVE  Len(t) \in Nat \ {0} /\ 1 \in 1..Len(t) /\ Len(t) \in 1..Len(t)
<1>1. Len(t) \in Nat \ {0}
  BY EmptySeq
<1>2. ASSUME NEW l \in Nat \ {0}  PROVE 1 \in 1..l /\ l \in 1..l
  OBVIOUS
<1>3. QED  BY <1>1, <1>2, Zenon

\* No space at an end.
InkAtEnds(t) == t[1] # " " /\ t[Len(t)] # " "

\* A text that neither starts nor ends with a space is left alone.
LEMMA NothingToTrim ==
  ASSUME NEW t \in Seq(Tokens), t # <<>>, InkAtEnds(t)
  PROVE  TrimSpace(t) = t
<1>1. Len(t) \in Nat \ {0} /\ 1 \in 1..Len(t) /\ Len(t) \in 1..Len(t)
  BY FirstAndLast
<1>2. PICK m, n \in 1..Len(t) :
        /\ m <= n /\ TrimSpace(t) = SubSeq(t, m, n)
        /\ \A k \in 1..Len(t) : t[k] # " " => m <= k /\ k <= n
  BY <1>1, TrimSpaceSlice DEF InkAtEnds
<1>3. m <= 1 /\ 1 <= n /\ m <= Len(t) /\ Len(t) <= n
  BY <1>1, <1>2 DEF InkAtEnds
<1>4. m = 1 /\ n = Len(t)
  BY <1>1, <1>3
<1>5. QED  BY <1>2, <1>4, SubSeqFull

\* What has been trimmed starts and ends with a token that is no space.
LEMMA TrimmedEnds ==
  ASSUME NEW t \in Seq(Tokens), TrimSpace(t) = t, t # <<>>
  PROVE  InkAtEnds(t)
<1>1. Len(t) \in Nat \ {0} /\ 1 \in 1..Len(t) /\ Len(t) \in 1..Len(t)
  BY FirstAndLast
<1>2. PICK m, n \in 1..Len(t) : m <= n /\ t = SubSeq(t, m, n) /\ t[m] # " " /\ t[n] # " "
  BY <1>1, TrimSpaceSlice
<1>3. Len(t) \in Nat /\ m \in Int /\ n \in Int /\ \A i \in m..n : i \in 1..Len(t)
  OBVIOUS
<1>4. \A i \in m..n : t[i] \in Tokens
  BY <1>3
<1>5. Len(SubSeq(t, m, n)) = IF m <= n THEN n - m + 1 ELSE 0
  BY <1>3, <1>4, SubSeqProperties
<1>6. Len(t) = n - m + 1
  BY <1>2, <1>3, <1>5
<1>7. m = 1 /\ n = Len(t)
  BY <1>3, <1>6
<1>8. QED  BY <1>2, <1>7 DEF InkAtEnds

\* TrimPrefix takes a part of a text.
LEMMA TrimPrefixIsPart ==
  ASSUME NEW t \in Seq(Tokens), NEW p \in Seq(Tokens)
  PROVE  TrimPrefix(t, p) \in Seq(Tokens) /\ HasText(t, TrimPrefix(t, p))
<1>1. CASE HasPrefix(t, p)
  <2>1. /\ Len(p) + 1 \in Nat \ {0} /\ Len(t) \in Nat
        /\ Len(p) + 1 <= Len(t) + 1 /\ Len(t) <= Len(t)
    BY <1>1 DEF HasPrefix
  <2>2. TrimPrefix(t, p) = SubSeq(t, Len(p) + 1, Len(t))
    BY <1>1 DEF TrimPrefix
  <2>3. QED  BY <2>1, <2>2, SliceIsPart
<1>2. CASE ~HasPrefix(t, p)
  BY <1>2, PartOfItself DEF TrimPrefix
<1>3. QED  BY <1>1, <1>2

\* TrimSuffix takes a part of a text.
LEMMA TrimSuffixIsPart ==
  ASSUME NEW t \in Seq(Tokens), NEW p \in Seq(Tokens)
  PROVE  TrimSuffix(t, p) \in Seq(Tokens) /\ HasText(t, TrimSuffix(t, p))
<1>1. CASE HasSuffix(t, p)
  <2>1. 1 \in Nat \ {0} /\ Len(t) - Len(p) \in Nat /\ 1 <= Len(t) - Len(p) + 1
        /\ Len(t) - Len(p) <= Len(t)
    BY <1>1 DEF HasSuffix
  <2>2. TrimSuffix(t, p) = SubSeq(t, 1, Len(t) - Len(p))
    BY <1>1 DEF TrimSuffix
  <2>3. QED  BY <2>1, <2>2, SliceIsPart
<1>2. CASE ~HasSuffix(t, p)
  BY <1>2, PartOfItself DEF TrimSuffix
<1>3. QED  BY <1>1, <1>2

\* The prefixes and the "/" are texts.
LEMMA Affixes ==
  HTTP \in Seq(Tokens) /\ HTTPS \in Seq(Tokens) /\ WWW \in Seq(Tokens) /\ <<"/">> \in Seq(Tokens)
BY DEF HTTP, HTTPS, WWW, Tokens

\* A normalised query is a part of the text, in lower case.
LEMMA NormalizedIsPart ==
  ASSUME NEW t \in Seq(Tokens)
  PROVE  /\ NormalizeQuery(t) \in Seq(Tokens)
         /\ HasText(ToLower(t), NormalizeQuery(t))
         /\ ToLower(NormalizeQuery(t)) = NormalizeQuery(t)
<1> DEFINE t0 == ToLower(TrimSpace(t))
           t1 == TrimPrefix(t0, HTTP)
           t2 == TrimPrefix(t1, HTTPS)
           t3 == TrimPrefix(t2, WWW)
           t4 == TrimSuffix(t3, <<"/">>)
<1>1. NormalizeQuery(t) = t4
  BY DEF NormalizeQuery
<1>2. TrimSpace(t) \in Seq(Tokens) /\ HasText(t, TrimSpace(t))
  BY TrimSpaceIsPart
<1>3. ToLower(t) \in Seq(Tokens) /\ t0 \in Seq(Tokens) /\ ToLower(t0) = t0
  BY <1>2, LowerType
<1>4. HasText(ToLower(t), t0)
  BY <1>2, LowerPart
<1> HIDE DEF t0
<1>5. t1 \in Seq(Tokens) /\ HasText(t0, t1)
  BY <1>3, Affixes, TrimPrefixIsPart
<1> HIDE DEF t1
<1>6. t2 \in Seq(Tokens) /\ HasText(t1, t2)
  BY <1>5, Affixes, TrimPrefixIsPart
<1> HIDE DEF t2
<1>7. t3 \in Seq(Tokens) /\ HasText(t2, t3)
  BY <1>6, Affixes, TrimPrefixIsPart
<1> HIDE DEF t3
<1>8. t4 \in Seq(Tokens) /\ HasText(t3, t4)
  BY <1>7, Affixes, TrimSuffixIsPart
<1> HIDE DEF t4
<1>9. HasText(t0, t2)
  BY <1>3, <1>5, <1>6, PartOfPart
<1>10. HasText(t2, t4)
  BY <1>6, <1>7, <1>8, PartOfPart
<1>11. HasText(t0, t4)
  BY <1>3, <1>6, <1>8, <1>9, <1>10, PartOfPart
<1>12. HasText(ToLower(t), t4)
  BY <1>3, <1>4, <1>8, <1>11, PartOfPart
<1>13. ToLower(t4) = t4
  BY <1>3, <1>8, <1>11, PartOfLower
<1>14. QED  BY <1>1, <1>8, <1>12, <1>13

\* What two texts make together has both as parts.
LEMMA ConcatParts ==
  ASSUME NEW s \in Seq(Tokens), NEW t \in Seq(Tokens)
  PROVE  s \o t \in Seq(Tokens) /\ HasText(s \o t, t)
<1>1. /\ s \o t \in Seq(Tokens) /\ Len(s \o t) = Len(s) + Len(t)
      /\ \A i \in 1..(Len(s) + Len(t)) : (s \o t)[i] = IF i <= Len(s) THEN s[i] ELSE t[i - Len(s)]
  BY ConcatProperties
<1>2. Len(s) \in Nat /\ Len(t) \in Nat
  OBVIOUS
<1> DEFINE u == s \o t
<1> HIDE DEF u
<1>3. Len(s) + Len(t) <= Len(u)
  BY <1>1, <1>2 DEF u
<1>4. \A k \in 1..Len(t) : u[Len(s) + k] = t[k]
  <2> SUFFICES ASSUME NEW k \in 1..Len(t)  PROVE u[Len(s) + k] = t[k]
    OBVIOUS
  <2>1. /\ Len(s) + k \in 1..(Len(s) + Len(t)) /\ ~(Len(s) + k <= Len(s))
        /\ Len(s) + k - Len(s) = k
    BY <1>2
  <2>2. QED  BY <1>1, <2>1 DEF u
<1>5. HasText(u, t)
  BY <1>1, <1>2, <1>3, <1>4, HasTextAt DEF u
<1>6. QED  BY <1>1, <1>5 DEF u

------------------------------------------------------------------------------
(* Searching *)

\* The texts of a feed are texts.
LEMMA FeedTexts ==
  ASSUME NEW f \in Feeds
  PROVE  {f.title, f.url, f.site, f.description} \subseteq Seq(Tokens)
BY DEF Feeds

\* What matches a text matches every part of it, in whatever case.
LEMMA MatchesParts ==
  ASSUME NEW f \in Feeds, NEW t \in Seq(Tokens), NEW p \in Seq(Tokens),
         HasText(ToLower(t), ToLower(p)), Matches(f, t)
  PROVE  Matches(f, p)
<1>1. PICK s \in {f.title, f.url, f.site, f.description} : HasText(ToLower(s), ToLower(t))
  BY DEF Matches
<1>2. s \in Seq(Tokens)
  BY FeedTexts
<1>3. ToLower(s) \in Seq(Tokens) /\ ToLower(t) \in Seq(Tokens) /\ ToLower(p) \in Seq(Tokens)
  BY <1>2, LowerType
<1>4. HasText(ToLower(s), ToLower(p))
  BY <1>1, <1>3, PartOfPart
<1>5. QED  BY <1>4, Zenon DEF Matches

\* A search shows feeds that match, and all of them.
LEMMA SearchShows ==
  ASSUME feeds \in Seq(Feeds), NEW t \in Seq(Tokens)
  PROVE  /\ SearchFeeds(t) \in Seq(Feeds)
         /\ \A m \in DOMAIN SearchFeeds(t) :
              \E n \in DOMAIN feeds : SearchFeeds(t)[m] = feeds[n] /\ Matches(feeds[n], t)
         /\ t # <<>> =>
              \A n \in DOMAIN feeds :
                Matches(feeds[n], t) => \E m \in DOMAIN SearchFeeds(t) : SearchFeeds(t)[m] = feeds[n]
<1> DEFINE K == {n \in DOMAIN feeds : Matches(feeds[n], t)}
           r == SearchFeeds(t)
<1>1. CASE t = <<>>
  <2>1. r = <<>>
    BY <1>1 DEF SearchFeeds
  <2>2. r \in Seq(Feeds) /\ DOMAIN r = {}
    BY <2>1
  <2> HIDE DEF r
  <2>3. QED  BY <1>1, <2>2 DEF r
<1>2. CASE t # <<>>
  <2>1. r = Kept(feeds, K)
    BY <1>2 DEF SearchFeeds
  <2>2. DOMAIN feeds = 1..Len(feeds)
    OBVIOUS
  <2> HIDE DEF r, K
  <2>3. r \in Seq(Feeds) /\ \E f : Selects(f, r, Len(feeds), feeds, K)
    BY <2>1, KeptSelects
  <2>4. PICK f : Selects(f, r, Len(feeds), feeds, K)
    BY <2>3
  <2>5. DOMAIN r = 1..Len(r)
    BY <2>3
  <2>6. \A m \in DOMAIN r : r[m] = feeds[f[m]] /\ f[m] \in K
    BY <2>4, <2>5 DEF Selects
  <2>7. \A n \in K : \E m \in DOMAIN r : r[m] = feeds[n]
    <3> SUFFICES ASSUME NEW n \in K  PROVE \E m \in DOMAIN r : r[m] = feeds[n]
      OBVIOUS
    <3>1. n \in K \cap 1..Len(feeds)
      BY <2>2 DEF K
    <3>2. PICK m \in 1..Len(r) : f[m] = n
      BY <2>4, <3>1 DEF Selects
    <3>3. QED  BY <2>5, <2>6, <3>2
  <2>8. \A n : n \in K <=> n \in DOMAIN feeds /\ Matches(feeds[n], t)
    BY DEF K
  <2>9. QED  BY <2>3, <2>6, <2>7, <2>8, Zenon DEF r
<1>3. QED  BY <1>1, <1>2

\* A feed that matches is found.
LEMMA SearchFinds ==
  ASSUME feeds \in Seq(Feeds), NEW t \in Seq(Tokens), t # <<>>,
         NEW n \in DOMAIN feeds, Matches(feeds[n], t)
  PROVE  \E m \in DOMAIN SearchFeeds(t) : SearchFeeds(t)[m] = feeds[n]
BY SearchShows, Zenon

------------------------------------------------------------------------------
(* What a fetch brings *)

\* The page of the site is not the address of the feed, nor is nothing.
LEMMA Sites ==
  Site \in Seq(Tokens) /\ Site # Self /\ <<>> # Self
<1>1. Site \in Seq(Tokens) /\ Len(Site) = 4 /\ Len(Self) = 6
  BY DEF Site, Self, Tokens
<1>2. Self # <<>>
  BY DEF Self
<1>3. Site # Self
  BY <1>1
<1>4. QED  BY <1>1, <1>2, <1>3, Zenon

\* The links that may lead to the page of a feed do.
LEMMA LinksLead ==
  ASSUME NEW links \in Links
  PROVE  AlternateLink(links) \in {<<>>, Site}
<1> DEFINE pages == {n \in DOMAIN links : links[n].rel \in {"alternate", ""}}
<1>1. DOMAIN links \subseteq {1, 2} /\ \A n \in pages : links[n].href = Site
  <2>1. CASE links = <<>>
    BY <2>1
  <2>2. CASE \E r \in {"", "self"} :
               links = <<[rel |-> r, href |-> IF r = "self" THEN Self ELSE Site]>>
    <3>1. PICK r : links = <<[rel |-> r, href |-> IF r = "self" THEN Self ELSE Site]>>
      BY <2>2
    <3> DEFINE link == [rel |-> r, href |-> IF r = "self" THEN Self ELSE Site]
    <3>2. link.rel = "self" \/ link.href = Site
      OBVIOUS
    <3> HIDE DEF link
    <3>3. DOMAIN links = 1..1 /\ links[1] = link
      BY <3>1 DEF link
    <3>4. 1..1 = {1} /\ "self" \notin {"alternate", ""}
      OBVIOUS
    <3>5. QED  BY <3>2, <3>3, <3>4
  <2>3. CASE \E r \in {"", "alternate"} :
               links = <<[rel |-> "self", href |-> Self], [rel |-> r, href |-> Site]>>
    <3>1. PICK r : links = <<[rel |-> "self", href |-> Self], [rel |-> r, href |-> Site]>>
      BY <2>3
    <3>2. DOMAIN links = 1..2 /\ links[1].rel = "self" /\ links[2].href = Site
      BY <3>1
    <3>3. 1..2 = {1, 2} /\ "self" \notin {"alternate", ""}
      OBVIOUS
    <3>4. QED  BY <3>2, <3>3
  <2>4. QED  BY <2>1, <2>2, <2>3 DEF Links
<1>2. CASE pages = {}
  BY <1>2 DEF AlternateLink
<1>3. CASE pages # {}
  <2>1. pages \in SUBSET Nat
    <3>1. pages \subseteq DOMAIN links
      OBVIOUS
    <3>2. {1, 2} \subseteq Nat
      OBVIOUS
    <3>3. QED  BY <1>1, <3>1, <3>2
  <2>2. Min(pages) \in pages
    BY <1>3, <2>1, MinIsLeast
  <2>3. AlternateLink(links) = links[Min(pages)].href
    BY <1>3 DEF AlternateLink
  <2>4. QED  BY <1>1, <2>2, <2>3
<1>4. QED  BY <1>2, <1>3

\* There is at most one candidate, with the URL that was fetched.
LEMMA OneParses ==
  ASSUME NEW body \in Bodies, NEW url \in Seq(Tokens)
  PROVE  LET found == ParseFeed(body, url) IN
         /\ found \in Seq(Feeds)
         /\ found # <<>> => Len(found) = 1 /\ found[1].url = url /\ found[1].site # Self
<1> DEFINE One == [title : Seq(Tokens), site : {<<>>, Site}]
           rss == ParseRSS(body)
           atom == ParseAtom(body)
           read == rss \o atom
           found == ParseFeed(body, url)
<1>1. /\ body.title \in {<<>>, <<"X">>}
      /\ body.root = "rss" => body.links[1].href = Site
      /\ body.root = "feed" => body.links \in Links
  <2>1. CASE body \in [root : {"rss"}, title : {<<>>, <<"X">>},
                       links : {<<[rel |-> "", href |-> Site]>>}]
    <3> DEFINE link == [rel |-> "", href |-> Site]
    <3>1. body.root = "rss" /\ body.title \in {<<>>, <<"X">>} /\ body.links = <<link>>
      BY <2>1
    <3>2. link.href = Site
      OBVIOUS
    <3> HIDE DEF link
    <3>3. body.links[1] = link
      BY <3>1
    <3>4. QED  BY <3>1, <3>2, <3>3
  <2>2. CASE body \in [root : {"feed"}, title : {<<>>, <<"X">>}, links : Links]
    <3>1. body.root = "feed" /\ body.title \in {<<>>, <<"X">>} /\ body.links \in Links
      BY <2>2, Zenon
    <3>2. QED  BY <3>1
  <2>3. CASE body \in [root : {"html"}, title : {<<"X">>}, links : {<<>>}]
    <3>1. body.root = "html" /\ body.title = <<"X">>
      BY <2>3
    <3>2. QED  BY <3>1
  <2>4. QED  BY <2>1, <2>2, <2>3, Zenon DEF Bodies
<1>2. body.title \in Seq(Tokens)
  <2>1. "X" \in Tokens
    BY DEF Tokens
  <2>2. <<>> \in Seq(Tokens) /\ <<"X">> \in Seq(Tokens)
    BY <2>1
  <2>3. QED  BY <1>1, <2>2
<1>3. \/ rss = <<>>
      \/ body.root = "rss" /\ \E o \in One : rss = <<o>>
  <2> DEFINE o == [title |-> body.title, site |-> body.links[1].href]
  <2>1. CASE body.root = "rss" /\ body.title # <<>>
    <3>1. rss = <<o>>
      BY <2>1 DEF ParseRSS
    <3>2. o \in One
      BY <1>1, <1>2, <2>1
    <3>3. QED  BY <2>1, <3>1, <3>2, Zenon
  <2>2. CASE ~(body.root = "rss" /\ body.title # <<>>)
    BY <2>2 DEF ParseRSS
  <2>3. QED  BY <2>1, <2>2
<1>4. \/ atom = <<>>
      \/ body.root = "feed" /\ \E o \in One : atom = <<o>>
  <2> DEFINE o == [title |-> body.title, site |-> AlternateLink(body.links)]
  <2>1. CASE body.root = "feed" /\ body.title # <<>>
    <3>1. atom = <<o>>
      BY <2>1 DEF ParseAtom
    <3>2. AlternateLink(body.links) \in {<<>>, Site}
      BY <1>1, <2>1, LinksLead
    <3>3. o \in One
      BY <1>2, <3>2
    <3>4. QED  BY <2>1, <3>1, <3>3, Zenon
  <2>2. CASE ~(body.root = "feed" /\ body.title # <<>>)
    BY <2>2 DEF ParseAtom
  <2>3. QED  BY <2>1, <2>2
<1> HIDE DEF rss, atom, One
<1>5. read = <<>> \/ \E o \in One : read = <<o>>
  <2>1. <<>> \o <<>> = <<>> /\ \A o \in One : <<o>> \o <<>> = <<o>> /\ <<>> \o <<o>> = <<o>>
    OBVIOUS
  <2>2. "rss" # "feed"
    OBVIOUS
  <2>3. QED  BY <1>3, <1>4, <2>1, <2>2
<1>6. found = [n \in DOMAIN read |-> [url |-> url, title |-> read[n].title,
                                      site |-> read[n].site, description |-> <<>>]]
  BY DEF ParseFeed, rss, atom
<1> HIDE DEF read, found
<1>7. CASE read = <<>>
  <2>1. found = <<>>
    BY <1>6, <1>7
  <2>2. found \in Seq(Feeds)
    BY <2>1
  <2>3. QED  BY <2>1, <2>2 DEF found
<1>8. CASE \E o \in One : read = <<o>>
  <2>1. PICK o \in One : read = <<o>>
    BY <1>8
  <2> DEFINE f == [url |-> url, title |-> o.title, site |-> o.site, description |-> <<>>]
  <2>2. DOMAIN read = 1..1 /\ read[1] = o
    BY <2>1
  <2>3. \A n \in 1..1 : n = 1
    OBVIOUS
  <2>4. f \in Feeds /\ f.url = url /\ f.site # Self
    <3>1. o.title \in Seq(Tokens) /\ o.site \in {<<>>, Site}
      BY <2>1 DEF One
    <3>2. <<>> \in Seq(Tokens)
      OBVIOUS
    <3>3. QED  BY <3>1, <3>2, Sites DEF Feeds
  <2>5. found = [n \in 1..1 |-> f]
    BY <1>6, <2>2, <2>3
  <2> HIDE DEF f
  <2>6. found = <<f>>
    BY <2>5
  <2>7. found \in Seq(Feeds) /\ Len(found) = 1 /\ found[1] = f
    BY <2>4, <2>6
  <2>8. QED  BY <2>4, <2>7, Zenon DEF found
<1>9. QED  BY <1>5, <1>7, <1>8

\* The prefix in front of a URL keeps what follows a part of it.
LEMMA URLHasQuery ==
  ASSUME NEW q \in Seq(Tokens)
  PROVE  /\ NormalizeURL(q) \in Seq(Tokens)
         /\ q = TrimSpace(q) => HasText(NormalizeURL(q), q)
<1>1. TrimSpace(q) \in Seq(Tokens)
  BY TrimSpaceIsPart
<1>2. HTTPS \o TrimSpace(q) \in Seq(Tokens) /\ HasText(HTTPS \o TrimSpace(q), TrimSpace(q))
  BY <1>1, Affixes, ConcatParts
<1>3. HasText(TrimSpace(q), TrimSpace(q))
  BY <1>1, PartOfItself
<1>4. NormalizeURL(q) \in {TrimSpace(q), HTTPS \o TrimSpace(q)}
  BY DEF NormalizeURL
<1>5. HasText(NormalizeURL(q), TrimSpace(q))
  BY <1>2, <1>3, <1>4
<1>6. QED  BY <1>1, <1>2, <1>4, <1>5

\* Nothing is not like a URL.
LEMMA URLLikeIsText ==
  ~IsURLLike(<<>>)
<1>1. TrimSpace(<<>>) = <<>>
  BY DEF TrimSpace
<1>2. ToLower(<<>>) = <<>>
  BY DEF ToLower
<1>3. ~HasPrefix(<<>>, HTTP) /\ ~HasPrefix(<<>>, HTTPS)
  BY DEF HasPrefix, HTTP, HTTPS
<1>4. ~HasText(<<>>, <<".">>)
  <2>1. Len(<<>>) = 0 /\ Len(<<".">>) = 1 /\ ~ \E n \in Nat : n + 1 <= 0
    OBVIOUS
  <2>2. <<>> \in Seq(Tokens) /\ <<".">> \in Seq(Tokens)
    BY DEF Tokens
  <2>3. QED  BY <2>1, <2>2, HasTextAt
<1>5. QED  BY <1>1, <1>2, <1>3, <1>4 DEF IsURLLike

------------------------------------------------------------------------------
(* What is known of the query, its feeds and what was shown *)

QueryTypes == query \in Seq(Tokens) /\ feeds \in Seq(Feeds) /\ results \in Seq(Feeds)

\* Where a job has found a feed, the feeds have one with the URL it fetched
\* for the query, and there is a query; one candidate was shown.
FoundInv ==
  reply = "resolved_found" =>
    /\ NormalizeQuery(query) # <<>>
    /\ KnownURL(NormalizeURL(NormalizeQuery(query)))
    /\ Len(results) = 1 /\ results[1].site # Self

QueryInv == QueryTypes /\ FoundInv

\* QueryInv holds at the start.
LEMMA QueryInvInit ==
  QueryInit => QueryInv
<1> SUFFICES ASSUME QueryInit  PROVE QueryInv
  OBVIOUS
<1>1. query \in Seq(Tokens)
  <2>1. PICK n \in 0..MaxLength : query \in [1..n -> Tokens]
    BY DEF QueryInit, Texts
  <2>2. n \in Nat
    BY QueryAssumption
  <2>3. QED  BY <2>1, <2>2, SeqDef
<1>2. feeds \in Seq(Feeds)
  BY QueryAssumption DEF QueryInit
<1>3. results \in Seq(Feeds) /\ reply = "none"
  BY DEF QueryInit
<1>4. QED  BY <1>1, <1>2, <1>3 DEF QueryInv, QueryTypes, FoundInv

\* Persist keeps every feed where it is, and afterwards a feed has the URL of
\* each candidate.
LEMMA PersistKeeps ==
  ASSUME feeds \in Seq(Feeds), NEW found \in Seq(Feeds), Persist(found)
  PROVE  /\ feeds' \in Seq(Feeds)
         /\ \A n \in DOMAIN feeds : n \in DOMAIN feeds' /\ feeds'[n] = feeds[n]
         /\ \A n \in DOMAIN found : \E m \in DOMAIN feeds' : feeds'[m].url = found[n].url
<1> DEFINE K == {n \in DOMAIN found : ~KnownURL(found[n].url)}
           new == Kept(found, K)
           l == Len(feeds)
<1>1. feeds' = feeds \o new
  BY DEF Persist
<1>2. \A n \in DOMAIN found : n \in K \/ \E m \in DOMAIN feeds : feeds[m].url = found[n].url
  BY DEF KnownURL
<1>3. new \in Seq(Feeds) /\ \E f : Selects(f, new, Len(found), found, K)
  BY KeptSelects
<1> HIDE DEF K, new
<1>4. PICK f : Selects(f, new, Len(found), found, K)
  BY <1>3
<1>5. /\ feeds' \in Seq(Feeds) /\ Len(feeds') = Len(feeds) + Len(new)
      /\ \A i \in 1..(Len(feeds) + Len(new)) :
           feeds'[i] = IF i <= Len(feeds) THEN feeds[i] ELSE new[i - Len(feeds)]
  BY <1>1, <1>3, ConcatProperties
<1>6. /\ DOMAIN feeds = 1..Len(feeds) /\ DOMAIN found = 1..Len(found)
      /\ DOMAIN feeds' = 1..(Len(feeds) + Len(new))
      /\ Len(feeds) \in Nat /\ Len(new) \in Nat /\ Len(found) \in Nat
  BY <1>3, <1>5
<1>7. \A n \in DOMAIN feeds : n \in DOMAIN feeds' /\ feeds'[n] = feeds[n]
  BY <1>5, <1>6
<1>8. \A n \in DOMAIN found : \E m \in DOMAIN feeds' : feeds'[m].url = found[n].url
  <2> SUFFICES ASSUME NEW n \in DOMAIN found
               PROVE  \E m \in DOMAIN feeds' : feeds'[m].url = found[n].url
    OBVIOUS
  <2>1. CASE n \in K
    <3>1. n \in K \cap 1..Len(found)
      BY <1>6, <2>1
    <3>2. PICK i \in 1..Len(new) : f[i] = n /\ new[i] = found[n]
      BY <1>4, <3>1 DEF Selects
    <3>3. /\ Len(feeds) + i \in DOMAIN feeds'
          /\ ~(Len(feeds) + i <= Len(feeds)) /\ Len(feeds) + i - Len(feeds) = i
      BY <1>6
    <3>4. feeds'[Len(feeds) + i] = found[n]
      BY <1>5, <1>6, <3>2, <3>3
    <3>5. QED  BY <3>3, <3>4
  <2>2. CASE \E m \in DOMAIN feeds : feeds[m].url = found[n].url
    BY <1>7, <2>2
  <2>3. QED  BY <1>2, <2>1, <2>2
<1>9. QED  BY <1>5, <1>7, <1>8

\* Every step keeps QueryInv.
LEMMA QueryInvNext ==
  ASSUME QueryInv, [QueryNext]_queryVars
  PROVE  QueryInv'
<1> USE DEF QueryInv
<1>1. CASE Search
  <2>1. NormalizeQuery(query) \in Seq(Tokens)
    BY NormalizedIsPart DEF QueryTypes
  <2>2. SearchFeeds(NormalizeQuery(query)) \in Seq(Feeds)
    BY <2>1, SearchShows DEF QueryTypes
  <2>3. reply' = "searched" /\ results' \in Seq(Feeds) /\ UNCHANGED <<query, feeds>>
    BY <1>1, <2>2 DEF Search
  <2>4. QED  BY <2>3 DEF QueryTypes, FoundInv
<1>2. CASE DiscoverFails
  BY <1>2 DEF DiscoverFails, QueryTypes, FoundInv
<1>3. CASE Subscribe
  <2> DEFINE f == [url |-> query, title |-> query, site |-> <<>>, description |-> <<>>]
  <2>1. f \in Feeds
    BY DEF Feeds, QueryTypes
  <2>2. /\ feeds' = IF KnownURL(query) THEN feeds ELSE Append(feeds, f)
        /\ reply' = "subscribed" /\ UNCHANGED <<query, results>>
    BY <1>3 DEF Subscribe
  <2> HIDE DEF f
  <2>3. feeds' \in Seq(Feeds)
    BY <2>1, <2>2, AppendProperties DEF QueryTypes
  <2>4. QED  BY <2>2, <2>3 DEF QueryTypes, FoundInv
<1>4. CASE Refuse
  BY <1>4 DEF Refuse, QueryTypes, FoundInv
<1>5. CASE Answered
  BY <1>5 DEF Answered, queryVars, QueryTypes, FoundInv, KnownURL
<1>6. ASSUME NEW body \in Bodies, Discover(body)  PROVE QueryInv'
  <2> DEFINE q == NormalizeQuery(query)
             found == ParseFeed(body, NormalizeURL(q))
  <2>1. /\ Persist(found) /\ results' = found /\ UNCHANGED query
        /\ reply' = IF found = <<>> THEN "resolved_none" ELSE "resolved_found"
        /\ IsURLLike(q)
    BY <1>6 DEF Discover, Discoverable
  <2>2. q \in Seq(Tokens) /\ q # <<>>
    BY <2>1, NormalizedIsPart, URLLikeIsText DEF QueryTypes
  <2> HIDE DEF q
  <2>3. NormalizeURL(q) \in Seq(Tokens)
    BY <2>2, URLHasQuery
  <2>4. /\ found \in Seq(Feeds)
        /\ found # <<>> =>
             Len(found) = 1 /\ found[1].url = NormalizeURL(q) /\ found[1].site # Self
    BY <2>3, OneParses
  <2> HIDE DEF found
  <2>5. /\ feeds' \in Seq(Feeds)
        /\ \A n \in DOMAIN found : \E m \in DOMAIN feeds' : feeds'[m].url = found[n].url
    BY <2>1, <2>4, PersistKeeps DEF QueryTypes
  <2>6. QueryTypes'
    BY <2>1, <2>4, <2>5 DEF QueryTypes
  <2>7. FoundInv'
    <3>1. CASE found = <<>>
      BY <2>1, <3>1 DEF FoundInv
    <3>2. CASE found # <<>>
      <4>1. 1 \in DOMAIN found
        BY <2>4, <3>2
      <4>2. KnownURL(NormalizeURL(q))'
        BY <2>4, <2>5, <3>2, <4>1, <2>1 DEF KnownURL, q
      <4>3. q' = q
        BY <2>1 DEF q
      <4>4. q' # <<>> /\ Len(results') = 1 /\ results'[1].site # Self
        BY <2>1, <2>2, <2>4, <3>2, <4>3
      <4>5. QED  BY <4>2, <4>4 DEF FoundInv, q
    <3>3. QED  BY <3>1, <3>2
  <2>8. QED  BY <2>6, <2>7
<1>7. CASE UNCHANGED queryVars
  BY <1>7 DEF queryVars, QueryTypes, FoundInv, KnownURL
<1>8. QED  BY <1>1, <1>2, <1>3, <1>4, <1>5, <1>6, <1>7 DEF QueryNext

\* QueryInv is an invariant.
LEMMA QueryInvHolds ==
  QuerySpec => []QueryInv
<1>1. QueryInv /\ [QueryNext]_queryVars => QueryInv'
  BY QueryInvNext
<1>2. QED  BY <1>1, QueryInvInit, PTL DEF QuerySpec

------------------------------------------------------------------------------
(* The theorems *)

\* Whatever has been found under a URL answers every query that the URL is
\* fetched for, by SearchFeeds: the query, normalised, is a part of the URL.
THEOREM FoundAnswers ==
  QuerySpec => []FoundIsAnswered
<1>1. QueryInv => FoundIsAnswered
  <2> DEFINE q == NormalizeQuery(query)
  <2> SUFFICES ASSUME QueryInv, reply = "resolved_found", q = TrimSpace(q)
               PROVE  SearchFeeds(q) # <<>>
    BY DEF FoundIsAnswered
  <2>1. q \in Seq(Tokens) /\ q # <<>> /\ KnownURL(NormalizeURL(q)) /\ feeds \in Seq(Feeds)
    BY NormalizedIsPart DEF QueryInv, QueryTypes, FoundInv
  <2> HIDE DEF q
  <2>2. PICK n \in DOMAIN feeds : feeds[n].url = NormalizeURL(q)
    BY <2>1 DEF KnownURL
  <2>3. NormalizeURL(q) \in Seq(Tokens) /\ HasText(NormalizeURL(q), q)
    BY <2>1, URLHasQuery
  <2>4. HasText(ToLower(feeds[n].url), ToLower(q))
    BY <2>1, <2>2, <2>3, LowerPart
  <2>5. Matches(feeds[n], q)
    BY <2>4 DEF Matches
  <2>6. \E m \in DOMAIN SearchFeeds(q) : SearchFeeds(q)[m] = feeds[n]
    BY <2>1, <2>5, SearchFinds
  <2>7. DOMAIN <<>> = {}
    OBVIOUS
  <2>8. QED  BY <2>6, <2>7
<1>2. QED  BY <1>1, QueryInvHolds, PTL

\* Every feed is found by its own URL.
THEOREM FeedsAreKnown ==
  QuerySpec => []KnownByURL
<1>1. QueryInv => KnownByURL
  <2> SUFFICES ASSUME QueryInv, NEW n \in DOMAIN feeds, NormalizeQuery(feeds[n].url) # <<>>
               PROVE  LET q == NormalizeQuery(feeds[n].url) IN
                      \E m \in DOMAIN SearchFeeds(q) : SearchFeeds(q)[m] = feeds[n]
    BY Zenon DEF KnownByURL
  <2> DEFINE u == feeds[n].url
             q == NormalizeQuery(u)
  <2>1. feeds \in Seq(Feeds) /\ feeds[n] \in Feeds
    BY DEF QueryInv, QueryTypes
  <2>2. u \in Seq(Tokens)
    BY <2>1, FeedTexts
  <2>3. q \in Seq(Tokens) /\ HasText(ToLower(u), q) /\ ToLower(q) = q
    BY <2>2, NormalizedIsPart
  <2>4. Matches(feeds[n], q)
    BY <2>3 DEF Matches
  <2> HIDE DEF q
  <2>5. q # <<>>
    BY DEF q
  <2>6. \E m \in DOMAIN SearchFeeds(q) : SearchFeeds(q)[m] = feeds[n]
    BY <2>1, <2>3, <2>4, <2>5, SearchFinds
  <2>7. QED  BY <2>6, Zenon DEF q
<1>2. QED  BY <1>1, QueryInvHolds, PTL

\* What is suggested for a text is found by a search for it.
THEOREM SuggestionsAreFound ==
  QuerySpec => []SuggestedIsFound
<1>1. QueryInv => SuggestedIsFound
  <2> DEFINE q == NormalizeQuery(query)
             s == Suggest(query)
             r == SearchFeeds(query)
  <2> SUFFICES ASSUME QueryInv, NEW n \in DOMAIN s, q # <<>>
               PROVE  \E m \in DOMAIN SearchFeeds(q) : SearchFeeds(q)[m] = s[n]
    BY Zenon DEF SuggestedIsFound
  <2>1. feeds \in Seq(Feeds) /\ query \in Seq(Tokens)
    BY DEF QueryInv, QueryTypes
  <2>2. q \in Seq(Tokens) /\ HasText(ToLower(query), ToLower(q))
    BY <2>1, NormalizedIsPart
  <2>3. /\ r \in Seq(Feeds)
        /\ \A m \in DOMAIN r : \E k \in DOMAIN feeds : r[m] = feeds[k] /\ Matches(feeds[k], query)
    BY <2>1, SearchShows
  <2> HIDE DEF q, r
  <2>4. n \in DOMAIN r /\ s[n] = r[n]
    <3> DEFINE l == Min({Len(r), MaxSuggestions})
    <3>1. CASE Short(query)
      BY <3>1 DEF Suggest
    <3>2. CASE ~Short(query)
      <4>1. s = SubSeq(r, 1, l)
        BY <3>2 DEF Suggest, r
      <4>2. {Len(r), MaxSuggestions} \in SUBSET Nat
        BY <2>3, QueryAssumption
      <4>3. l \in Nat /\ l <= Len(r)
        BY <4>2, MinIsLeast
      <4> HIDE DEF l
      <4>4. \A i \in 1..l : i \in 1..Len(r)
        BY <2>3, <4>3
      <4>5. \A i \in 1..l : r[i] \in Feeds
        BY <2>3, <4>4
      <4> HIDE DEF s
      <4>6. /\ s \in Seq(Feeds) /\ Len(s) = IF 1 <= l THEN l - 1 + 1 ELSE 0
            /\ \A i \in 1..(l - 1 + 1) : s[i] = r[1 + i - 1]
        BY <4>1, <4>3, <4>5, SubSeqProperties
      <4>7. DOMAIN s = 1..Len(s) /\ DOMAIN r = 1..Len(r)
        BY <2>3, <4>6
      <4>8. n \in 1..l /\ 1 + n - 1 = n
        BY <4>3, <4>6, <4>7
      <4>9. QED  BY <4>3, <4>4, <4>6, <4>7, <4>8
    <3>3. QED  BY <3>1, <3>2
  <2> HIDE DEF s
  <2>5. PICK k \in DOMAIN feeds : s[n] = feeds[k] /\ Matches(feeds[k], query)
    BY <2>3, <2>4
  <2>6. feeds[k] \in Feeds
    BY <2>1
  <2>7. Matches(feeds[k], q)
    BY <2>1, <2>2, <2>5, <2>6, MatchesParts
  <2>8. \E m \in DOMAIN SearchFeeds(q) : SearchFeeds(q)[m] = feeds[k]
    BY <2>1, <2>2, <2>7, SearchFinds
  <2>9. QED  BY <2>5, <2>8
<1>2. QED  BY <1>1, QueryInvHolds, PTL

\* A job that has found something has found one feed, whose site is not the
\* address of the feed.
THEOREM CandidatesAreOne ==
  QuerySpec => []OneCandidate
<1>1. QueryInv => OneCandidate
  BY DEF QueryInv, FoundInv, OneCandidate
<1>2. QED  BY <1>1, QueryInvHolds, PTL

------------------------------------------------------------------------------
(* The spellings of an address *)

\* HasPrefix, position by position.
LEMMA HasPrefixAt ==
  ASSUME NEW t \in Seq(Tokens), NEW p \in Seq(Tokens)
  PROVE  HasPrefix(t, p) <=> Len(p) <= Len(t) /\ \A k \in 1..Len(p) : t[k] = p[k]
<1>1. ASSUME Len(p) <= Len(t)
      PROVE  SubSeq(t, 1, Len(p)) = p <=> \A k \in 1..Len(p) : t[k] = p[k]
  <2> DEFINE u == SubSeq(t, 1, Len(p))
  <2>1. Len(p) \in Nat /\ \A i \in 1..Len(p) : t[i] \in Tokens
    BY <1>1
  <2>2. /\ u \in Seq(Tokens) /\ Len(u) = IF 1 <= Len(p) THEN Len(p) - 1 + 1 ELSE 0
        /\ \A i \in 1..(Len(p) - 1 + 1) : u[i] = t[1 + i - 1]
    BY <2>1, SubSeqProperties
  <2> HIDE DEF u
  <2>3. Len(u) = Len(p) /\ \A i \in 1..Len(p) : u[i] = t[i]
    BY <2>1, <2>2
  <2>4. u = p <=> \A i \in 1..Len(p) : u[i] = p[i]
    BY <2>2, <2>3, SeqEqual
  <2>5. QED  BY <2>3, <2>4 DEF u
<1>2. QED  BY <1>1 DEF HasPrefix

\* HasSuffix with "/": the last token is one.
LEMMA HasSlashAt ==
  ASSUME NEW t \in Seq(Tokens)
  PROVE  HasSuffix(t, <<"/">>) <=> t # <<>> /\ t[Len(t)] = "/"
<1>1. Len(<<"/">>) = 1 /\ Len(t) \in Nat
  OBVIOUS
<1>2. CASE t = <<>>
  <2>1. Len(t) = 0
    BY <1>2
  <2>2. QED  BY <1>1, <1>2, <2>1 DEF HasSuffix
<1>3. CASE t # <<>>
  <2>1. Len(t) \in Nat \ {0} /\ Len(t) \in 1..Len(t)
    BY <1>3, FirstAndLast
  <2>2. Len(t) - 1 + 1 = Len(t) /\ 1 <= Len(t)
    BY <2>1
  <2> DEFINE u == SubSeq(t, Len(t), Len(t))
  <2>3. \A i \in Len(t)..Len(t) : t[i] \in Tokens
    BY <2>1
  <2>4. u \in Seq(Tokens) /\ Len(u) = 1 /\ u[1] = t[Len(t)]
    <3>1. /\ u \in Seq(Tokens)
          /\ Len(u) = IF Len(t) <= Len(t) THEN Len(t) - Len(t) + 1 ELSE 0
          /\ \A i \in 1..(Len(t) - Len(t) + 1) : u[i] = t[Len(t) + i - 1]
      BY <2>1, <2>3, SubSeqProperties
    <3> HIDE DEF u
    <3>2. Len(t) - Len(t) + 1 = 1 /\ Len(t) + 1 - 1 = Len(t)
      BY <2>1
    <3>3. QED  BY <2>1, <3>1, <3>2
  <2>5. HasSuffix(t, <<"/">>) <=> u = <<"/">>
    BY <1>1, <2>2 DEF HasSuffix
  <2> HIDE DEF u
  <2>6. u = <<"/">> <=> u[1] = "/"
    <3>1. <<"/">> \in Seq(Tokens) /\ <<"/">>[1] = "/"
      BY Affixes
    <3>2. \A i \in 1..1 : i = 1
      OBVIOUS
    <3>3. u[1] = "/" => u = <<"/">>
      BY <1>1, <2>4, <3>1, <3>2, SeqEqual
    <3>4. QED  BY <3>1, <3>3
  <2>7. QED  BY <1>3, <2>4, <2>5, <2>6
<1>4. QED  BY <1>2, <1>3

\* A prefix that has been put in front is what is removed.
LEMMA PrefixGoes ==
  ASSUME NEW p \in Seq(Tokens), NEW t \in Seq(Tokens)
  PROVE  TrimPrefix(p \o t, p) = t
<1> DEFINE u == p \o t
<1>1. /\ u \in Seq(Tokens) /\ Len(u) = Len(p) + Len(t)
      /\ \A i \in 1..(Len(p) + Len(t)) : u[i] = IF i <= Len(p) THEN p[i] ELSE t[i - Len(p)]
  BY ConcatProperties
<1>2. Len(p) \in Nat /\ Len(t) \in Nat
  OBVIOUS
<1> HIDE DEF u
<1>3. HasPrefix(u, p)
  BY <1>1, <1>2, HasPrefixAt
<1> DEFINE v == SubSeq(u, Len(p) + 1, Len(u))
<1>4. \A i \in (Len(p) + 1)..Len(u) : u[i] \in Tokens
  BY <1>1, <1>2
<1>5. /\ v \in Seq(Tokens)
      /\ Len(v) = IF Len(p) + 1 <= Len(u) THEN Len(u) - (Len(p) + 1) + 1 ELSE 0
      /\ \A i \in 1..(Len(u) - (Len(p) + 1) + 1) : v[i] = u[Len(p) + 1 + i - 1]
  BY <1>1, <1>2, <1>4, SubSeqProperties
<1>6. TrimPrefix(u, p) = v
  BY <1>3 DEF TrimPrefix
<1> HIDE DEF v
<1>7. Len(v) = Len(t) /\ \A i \in 1..Len(t) : v[i] = u[Len(p) + i]
  <2>1. Len(u) - (Len(p) + 1) + 1 = Len(t) /\ (Len(p) + 1 <= Len(u) <=> 1 <= Len(t))
    BY <1>1, <1>2
  <2>2. Len(v) = Len(t)
    BY <1>2, <1>5, <2>1
  <2>3. \A i \in 1..Len(t) : Len(p) + 1 + i - 1 = Len(p) + i
    BY <1>2
  <2>4. QED  BY <1>5, <2>1, <2>2, <2>3
<1>8. \A i \in 1..Len(t) : u[Len(p) + i] = t[i]
  <2> SUFFICES ASSUME NEW i \in 1..Len(t)  PROVE u[Len(p) + i] = t[i]
    OBVIOUS
  <2>1. /\ Len(p) + i \in 1..(Len(p) + Len(t)) /\ ~(Len(p) + i <= Len(p))
        /\ Len(p) + i - Len(p) = i
    BY <1>2
  <2>2. QED  BY <1>1, <2>1
<1>9. v = t
  BY <1>5, <1>7, <1>8, SeqEqual
<1>10. QED  BY <1>6, <1>9 DEF u

\* A "/" that has been put at the end is what is removed.
LEMMA SlashGoes ==
  ASSUME NEW t \in Seq(Tokens)
  PROVE  TrimSuffix(t \o <<"/">>, <<"/">>) = t
<1> DEFINE s == <<"/">>
           u == t \o s
<1>1. s \in Seq(Tokens) /\ Len(s) = 1 /\ s[1] = "/" /\ Len(t) \in Nat
  BY Affixes
<1>2. /\ u \in Seq(Tokens) /\ Len(u) = Len(t) + Len(s)
      /\ \A i \in 1..(Len(t) + Len(s)) : u[i] = IF i <= Len(t) THEN t[i] ELSE s[i - Len(t)]
  BY <1>1, ConcatProperties
<1> HIDE DEF u
<1>3. HasSuffix(u, s)
  <2> HIDE DEF s
  <2>1. /\ Len(u) = Len(t) + 1 /\ Len(u) \in 1..(Len(t) + Len(s)) /\ ~(Len(u) <= Len(t))
        /\ Len(u) - Len(t) = 1
    BY <1>1, <1>2
  <2>2. u[Len(u)] = "/"
    BY <1>1, <1>2, <2>1
  <2>3. u # <<>>
    <3>1. Len(<<>>) = 0 /\ Len(u) # 0
      BY <1>1, <2>1
    <3>2. QED  BY <3>1
  <2>4. QED  BY <1>2, <2>2, <2>3, HasSlashAt DEF s
<1> DEFINE v == SubSeq(u, 1, Len(u) - Len(s))
<1>4. TrimSuffix(u, s) = v
  BY <1>3 DEF TrimSuffix
<1> HIDE DEF s
<1>5. Len(u) - Len(s) = Len(t)
  BY <1>1, <1>2
<1>6. \A i \in 1..Len(t) : u[i] \in Tokens
  BY <1>1, <1>2
<1>7. /\ v \in Seq(Tokens) /\ Len(v) = IF 1 <= Len(t) THEN Len(t) - 1 + 1 ELSE 0
      /\ \A i \in 1..(Len(t) - 1 + 1) : v[i] = u[1 + i - 1]
  BY <1>1, <1>5, <1>6, SubSeqProperties
<1> HIDE DEF v
<1>8. Len(v) = Len(t) /\ \A i \in 1..Len(v) : v[i] = t[i]
  BY <1>1, <1>2, <1>7
<1>9. v = t
  BY <1>7, <1>8, SeqEqual
<1>10. QED  BY <1>4, <1>9 DEF u, s

\* Lower case is taken token by token.
LEMMA LowerConcat ==
  ASSUME NEW s \in Seq(Tokens), NEW t \in Seq(Tokens)
  PROVE  ToLower(s \o t) = ToLower(s) \o ToLower(t)
<1> DEFINE u == s \o t
           a == ToLower(s)
           b == ToLower(t)
           v == a \o b
<1>1. /\ u \in Seq(Tokens) /\ Len(u) = Len(s) + Len(t)
      /\ \A i \in 1..(Len(s) + Len(t)) : u[i] = IF i <= Len(s) THEN s[i] ELSE t[i - Len(s)]
  BY ConcatProperties
<1>2. /\ a \in Seq(Tokens) /\ Len(a) = Len(s)
      /\ \A k \in 1..Len(s) : a[k] = IF s[k] = "X" THEN "x" ELSE s[k]
  BY LowerType
<1>3. /\ b \in Seq(Tokens) /\ Len(b) = Len(t)
      /\ \A k \in 1..Len(t) : b[k] = IF t[k] = "X" THEN "x" ELSE t[k]
  BY LowerType
<1> HIDE DEF u, a, b
<1>4. /\ v \in Seq(Tokens) /\ Len(v) = Len(a) + Len(b)
      /\ \A i \in 1..(Len(a) + Len(b)) : v[i] = IF i <= Len(a) THEN a[i] ELSE b[i - Len(a)]
  <2>1. a \in Seq(Tokens) /\ b \in Seq(Tokens)
    BY <1>2, <1>3
  <2>2. QED  BY <2>1, ConcatProperties, Zenon
<1>5. /\ ToLower(u) \in Seq(Tokens) /\ Len(ToLower(u)) = Len(u)
      /\ \A k \in 1..Len(u) : ToLower(u)[k] = IF u[k] = "X" THEN "x" ELSE u[k]
  BY <1>1, LowerType
<1> HIDE DEF v
<1>6. Len(s) \in Nat /\ Len(t) \in Nat
  OBVIOUS
<1>7. \A i \in 1..Len(u) : ToLower(u)[i] = v[i]
  <2> SUFFICES ASSUME NEW i \in 1..Len(u)  PROVE ToLower(u)[i] = v[i]
    OBVIOUS
  <2>1. i \in 1..(Len(s) + Len(t))
    BY <1>1
  <2>2. CASE i <= Len(s)
    <3>1. i \in 1..Len(s)
      BY <1>6, <2>1, <2>2
    <3>2. u[i] = s[i] /\ v[i] = a[i]
      BY <1>1, <1>2, <1>3, <1>4, <2>1, <2>2
    <3>3. QED  BY <1>2, <1>5, <3>1, <3>2
  <2>3. CASE ~(i <= Len(s))
    <3>1. i - Len(s) \in 1..Len(t)
      BY <1>6, <2>1, <2>3
    <3>2. u[i] = t[i - Len(s)] /\ v[i] = b[i - Len(s)]
      BY <1>1, <1>2, <1>3, <1>4, <2>1, <2>3
    <3>3. QED  BY <1>3, <1>5, <3>1, <3>2
  <2>4. QED  BY <2>2, <2>3
<1>8. ToLower(u) = v
  BY <1>1, <1>2, <1>3, <1>4, <1>5, <1>7, SeqEqual
<1>9. QED  BY <1>8 DEF u, v, a, b

\* No space at an end is left of, or in front of, another text without.
LEMMA InkConcat ==
  ASSUME NEW s \in Seq(Tokens), NEW t \in Seq(Tokens),
         s = <<>> \/ InkAtEnds(s), t = <<>> \/ InkAtEnds(t)
  PROVE  s \o t = <<>> \/ InkAtEnds(s \o t)
<1> DEFINE u == s \o t
<1>1. /\ u \in Seq(Tokens) /\ Len(u) = Len(s) + Len(t)
      /\ \A i \in 1..(Len(s) + Len(t)) : u[i] = IF i <= Len(s) THEN s[i] ELSE t[i - Len(s)]
  BY ConcatProperties
<1>2. s \o <<>> = s /\ <<>> \o t = t
  BY ConcatEmptySeq
<1>3. CASE s = <<>>
  BY <1>2, <1>3
<1>4. CASE t = <<>>
  BY <1>2, <1>4
<1>5. CASE InkAtEnds(s) /\ InkAtEnds(t) /\ s # <<>> /\ t # <<>>
  <2>1. Len(s) \in Nat \ {0} /\ Len(t) \in Nat \ {0}
    BY <1>5, FirstAndLast
  <2> HIDE DEF u
  <2>2. u[1] = s[1]
    BY <1>1, <2>1
  <2>3. /\ Len(u) \in 1..(Len(s) + Len(t)) /\ ~(Len(u) <= Len(s)) /\ Len(u) - Len(s) = Len(t)
    BY <1>1, <2>1
  <2>4. u[Len(u)] = t[Len(t)]
    BY <1>1, <2>3
  <2>5. InkAtEnds(u)
    BY <1>5, <2>2, <2>4 DEF InkAtEnds
  <2>6. QED  BY <2>5 DEF u
<1>6. QED  BY <1>3, <1>4, <1>5

\* A text in lower case comes back from upper case; its spaces stay.
LEMMA UpperAndBack ==
  ASSUME NEW t \in Seq(Tokens), ToLower(t) = t
  PROVE  /\ ToUpper(t) \in Seq(Tokens) /\ ToLower(ToUpper(t)) = t
         /\ (t = <<>> \/ InkAtEnds(t)) => (ToUpper(t) = <<>> \/ InkAtEnds(ToUpper(t)))
<1> DEFINE u == ToUpper(t)
<1>1. DOMAIN t = 1..Len(t) /\ Len(t) \in Nat /\ \A k \in 1..Len(t) : t[k] \in Tokens
  OBVIOUS
<1>2. /\ u \in [1..Len(t) -> Tokens]
      /\ \A k \in 1..Len(t) : u[k] = IF t[k] = "x" THEN "X" ELSE t[k]
  BY <1>1 DEF ToUpper, Tokens
<1> HIDE DEF u
<1>3. u \in Seq(Tokens) /\ Len(u) = Len(t)
  BY <1>1, <1>2
<1>4. \A k \in 1..Len(t) : t[k] # "X"
  BY LowerType
<1>5. /\ ToLower(u) \in Seq(Tokens) /\ Len(ToLower(u)) = Len(t)
      /\ \A k \in 1..Len(t) : ToLower(u)[k] = IF u[k] = "X" THEN "x" ELSE u[k]
  BY <1>3, LowerType
<1>6. \A k \in 1..Len(t) : ToLower(u)[k] = t[k]
  BY <1>2, <1>4, <1>5
<1>7. ToLower(u) = t
  BY <1>5, <1>6, SeqEqual
<1>8. (t = <<>> \/ InkAtEnds(t)) => (u = <<>> \/ InkAtEnds(u))
  <2>1. CASE t = <<>>
    <3>1. Len(u) = 0
      BY <1>3, <2>1
    <3>2. u = <<>>
      BY <1>3, <3>1, EmptySeq
    <3>3. QED  BY <3>2
  <2>2. CASE t # <<>>
    <3>1. 1 \in 1..Len(t) /\ Len(t) \in 1..Len(t)
      BY <2>2, FirstAndLast
    <3>2. (u[1] = " " => t[1] = " ") /\ (u[Len(t)] = " " => t[Len(t)] = " ")
      BY <1>2, <3>1
    <3>3. InkAtEnds(t) => InkAtEnds(u)
      <4>1. Len(u) = Len(t)
        BY <1>3
      <4>2. InkAtEnds(t) => u[1] # " " /\ u[Len(t)] # " "
        BY <3>2, Zenon DEF InkAtEnds
      <4>3. InkAtEnds(u) <=> u[1] # " " /\ u[Len(t)] # " "
        BY <4>1 DEF InkAtEnds
      <4>4. QED  BY <4>2, <4>3, Zenon
    <3>4. QED  BY <2>2, <3>3, Zenon
  <2>3. QED  BY <2>1, <2>2
<1>9. QED  BY <1>3, <1>7, <1>8 DEF u

\* Nothing about the prefixes and the "/" changes in lower case, nor is trimmed.
LEMMA AffixesStay ==
  \A p \in {<<>>, HTTP, HTTPS, WWW, <<"/">>} :
    p \in Seq(Tokens) /\ ToLower(p) = p /\ (p = <<>> \/ InkAtEnds(p))
<1>1. ASSUME NEW p \in Seq(Tokens), \A k \in 1..Len(p) : p[k] # "X"
      PROVE  ToLower(p) = p
  <2>1. \A k \in 1..Len(p) : ToLower(p)[k] = p[k]
    BY <1>1, LowerType
  <2>2. ToLower(p) \in Seq(Tokens) /\ Len(ToLower(p)) = Len(p)
    BY LowerType
  <2>3. QED  BY <2>1, <2>2, SeqEqual
<1>2. \A p \in {HTTP, HTTPS, WWW, <<"/">>} :
        /\ Len(p) \in {1, 2, 3} /\ \A k \in 1..Len(p) : p[k] # "X"
        /\ InkAtEnds(p)
  <2>1. 1..3 = {1, 2, 3} /\ 1..2 = {1, 2} /\ 1..1 = {1}
    OBVIOUS
  <2>2. /\ Len(HTTP) = 3 /\ HTTP[1] = "http:" /\ HTTP[2] = "/" /\ HTTP[3] = "/"
        /\ Len(HTTPS) = 3 /\ HTTPS[1] = "https:" /\ HTTPS[2] = "/" /\ HTTPS[3] = "/"
        /\ Len(WWW) = 2 /\ WWW[1] = "www" /\ WWW[2] = "."
        /\ Len(<<"/">>) = 1 /\ <<"/">>[1] = "/"
    BY DEF HTTP, HTTPS, WWW
  <2>3. \A p \in {HTTP, HTTPS} : Len(p) = 3 /\ (\A k \in {1, 2, 3} : p[k] # "X") /\ InkAtEnds(p)
    BY <2>2 DEF InkAtEnds
  <2>4. Len(WWW) = 2 /\ (\A k \in {1, 2} : WWW[k] # "X") /\ InkAtEnds(WWW)
    BY <2>2 DEF InkAtEnds
  <2>5. \A k \in {1} : <<"/">>[k] # "X"
    BY <2>2
  <2>6. InkAtEnds(<<"/">>)
    BY <2>2 DEF InkAtEnds
  <2>7. QED  BY <2>1, <2>2, <2>3, <2>4, <2>5, <2>6
<1>3. <<>> \in Seq(Tokens) /\ ToLower(<<>>) = <<>>
  BY DEF ToLower
<1>4. QED  BY <1>1, <1>2, <1>3, Affixes

\* A "/" at the end does not make a prefix of a text that ends in no "/",
\* if the prefix ends in "/" twice or in another token.
LEMMA NoPrefixMade ==
  ASSUME NEW q \in Seq(Tokens), NEW slash \in {<<>>, <<"/">>}, NEW p \in {HTTP, HTTPS, WWW},
         ~HasSuffix(q, <<"/">>), ~HasPrefix(q, p)
  PROVE  ~HasPrefix(q \o slash, p)
<1>1. p \in Seq(Tokens) /\ slash \in Seq(Tokens)
  <2>1. <<>> \in Seq(Tokens)
    OBVIOUS
  <2>2. QED  BY <2>1, Affixes
<1>2. CASE slash = <<>>
  <2>1. q \o slash = q
    BY <1>2, ConcatEmptySeq
  <2>2. QED  BY <2>1
<1>3. CASE slash = <<"/">>
  <2> DEFINE u == q \o slash
  <2>1. Len(slash) = 1 /\ slash[1] = "/" /\ Len(q) \in Nat
    BY <1>3
  <2>2. /\ u \in Seq(Tokens) /\ Len(u) = Len(q) + Len(slash)
        /\ \A i \in 1..(Len(q) + Len(slash)) :
             u[i] = IF i <= Len(q) THEN q[i] ELSE slash[i - Len(q)]
    BY <1>1, ConcatProperties
  <2> HIDE DEF u
  <2>3. Len(u) = Len(q) + 1 /\ (\A i \in 1..Len(q) : u[i] = q[i]) /\ u[Len(q) + 1] = "/"
    <3>1. /\ Len(q) + 1 \in 1..(Len(q) + Len(slash)) /\ ~(Len(q) + 1 <= Len(q))
          /\ Len(q) + 1 - Len(q) = 1
      BY <2>1
    <3>2. \A i \in 1..Len(q) : i \in 1..(Len(q) + Len(slash)) /\ i <= Len(q)
      BY <2>1
    <3>3. QED  BY <2>1, <2>2, <3>1, <3>2
  <2>4. Len(p) \in {2, 3} /\ (Len(p) = 2 => p[2] # "/") /\ (Len(p) = 3 => p[2] = "/")
    BY DEF HTTP, HTTPS, WWW
  <2>5. SUFFICES ASSUME Len(p) <= Len(u), \A k \in 1..Len(p) : u[k] = p[k]  PROVE FALSE
    BY <1>1, <2>2, HasPrefixAt DEF u
  <2>6. CASE Len(p) <= Len(q)
    <3>1. \A k \in 1..Len(p) : k \in 1..Len(q)
      BY <2>1, <2>4, <2>6
    <3>2. \A k \in 1..Len(p) : q[k] = p[k]
      BY <2>3, <2>5, <3>1
    <3>3. QED  BY <1>1, <2>6, <3>2, HasPrefixAt
  <2>7. CASE Len(p) = Len(q) + 1
    <3>1. CASE Len(p) = 2
      <4>1. 2 \in 1..Len(p) /\ Len(q) + 1 = 2
        <5>1. 2 \in 1..2
          OBVIOUS
        <5>2. QED  BY <2>7, <3>1, <5>1, Zenon
      <4>2. p[2] = "/"
        BY <2>3, <2>5, <4>1
      <4>3. QED  BY <2>4, <3>1, <4>2
    <3>2. CASE Len(p) = 3
      <4>1. 2 \in 1..Len(p) /\ Len(q) = 2 /\ 2 \in 1..Len(q)
        <5>1. 2 \in 1..3 /\ 2 \in 1..2 /\ \A l \in Nat : 3 = l + 1 => l = 2
          OBVIOUS
        <5>2. 3 = Len(q) + 1
          BY <2>7, <3>2, Zenon
        <5>3. Len(q) = 2
          BY <2>1, <5>1, <5>2
        <5>4. QED  BY <3>2, <5>1, <5>3, Zenon
      <4>2. q[2] = "/"
        BY <2>3, <2>4, <2>5, <3>2, <4>1
      <4>3. q # <<>>
        BY <4>1
      <4>4. QED  BY <4>1, <4>2, <4>3, HasSlashAt
    <3>3. QED  BY <2>4, <3>1, <3>2
  <2>8. QED  BY <2>1, <2>3, <2>4, <2>5, <2>6, <2>7
<1>4. QED  BY <1>2, <1>3

\* What starts with one prefix does not start with another.
LEMMA OtherPrefix ==
  ASSUME NEW t \in Seq(Tokens), NEW p \in Seq(Tokens), NEW o \in Seq(Tokens),
         p # <<>>, o # <<>>, p[1] # o[1]
  PROVE  ~HasPrefix(p \o t, o)
<1> DEFINE u == p \o t
<1>1. /\ u \in Seq(Tokens) /\ Len(u) = Len(p) + Len(t)
      /\ \A i \in 1..(Len(p) + Len(t)) : u[i] = IF i <= Len(p) THEN p[i] ELSE t[i - Len(p)]
  BY ConcatProperties
<1>2. Len(p) \in Nat \ {0} /\ 1 \in 1..Len(o) /\ Len(t) \in Nat
  BY FirstAndLast
<1> HIDE DEF u
<1>3. u[1] = p[1]
  BY <1>1, <1>2
<1>4. ~HasPrefix(u, o)
  BY <1>1, <1>2, <1>3, HasPrefixAt
<1>5. QED  BY <1>4 DEF u

\* All spellings of an address are one query.
THEOREM SpellingsAreOne ==
  ASSUME NEW q \in Seq(Tokens), Plain(q), NEW t \in Spellings(q)
  PROVE  NormalizeQuery(t) = q
<1>1. PICK scheme \in {<<>>, HTTP, HTTPS}, www \in {<<>>, WWW}, u \in {q, ToUpper(q)},
           slash \in {<<>>, <<"/">>} : t = scheme \o www \o u \o slash
  <2>1. PICK scheme \in {<<>>, HTTP, HTTPS}, www \in {<<>>, WWW}, u \in {q, ToUpper(q)},
             slash \in {<<>>, <<"/">>} : t = Spelt(scheme, www, u, slash)
    BY DEF Spellings
  <2>2. QED  BY <2>1, Zenon DEF Spelt
<1>2. /\ TrimSpace(q) = q /\ ToLower(q) = q /\ ~HasSuffix(q, <<"/">>)
      /\ ~HasPrefix(q, HTTP) /\ ~HasPrefix(q, HTTPS) /\ ~HasPrefix(q, WWW)
  BY DEF Plain
<1>3. \A p \in {<<>>, HTTP, HTTPS, WWW, <<"/">>} :
        p \in Seq(Tokens) /\ ToLower(p) = p /\ (p = <<>> \/ InkAtEnds(p))
  BY AffixesStay
<1>4. /\ scheme \in Seq(Tokens) /\ ToLower(scheme) = scheme
      /\ scheme = <<>> \/ InkAtEnds(scheme)
  BY <1>3
<1>5. www \in Seq(Tokens) /\ ToLower(www) = www /\ (www = <<>> \/ InkAtEnds(www))
  BY <1>3
<1>6. slash \in Seq(Tokens) /\ ToLower(slash) = slash /\ (slash = <<>> \/ InkAtEnds(slash))
  BY <1>3
<1>7. u \in Seq(Tokens) /\ ToLower(u) = q /\ (u = <<>> \/ InkAtEnds(u))
  <2>1. q = <<>> \/ InkAtEnds(q)
    BY <1>2, TrimmedEnds
  <2>2. QED  BY <1>2, <2>1, UpperAndBack
<1> DEFINE a == scheme \o www
           b == a \o u
<1>8. a \in Seq(Tokens) /\ ToLower(a) = a /\ (a = <<>> \/ InkAtEnds(a))
  BY <1>4, <1>5, InkConcat, LowerConcat, ConcatProperties
<1>9. b \in Seq(Tokens) /\ ToLower(b) = a \o q /\ (b = <<>> \/ InkAtEnds(b))
  <2> HIDE DEF a
  <2>1. QED  BY <1>7, <1>8, InkConcat, LowerConcat, ConcatProperties
<1>10. t \in Seq(Tokens) /\ ToLower(t) = a \o q \o slash /\ (t = <<>> \/ InkAtEnds(t))
  <2>1. t = b \o slash
    BY <1>1
  <2> HIDE DEF b
  <2>2. QED  BY <1>6, <1>9, <2>1, InkConcat, LowerConcat, ConcatProperties
<1>11. TrimSpace(t) = t
  <2>1. CASE t = <<>>
    BY <2>1 DEF TrimSpace
  <2>2. CASE t # <<>>
    BY <1>10, <2>2, NothingToTrim
  <2>3. QED  BY <2>1, <2>2
<1> DEFINE s == q \o slash
           r == www \o s
<1>12. s \in Seq(Tokens) /\ r \in Seq(Tokens)
  <2>1. s \in Seq(Tokens)
    BY <1>6, ConcatProperties
  <2> HIDE DEF s
  <2>2. QED  BY <1>5, <2>1, ConcatProperties
<1>13. ToLower(t) = scheme \o r
  <2>1. (a \o q) \o slash = a \o s
    <3>1. a \in Seq(Tokens) /\ slash \in Seq(Tokens)
      BY <1>6, <1>8
    <3> HIDE DEF a
    <3>2. QED  BY <3>1, ConcatAssociative
  <2> HIDE DEF s
  <2>2. a \o s = scheme \o r
    <3>1. scheme \in Seq(Tokens) /\ www \in Seq(Tokens)
      BY <1>4, <1>5
    <3>2. QED  BY <1>12, <3>1, ConcatAssociative
  <2>3. QED  BY <1>10, <2>1, <2>2
<1>14. ~HasPrefix(s, HTTP) /\ ~HasPrefix(s, HTTPS) /\ ~HasPrefix(s, WWW)
  BY <1>2, NoPrefixMade
<1>15. HTTP[1] = "http:" /\ HTTPS[1] = "https:" /\ WWW[1] = "www"
       /\ HTTP # <<>> /\ HTTPS # <<>> /\ WWW # <<>>
  BY DEF HTTP, HTTPS, WWW
<1> HIDE DEF s
<1>16. ~HasPrefix(r, HTTP) /\ ~HasPrefix(r, HTTPS)
  <2>1. CASE www = <<>>
    <3>1. r = s
      BY <1>12, <2>1, ConcatEmptySeq
    <3>2. QED  BY <1>14, <3>1
  <2>2. CASE www = WWW
    <3>1. "www" # "http:" /\ "www" # "https:"
      OBVIOUS
    <3>2. QED  BY <1>12, <1>15, <2>2, <3>1, Affixes, OtherPrefix
  <2>3. QED  BY <2>1, <2>2
<1>17. TrimPrefix(r, WWW) = s
  <2>1. CASE www = <<>>
    <3>1. r = s
      BY <1>12, <2>1, ConcatEmptySeq
    <3>2. QED  BY <1>14, <3>1 DEF TrimPrefix
  <2>2. CASE www = WWW
    BY <1>12, <2>2, Affixes, PrefixGoes
  <2>3. QED  BY <2>1, <2>2
<1>18. TrimSuffix(s, <<"/">>) = q
  <2>1. CASE slash = <<>>
    <3>1. s = q
      BY <2>1, ConcatEmptySeq DEF s
    <3>2. QED  BY <1>2, <3>1 DEF TrimSuffix
  <2>2. CASE slash = <<"/">>
    BY <2>2, SlashGoes DEF s
  <2>3. QED  BY <2>1, <2>2
<1> HIDE DEF r
<1>19. TrimPrefix(TrimPrefix(scheme \o r, HTTP), HTTPS) = r
  <2>1. TrimPrefix(r, HTTP) = r /\ TrimPrefix(r, HTTPS) = r
    BY <1>16 DEF TrimPrefix
  <2>2. CASE scheme = <<>>
    <3>1. scheme \o r = r
      BY <1>12, <2>2, ConcatEmptySeq
    <3>2. QED  BY <2>1, <3>1
  <2>3. CASE scheme = HTTP
    <3>1. TrimPrefix(scheme \o r, HTTP) = r
      BY <1>12, <2>3, Affixes, PrefixGoes
    <3>2. QED  BY <2>1, <3>1
  <2>4. CASE scheme = HTTPS
    <3>1. "https:" # "http:"
      OBVIOUS
    <3>2. ~HasPrefix(scheme \o r, HTTP)
      BY <1>12, <1>15, <2>4, <3>1, Affixes, OtherPrefix
    <3>3. TrimPrefix(scheme \o r, HTTP) = scheme \o r
      BY <3>2 DEF TrimPrefix
    <3>4. TrimPrefix(scheme \o r, HTTPS) = r
      BY <1>12, <2>4, Affixes, PrefixGoes
    <3>5. QED  BY <3>3, <3>4
  <2>5. QED  BY <2>2, <2>3, <2>4
<1>20. QED  BY <1>11, <1>13, <1>17, <1>18, <1>19, Zenon DEF NormalizeQuery

\* The same of the queries of QuerySpec.
THEOREM SpellingsNormalize ==
  QuerySpec => []SpellingsMeet
<1>1. QueryInv => SpellingsMeet
  BY SpellingsAreOne DEF QueryInv, QueryTypes, SpellingsMeet
<1>2. QED  BY <1>1, QueryInvHolds, PTL

=============================================================================
