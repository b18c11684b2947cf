----------------------- MODULE ReadTableRequest_proofs -----------------------
(***************************************************************************)
(* The options of a read request spell FILTER and the pushed filters, no   *)
(* row is lost or added by them, and every column finds the same rows, for *)
(* all tables, clauses, filters, projections and numbers of executions.    *)
(*                                                                         *)
(* The invariant carries the whole text: the lines so far spell FILTER     *)
(* followed by words that narrow it (Asked), and activating the columns of *)
(* the plan again moves no column in the projection (Planned).  Recursive  *)
(* functions and FlattenSeq are reasoned about by the least number that    *)
(* would be a counterexample (LeastNumber).                                *)
(***************************************************************************)
EXTENDS ReadTableRequest, SequenceTheorems, FiniteSetTheorems, WellFoundedInduction, TLAPS

(* Numbers.                                                                *)
LEMMA LeastNumber ==
  ASSUME NEW T, T \subseteq Nat, T # {}
  PROVE  \E x \in T : \A y \in T : x <= y
<1> DEFINE R == OpToRel(<, Nat)
<1>1. IsWellFoundedOn(R, Nat)
  BY NatLessThanWellFounded
<1>2. \A x, y \in Nat : <<x, y>> \in R <=> x < y
  BY DEF OpToRel
<1> HIDE DEF R
<1>3. PICK x \in T : \A y \in T : ~ (<<y, x>> \in R)
  BY <1>1, WFMin
<1>4. \A y \in T : y \in Nat /\ x \in Nat /\ ~ (y < x)
  BY <1>2, <1>3
<1>5. \A y \in T : x <= y
  BY <1>4
<1> QED BY <1>5

LEMMA MinInSet ==
  ASSUME NEW T, T \subseteq Nat, T # {}
  PROVE  Min(T) \in T /\ \A y \in T : Min(T) <= y
BY LeastNumber DEF Min

LEMMA MaxInSet ==
  ASSUME NEW T, NEW n \in Nat, T \subseteq 0 .. n, T # {}
  PROVE  Max(T) \in T /\ \A y \in T : Max(T) >= y
<1> DEFINE D == {n - x : x \in T}
<1>1. D \subseteq Nat /\ D # {}
  <2>1. \A x \in T : n - x \in Nat
    OBVIOUS
  <2> QED BY <2>1
<1>2. PICK d \in D : \A e \in D : d <= e
  <2> HIDE DEF D
  <2> QED BY <1>1, LeastNumber
<1>3. PICK x \in T : d = n - x
  OBVIOUS
<1>4. \A y \in T : n - y \in D
  OBVIOUS
<1>5. \A y \in T : x >= y
  BY <1>2, <1>3, <1>4
<1> QED BY <1>5 DEF Max

LEMMA Induction ==
  ASSUME NEW T, 0 \in T, \A n \in Nat : n \in T => n + 1 \in T
  PROVE  \A n \in Nat : n \in T
<1> SUFFICES ASSUME NEW k \in Nat, k \notin T PROVE FALSE
  OBVIOUS
<1> DEFINE Out == {n \in Nat : n \notin T}
<1>1. Out \subseteq Nat /\ Out # {}
  OBVIOUS
<1>2. PICK m \in Out : \A n \in Out : m <= n
  <2> HIDE DEF Out
  <2> QED BY <1>1, LeastNumber
<1>3. m \in Nat /\ m # 0 /\ m \notin T
  OBVIOUS
<1>4. m - 1 \in Nat /\ m - 1 \notin Out
  BY <1>2, <1>3
<1>5. m - 1 \in T /\ (m - 1) + 1 = m
  BY <1>3, <1>4
<1> QED BY <1>3, <1>4, <1>5

-----------------------------------------------------------------------------
(* Flattened sequences.                                                    *)
Flattens(ss, n, f) == f = [i \in 1 .. n |-> IF i = 1 THEN ss[i] ELSE f[i - 1] \o ss[i]]

LEMMA FlattensAt ==
  ASSUME NEW ss, NEW n \in Nat, NEW f, Flattens(ss, n, f), NEW i \in 1 .. n
  PROVE  f[i] = IF i = 1 THEN ss[i] ELSE f[i - 1] \o ss[i]
<1> DEFINE e(j) == IF j = 1 THEN ss[j] ELSE f[j - 1] \o ss[j]
<1>1. f = [j \in 1 .. n |-> e(j)]
  BY DEF Flattens
<1> HIDE DEF e
<1>2. f[i] = e(i)
  BY <1>1
<1> QED BY <1>2 DEF e

LEMMA FlattensExists ==
  ASSUME NEW S, NEW ss \in Seq(Seq(S))
  PROVE  \E f : Flattens(ss, Len(ss), f) /\ f \in [1 .. Len(ss) -> Seq(S)]
<1> DEFINE T == {n \in Nat : n <= Len(ss) =>
                   \E f : Flattens(ss, n, f) /\ f \in [1 .. n -> Seq(S)]}
<1>1. 0 \in T
  <2>1. Flattens(ss, 0, [i \in 1 .. 0 |-> <<>>]) /\ [i \in 1 .. 0 |-> <<>>] \in [1 .. 0 -> Seq(S)]
    BY DEF Flattens
  <2> QED BY <2>1
<1>2. \A n \in Nat : n \in T => n + 1 \in T
  <2> SUFFICES ASSUME NEW n \in Nat, n \in T, n + 1 <= Len(ss)
               PROVE  \E f : Flattens(ss, n + 1, f) /\ f \in [1 .. n + 1 -> Seq(S)]
    OBVIOUS
  <2>1. PICK f : Flattens(ss, n, f) /\ f \in [1 .. n -> Seq(S)]
    OBVIOUS
  <2> DEFINE last == IF n = 0 THEN ss[1] ELSE f[n] \o ss[n + 1]
             g == [i \in 1 .. n + 1 |-> IF i <= n THEN f[i] ELSE last]
  <2>2. last \in Seq(S)
    <3>1. ss[n + 1] \in Seq(S)
      OBVIOUS
    <3>2. CASE n = 0
      BY <3>1, <3>2
    <3>3. CASE n # 0
      <4>1. f[n] \in Seq(S)
        BY <2>1, <3>3
      <4>2. f[n] \o ss[n + 1] \in Seq(S)
        BY <3>1, <4>1, ConcatProperties
      <4> QED BY <3>3, <4>2
    <3> QED BY <3>2, <3>3
  <2>3. last = IF n + 1 = 1 THEN ss[n + 1] ELSE f[n] \o ss[n + 1]
    OBVIOUS
  <2> HIDE DEF last
  <2>4. g \in [1 .. n + 1 -> Seq(S)]
    BY <2>1, <2>2
  <2>5. \A i \in 1 .. n + 1 : g[i] = IF i = 1 THEN ss[i] ELSE g[i - 1] \o ss[i]
    <3> SUFFICES ASSUME NEW i \in 1 .. n + 1
                 PROVE  g[i] = IF i = 1 THEN ss[i] ELSE g[i - 1] \o ss[i]
      OBVIOUS
    <3>1. CASE i <= n
      <4>1. f[i] = IF i = 1 THEN ss[i] ELSE f[i - 1] \o ss[i]
        <5>1. i \in 1 .. n /\ Flattens(ss, n, f)
          BY <2>1, <3>1
        <5> QED BY <5>1, FlattensAt
      <4>2. g[i] = f[i] /\ (i # 1 => g[i - 1] = f[i - 1])
        BY <3>1
      <4> QED BY <4>1, <4>2
    <3>2. CASE i = n + 1
      <4>1. g[i] = last /\ (i # 1 => g[i - 1] = f[n])
        BY <3>2
      <4> HIDE DEF g
      <4> QED BY <2>3, <3>2, <4>1
    <3> QED BY <3>1, <3>2
  <2>6. Flattens(ss, n + 1, g)
    <3> HIDE DEF g
    <3> QED BY <2>4, <2>5 DEF Flattens
  <2> HIDE DEF g
  <2> QED BY <2>4, <2>6
<1>3. Len(ss) \in Nat
  OBVIOUS
<1>4. Len(ss) \in T
  <2> HIDE DEF T
  <2> QED BY <1>1, <1>2, <1>3, Induction
<1> QED BY <1>3, <1>4

(* The flattening of the first sequences is the start of that of all.      *)
SameUpTo(n, f, g) == \A i \in 1 .. n : f[i] = g[i]

LEMMA FlattensAgree ==
  ASSUME NEW ss, NEW tt, NEW n \in Nat, NEW m \in Nat, n <= m, SameUpTo(n, ss, tt),
         NEW f, Flattens(ss, n, f), NEW g, Flattens(tt, m, g)
  PROVE  SameUpTo(n, f, g)
<1> DEFINE T == {k \in Nat : k \in 1 .. n => f[k] = g[k]}
<1>1. 0 \in T
  OBVIOUS
<1>2. \A k \in Nat : k \in T => k + 1 \in T
  <2> SUFFICES ASSUME NEW k \in Nat, k \in T, k + 1 \in 1 .. n
               PROVE  f[k + 1] = g[k + 1]
    OBVIOUS
  <2>1. f[k + 1] = IF k + 1 = 1 THEN ss[k + 1] ELSE f[(k + 1) - 1] \o ss[k + 1]
    BY FlattensAt
  <2>2. g[k + 1] = IF k + 1 = 1 THEN tt[k + 1] ELSE g[(k + 1) - 1] \o tt[k + 1]
    <3>1. k + 1 \in 1 .. m
      OBVIOUS
    <3> QED BY <3>1, FlattensAt
  <2>3. ss[k + 1] = tt[k + 1] /\ (k + 1) - 1 = k
    BY DEF SameUpTo
  <2>4. k + 1 # 1 => f[k] = g[k]
    OBVIOUS
  <2> QED BY <2>1, <2>2, <2>3, <2>4
<1>3. \A k \in Nat : k \in T
  <2> HIDE DEF T
  <2> QED BY <1>1, <1>2, Induction
<1> QED BY <1>3 DEF SameUpTo

LEMMA FlattenIsLast ==
  ASSUME NEW S, NEW ss \in Seq(Seq(S)), ss # <<>>
  PROVE  \E f : /\ Flattens(ss, Len(ss), f) /\ f \in [1 .. Len(ss) -> Seq(S)]
                /\ FlattenSeq(ss) = f[Len(ss)]
<1> DEFINE c == CHOOSE f : Flattens(ss, Len(ss), f)
<1>1. PICK h : Flattens(ss, Len(ss), h) /\ h \in [1 .. Len(ss) -> Seq(S)]
  BY FlattensExists
<1>2. Flattens(ss, Len(ss), c)
  BY <1>1
<1>3. FlattenSeq(ss) = c[Len(ss)]
  BY DEF FlattenSeq, Flattens
<1> HIDE DEF c
<1>4. Len(ss) \in Nat
  OBVIOUS
<1>5. \A i \in 1 .. Len(ss) : c[i] = h[i]
  <2> DEFINE n == Len(ss)
  <2>1. Flattens(ss, n, h) /\ Flattens(ss, n, c) /\ n \in Nat
    BY <1>1, <1>2, <1>4
  <2> HIDE DEF n
  <2>2. SameUpTo(n, ss, ss) /\ n <= n
    BY <2>1 DEF SameUpTo
  <2>3. SameUpTo(n, c, h)
    BY <2>1, <2>2, FlattensAgree
  <2> QED BY <2>3 DEF SameUpTo, n
<1>6. c = h
  BY <1>1, <1>2, <1>5 DEF Flattens
<1> QED BY <1>1, <1>3, <1>6

LEMMA FlattenEmpty == FlattenSeq(<<>>) = <<>>
BY DEF FlattenSeq

LEMMA FlattenTyped ==
  ASSUME NEW S, NEW ss \in Seq(Seq(S))
  PROVE  FlattenSeq(ss) \in Seq(S)
<1>1. CASE ss = <<>>
  <2>1. <<>> \in Seq(S)
    OBVIOUS
  <2> QED BY <1>1, <2>1, FlattenEmpty
<1>2. CASE ss # <<>>
  <2>1. PICK f \in [1 .. Len(ss) -> Seq(S)] : FlattenSeq(ss) = f[Len(ss)]
    BY <1>2, FlattenIsLast
  <2>2. Len(ss) \in 1 .. Len(ss)
    BY <1>2
  <2> QED BY <2>1, <2>2
<1> QED BY <1>1, <1>2

LEMMA FlattenAppend ==
  ASSUME NEW S, NEW ss \in Seq(Seq(S)), NEW t \in Seq(S)
  PROVE  FlattenSeq(Append(ss, t)) = FlattenSeq(ss) \o t
<1> DEFINE tt == Append(ss, t)
           n == Len(ss)
<1>1. /\ tt \in Seq(Seq(S)) /\ tt # <<>> /\ Len(tt) = n + 1 /\ n \in Nat
      /\ \A i \in 1 .. n : ss[i] = tt[i]
      /\ tt[n + 1] = t
  BY AppendProperties
<1> HIDE DEF tt, n
<1>2. PICK g : /\ Flattens(tt, n + 1, g) /\ g \in [1 .. n + 1 -> Seq(S)]
               /\ FlattenSeq(tt) = g[n + 1]
  BY <1>1, FlattenIsLast
<1>3. g[n + 1] = IF n + 1 = 1 THEN t ELSE g[(n + 1) - 1] \o t
  <2> DEFINE m == n + 1
  <2>1. m \in Nat /\ m \in 1 .. m /\ Flattens(tt, m, g) /\ tt[m] = t
    BY <1>1, <1>2
  <2> HIDE DEF m
  <2>2. g[m] = IF m = 1 THEN tt[m] ELSE g[m - 1] \o tt[m]
    BY <2>1, FlattensAt
  <2> QED BY <2>1, <2>2 DEF m
<1>4. CASE ss = <<>>
  <2>1. n = 0
    BY <1>4 DEF n
  <2>2. <<>> \o t = t
    BY ConcatEmptySeq
  <2> QED BY <1>2, <1>3, <1>4, <2>1, <2>2, FlattenEmpty DEF tt
<1>5. CASE ss # <<>>
  <2>1. PICK f : /\ Flattens(ss, n, f) /\ f \in [1 .. n -> Seq(S)]
                 /\ FlattenSeq(ss) = f[n]
    BY <1>5, FlattenIsLast DEF n
  <2>2. n # 0 /\ n + 1 # 1 /\ (n + 1) - 1 = n /\ n <= n + 1 /\ n + 1 \in Nat
    BY <1>1, <1>5 DEF n
  <2>3. f[n] = g[n]
    <3> DEFINE m == n + 1
    <3>1. n \in Nat /\ m \in Nat /\ n <= m
      BY <1>1
    <3>2. SameUpTo(n, ss, tt)
      BY <1>1 DEF SameUpTo
    <3>3. Flattens(ss, n, f) /\ Flattens(tt, m, g)
      BY <1>2, <2>1
    <3> HIDE DEF m
    <3>4. SameUpTo(n, f, g)
      BY <3>1, <3>2, <3>3, FlattensAgree
    <3>5. n \in 1 .. n
      BY <1>1, <2>2
    <3> QED BY <3>4, <3>5 DEF SameUpTo
  <2> QED BY <1>2, <1>3, <2>1, <2>2, <2>3 DEF tt
<1> QED BY <1>4, <1>5

(* Its elements are those of the sequences.                                *)
SameElements(ss) ==
  \A w : w \in Range(FlattenSeq(ss)) <=> \E i \in DOMAIN ss : w \in Range(ss[i])

LEMMA FlattenElements ==
  ASSUME NEW S
  PROVE  \A ss \in Seq(Seq(S)) : SameElements(ss)
<1> DEFINE T == {n \in Nat : \A ss \in Seq(Seq(S)) : Len(ss) = n => SameElements(ss)}
<1>1. 0 \in T
  <2> SUFFICES ASSUME NEW ss \in Seq(Seq(S)), Len(ss) = 0 PROVE SameElements(ss)
    OBVIOUS
  <2>1. ss = <<>> /\ FlattenSeq(ss) = <<>>
    BY FlattenEmpty
  <2> QED BY <2>1 DEF Range, SameElements
<1>2. \A n \in Nat : n \in T => n + 1 \in T
  <2> SUFFICES ASSUME NEW n \in Nat, n \in T, NEW tt \in Seq(Seq(S)), Len(tt) = n + 1
               PROVE  SameElements(tt)
    OBVIOUS
  <2>1. tt # <<>>
    OBVIOUS
  <2>2. PICK ss \in Seq(Seq(S)), t \in Seq(S) : tt = Append(ss, t)
    BY <2>1, SequenceEmptyOrAppend
  <2>3. /\ Len(ss) = n /\ DOMAIN tt = 1 .. n + 1 /\ DOMAIN ss = 1 .. n
        /\ \A i \in 1 .. n : tt[i] = ss[i]
        /\ tt[n + 1] = t
    BY <2>2, AppendProperties
  <2>4. SameElements(ss)
    BY <2>3
  <2>5. Range(FlattenSeq(tt)) = Range(FlattenSeq(ss)) \cup Range(t)
    <3>1. FlattenSeq(tt) = FlattenSeq(ss) \o t
      BY <2>2, FlattenAppend
    <3>2. FlattenSeq(ss) \in Seq(S)
      BY FlattenTyped
    <3> QED BY <3>1, <3>2, RangeConcatenation
  <2>6. \A w : (\E i \in DOMAIN tt : w \in Range(tt[i]))
               <=> (\E i \in DOMAIN ss : w \in Range(ss[i])) \/ w \in Range(t)
    <3>1. DOMAIN tt = DOMAIN ss \cup {n + 1}
      BY <2>3
    <3>2. \A i \in DOMAIN ss : Range(tt[i]) = Range(ss[i])
      BY <2>3
    <3>3. Range(tt[n + 1]) = Range(t)
      BY <2>3
    <3> QED BY <3>1, <3>2, <3>3
  <2> QED BY <2>4, <2>5, <2>6 DEF SameElements
<1>3. \A n \in Nat : n \in T
  <2> HIDE DEF T
  <2> QED BY <1>1, <1>2, Induction
<1> SUFFICES ASSUME NEW ss \in Seq(Seq(S)) PROVE SameElements(ss)
  OBVIOUS
<1>4. Len(ss) \in Nat /\ Len(ss) \in T
  BY <1>3
<1> QED BY <1>4

-----------------------------------------------------------------------------
(* Words and lines.                                                        *)
WhereWords == UNION {Range(s.where) : s \in Statements}
PushedWords ==
  [part : {"column", "=", "IN", "item", "literal", "AND"}, field : Fields \cup {NoField},
   values : SUBSET Values, len : Nat]
Words == WhereWords \cup PushedWords
Lines == [words : Seq(Words), blank : BOOLEAN]

LEMMA LineParts == \A line \in Lines : line.words \in Seq(Words) /\ line.blank \in BOOLEAN
BY DEF Lines

LEMMA SplitSeq ==
  ASSUME NEW S, NEW s \in Seq(S), NEW n \in 1 .. Len(s)
  PROVE  SubSeq(s, 1, n) \o SubSeq(s, n + 1, Len(s)) = s
BY ConcatAdjacentSubSeq, SubSeqFull

LEMMA FirstOfSeq ==
  ASSUME NEW S, NEW s \in Seq(S), s # <<>>
  PROVE  SubSeq(s, 1, 1) = <<s[1]>>
<1> DEFINE t == SubSeq(s, 1, 1)
           u == <<s[1]>>
<1>1. t \in Seq(S) /\ Len(t) = 1 /\ t[1] = s[1]
  OBVIOUS
<1>2. u \in Seq(S) /\ Len(u) = 1 /\ u[1] = s[1]
  OBVIOUS
<1> HIDE DEF t, u
<1>3. t = u
  BY <1>1, <1>2, SeqEqual
<1> QED BY <1>3 DEF t, u

LEMMA WordLength == \A w \in Words : w.len \in Nat
BY RequestAssumption DEF Words, WhereWords, PushedWords

LEMMA Limit == MAX_OPTION_LEN \in Nat /\ MAX_OPTION_LEN > 3
BY RequestAssumption

LEMMA LengthOfWord ==
  ASSUME NEW w, w.len \in Nat
  PROVE  LengthOf(<<w>>) = w.len
<1> DEFINE words == <<w>>
           Ends(f) == f = [n \in 0 .. 1 |-> IF n = 0 THEN -1 ELSE f[n - 1] + 1 + words[n].len]
           h == [n \in 0 .. 1 |-> IF n = 0 THEN -1 ELSE w.len]
           c == CHOOSE f : Ends(f)
<1>1. Len(words) = 1 /\ words[1] = w
  OBVIOUS
<1>2. Ends(h)
  <2>1. \A n \in 0 .. 1 : h[n] = IF n = 0 THEN -1 ELSE h[n - 1] + 1 + words[n].len
    <3>1. h[0] = -1 /\ h[1] = w.len
      OBVIOUS
    <3>2. h[1 - 1] + 1 + words[1].len = w.len
      BY <1>1, <3>1
    <3>3. \A n \in 0 .. 1 : n = 0 \/ n = 1
      OBVIOUS
    <3> HIDE DEF h, words
    <3> QED BY <3>1, <3>2, <3>3
  <2>2. h = [n \in 0 .. 1 |-> h[n]]
    OBVIOUS
  <2> HIDE DEF h, words
  <2> QED BY <2>1, <2>2
<1>3. Ends(c)
  <2> HIDE DEF Ends, h
  <2> QED BY <1>2
<1>4. LengthOf(words) = c[1]
  BY <1>1 DEF LengthOf
<1>5. c[1] = w.len
  <2> DEFINE e(n) == IF n = 0 THEN -1 ELSE c[n - 1] + 1 + words[n].len
  <2>1. c = [n \in 0 .. 1 |-> e(n)]
    <3> HIDE DEF c
    <3> QED BY <1>3
  <2> HIDE DEF c, e
  <2>2. c[0] = e(0) /\ c[1] = e(1)
    BY <2>1
  <2>3. e(0) = -1
    BY DEF e
  <2>4. e(1) = c[0] + 1 + w.len
    BY <1>1 DEF e
  <2> QED BY <2>2, <2>3, <2>4
<1> QED BY <1>4, <1>5

(* A line that is cut fits; a clause is refused for its first word.        *)
LEMMA OptionEndFits ==
  ASSUME NEW words \in Seq(Words), words # <<>>, NEW blank \in BOOLEAN
  PROVE  LET n == OptionEnd(words, blank)
         IN /\ n \in 0 .. Len(words)
            /\ n # 0 => LineLength(Line(words, n, blank)) <= MAX_OPTION_LEN
            /\ n = 0 => words[1].len >= MAX_OPTION_LEN
<1> DEFINE fits == {k \in 1 .. Len(words) : LineLength(Line(words, k, blank)) <= MAX_OPTION_LEN}
           cuts == {k \in 1 .. Len(words) - 1 : k \in fits}
           n == OptionEnd(words, blank)
<1>1. Len(words) \in Nat /\ Len(words) >= 1 /\ words[1] \in Words
  OBVIOUS
<1>2. n = IF Len(words) \in fits THEN Len(words) ELSE IF cuts = {} THEN 0 ELSE Max(cuts)
  <2>1. cuts = {k \in 1 .. Len(words) - 1 : LineLength(Line(words, k, blank)) <= MAX_OPTION_LEN}
    BY <1>1
  <2>2. Len(words) \in fits <=> LineLength(Line(words, Len(words), blank)) <= MAX_OPTION_LEN
    BY <1>1
  <2> HIDE DEF cuts, fits
  <2> QED BY <2>1, <2>2 DEF OptionEnd
<1>3. 1 \notin fits => words[1].len >= MAX_OPTION_LEN
  <2>1. SubSeq(words, 1, 1) = <<words[1]>>
    BY FirstOfSeq
  <2>2. words[1].len \in Nat
    BY <1>1, WordLength
  <2>3. LineLength(Line(words, 1, blank)) = words[1].len + (IF blank THEN 1 ELSE 0)
    BY <2>1, <2>2, LengthOfWord DEF LineLength, Line
  <2> QED BY <1>1, <2>2, <2>3, Limit
<1>4. \A k \in fits : k \in 1 .. Len(words) /\ LineLength(Line(words, k, blank)) <= MAX_OPTION_LEN
  OBVIOUS
<1> HIDE DEF fits, n
<1>5. CASE Len(words) \in fits
  <2>1. n = Len(words)
    BY <1>2, <1>5
  <2> QED BY <1>1, <1>4, <1>5, <2>1 DEF n
<1>6. CASE Len(words) \notin fits /\ cuts = {}
  <2>1. 1 \notin fits
    BY <1>1, <1>6
  <2>2. n = 0
    BY <1>2, <1>6
  <2> QED BY <1>1, <1>3, <2>1, <2>2 DEF n
<1>7. CASE Len(words) \notin fits /\ cuts # {}
  <2>1. cuts \subseteq 0 .. Len(words) /\ cuts \subseteq fits /\ 0 \notin cuts
    BY <1>1
  <2>2. n = Max(cuts)
    BY <1>2, <1>7
  <2> HIDE DEF cuts
  <2>3. n \in cuts
    BY <1>1, <1>7, <2>1, <2>2, MaxInSet
  <2> QED BY <1>4, <2>1, <2>3 DEF n
<1> QED BY <1>5, <1>6, <1>7

LEMMA ClauseTyped == \A lines \in Seq(Lines) : Clause(lines) \in Seq(Words)
<1> SUFFICES ASSUME NEW lines \in Seq(Lines) PROVE Clause(lines) \in Seq(Words)
  OBVIOUS
<1>1. [i \in DOMAIN lines |-> lines[i].words] \in Seq(Seq(Words))
  <2>1. \A i \in 1 .. Len(lines) : lines[i].words \in Seq(Words)
    BY LineParts
  <2>2. DOMAIN lines = 1 .. Len(lines) /\ Len(lines) \in Nat
    OBVIOUS
  <2> QED BY <2>1, <2>2
<1> QED BY <1>1, FlattenTyped DEF Clause

LEMMA ClauseEmpty == Clause(<<>>) = <<>>
<1>1. [i \in DOMAIN <<>> |-> <<>>[i].words] = <<>>
  OBVIOUS
<1> QED BY <1>1, FlattenEmpty DEF Clause

LEMMA ClauseAppend ==
  ASSUME NEW lines \in Seq(Lines), NEW line \in Lines
  PROVE  Clause(Append(lines, line)) = Clause(lines) \o line.words
<1> DEFINE parts == [i \in DOMAIN lines |-> lines[i].words]
           longer == Append(lines, line)
<1>1. /\ longer \in Seq(Lines) /\ Len(longer) = Len(lines) + 1 /\ Len(lines) \in Nat
      /\ \A i \in 1 .. Len(lines) : longer[i] = lines[i]
      /\ longer[Len(lines) + 1] = line
  BY AppendProperties
<1>2. parts \in Seq(Seq(Words)) /\ Len(parts) = Len(lines)
  <2>1. \A i \in 1 .. Len(lines) : lines[i].words \in Seq(Words)
    BY LineParts
  <2>2. DOMAIN lines = 1 .. Len(lines) /\ Len(lines) \in Nat
    OBVIOUS
  <2> QED BY <2>1, <2>2
<1>3. line.words \in Seq(Words)
  BY LineParts
<1>4. [i \in DOMAIN longer |-> longer[i].words] = Append(parts, line.words)
  <2> DEFINE more == Append(parts, line.words)
  <2>1. /\ more \in Seq(Seq(Words)) /\ Len(more) = Len(lines) + 1
        /\ \A i \in 1 .. Len(lines) : more[i] = parts[i]
        /\ more[Len(lines) + 1] = line.words
    BY <1>2, <1>3, AppendProperties
  <2> HIDE DEF longer, more
  <2>2. DOMAIN longer = 1 .. Len(lines) + 1 /\ DOMAIN more = 1 .. Len(lines) + 1
    BY <1>1, <2>1
  <2>3. \A i \in 1 .. Len(lines) + 1 : more[i] = longer[i].words
    <3> SUFFICES ASSUME NEW i \in 1 .. Len(lines) + 1 PROVE more[i] = longer[i].words
      OBVIOUS
    <3>1. CASE i \in 1 .. Len(lines)
      <4>1. parts[i] = lines[i].words
        BY <3>1
      <4> QED BY <1>1, <2>1, <3>1, <4>1
    <3>2. CASE i = Len(lines) + 1
      BY <1>1, <2>1, <3>2
    <3> QED BY <1>1, <3>1, <3>2
  <2>4. more = [i \in 1 .. Len(lines) + 1 |-> more[i]]
    BY <2>1, <2>2
  <2> QED BY <2>2, <2>3, <2>4 DEF more
<1> HIDE DEF parts, longer
<1>5. FlattenSeq(Append(parts, line.words)) = FlattenSeq(parts) \o line.words
  BY <1>2, <1>3, FlattenAppend
<1> QED BY <1>4, <1>5 DEF Clause, parts, longer

-----------------------------------------------------------------------------
(* Cutting a clause into lines.                                            *)
GoodLines(lines) ==
  \A i \in DOMAIN lines :
    lines[i].words # <<>> /\ LineLength(lines[i]) <= MAX_OPTION_LEN /\ (lines[i].blank <=> i > 1)

(* The lines and the rest of the clause are still the whole text; a clause *)
(* is only refused for a word that is left of it.                          *)
Cuts(text, left) ==
  {cut \in [lines : Seq(Lines), rest : Seq(Words), threw : BOOLEAN] :
     /\ GoodLines(cut.lines)
     /\ Clause(cut.lines) \o cut.rest = text
     /\ Range(cut.rest) \subseteq left
     /\ cut.threw => \E w \in left : w.len >= MAX_OPTION_LEN}

Shorter(cut, next) == next.threw \/ next.rest = <<>> \/ Len(next.rest) < Len(cut.rest)

LEMMA CutLineKeeps ==
  ASSUME NEW text, NEW left, NEW cut \in Cuts(text, left)
  PROVE  CutLine(cut) \in Cuts(text, left) /\ Shorter(cut, CutLine(cut))
<1> DEFINE blank == cut.lines # <<>>
           n == OptionEnd(cut.rest, blank)
           next == CutLine(cut)
<1>1. /\ cut \in [lines : Seq(Lines), rest : Seq(Words), threw : BOOLEAN]
      /\ GoodLines(cut.lines)
      /\ Clause(cut.lines) \o cut.rest = text
      /\ Range(cut.rest) \subseteq left
      /\ cut.threw => \E w \in left : w.len >= MAX_OPTION_LEN
  BY DEF Cuts
<1>2. CASE cut.threw \/ cut.rest = <<>>
  <2>1. next = cut
    BY <1>2 DEF CutLine
  <2> QED BY <1>2, <2>1 DEF Shorter
<1>3. CASE ~ cut.threw /\ cut.rest # <<>> /\ n = 0
  <2>1. next = [cut EXCEPT !.threw = TRUE]
    BY <1>3 DEF CutLine
  <2>2. cut.rest[1] \in Range(cut.rest) /\ blank \in BOOLEAN
    BY <1>1, <1>3 DEF Range
  <2>3. cut.rest[1].len >= MAX_OPTION_LEN
    BY <1>1, <1>3, <2>2, OptionEndFits
  <2>4. /\ next \in [lines : Seq(Lines), rest : Seq(Words), threw : BOOLEAN]
        /\ next.lines = cut.lines /\ next.rest = cut.rest /\ next.threw
    BY <1>1, <2>1
  <2>5. \E w \in left : w.len >= MAX_OPTION_LEN
    BY <1>1, <2>2, <2>3
  <2> HIDE DEF next
  <2> QED BY <1>1, <2>4, <2>5 DEF Cuts, Shorter, next
<1>4. CASE ~ cut.threw /\ cut.rest # <<>> /\ n # 0
  <2> DEFINE line == Line(cut.rest, n, blank)
             rest == SubSeq(cut.rest, n + 1, Len(cut.rest))
  <2>1. next = [cut EXCEPT !.lines = Append(@, line), !.rest = SubSeq(@, n + 1, Len(@))]
    BY <1>4 DEF CutLine
  <2>2. /\ blank \in BOOLEAN /\ cut.lines \in Seq(Lines)
        /\ cut.rest \in Seq(Words) /\ Len(cut.rest) \in Nat
    BY <1>1
  <2>3. n \in 1 .. Len(cut.rest) /\ LineLength(line) <= MAX_OPTION_LEN
    <3> HIDE DEF blank
    <3>1. n \in 0 .. Len(cut.rest) /\ (n # 0 => LineLength(line) <= MAX_OPTION_LEN)
      BY <1>4, <2>2, OptionEndFits
    <3> QED BY <1>4, <2>2, <3>1
  <2> HIDE DEF n
  <2>4. /\ line.words = SubSeq(cut.rest, 1, n) /\ line.words \in Seq(Words)
        /\ Len(line.words) = n /\ line.blank = blank /\ line \in Lines
    BY <2>2, <2>3 DEF Line, Lines
  <2>5. /\ rest \in Seq(Words) /\ Len(rest) = Len(cut.rest) - n
        /\ \A i \in 1 .. Len(rest) : rest[i] = cut.rest[n + i]
    BY <2>2, <2>3
  <2>6. line.words \o rest = cut.rest
    <3>1. SubSeq(cut.rest, 1, n) \o rest = cut.rest
      BY <2>2, <2>3, SplitSeq
    <3> HIDE DEF line, rest
    <3> QED BY <2>4, <3>1
  <2> HIDE DEF line, rest
  <2>7. /\ next.lines = Append(cut.lines, line) /\ next.rest = rest /\ next.threw = cut.threw
        /\ next \in [lines : Seq(Lines), rest : Seq(Words), threw : BOOLEAN]
    <3>1. Append(cut.lines, line) \in Seq(Lines)
      BY <2>2, <2>4
    <3>2. next = [cut EXCEPT !.lines = Append(cut.lines, line), !.rest = rest]
      BY <1>1, <2>1 DEF rest
    <3> HIDE DEF next
    <3> QED BY <1>1, <2>5, <3>1, <3>2
  <2> HIDE DEF next
  <2>8. GoodLines(next.lines)
    <3> DEFINE more == Append(cut.lines, line)
    <3>1. /\ Len(more) = Len(cut.lines) + 1 /\ DOMAIN more = 1 .. Len(cut.lines) + 1
          /\ \A i \in 1 .. Len(cut.lines) : more[i] = cut.lines[i]
          /\ more[Len(cut.lines) + 1] = line /\ Len(cut.lines) \in Nat
      BY <2>2, <2>4, AppendProperties
    <3> HIDE DEF more
    <3>2. ASSUME NEW i \in 1 .. Len(cut.lines)
          PROVE  /\ more[i].words # <<>> /\ LineLength(more[i]) <= MAX_OPTION_LEN
                 /\ more[i].blank <=> i > 1
      <4>1. more[i] = cut.lines[i] /\ i \in DOMAIN cut.lines
        BY <2>2, <3>1
      <4> DEFINE kept == cut.lines[i]
      <4>2. kept.words # <<>> /\ LineLength(kept) <= MAX_OPTION_LEN
        BY <1>1, <4>1 DEF GoodLines
      <4>3. kept.blank <=> i > 1
        BY <1>1, <4>1 DEF GoodLines
      <4>4. more[i] = kept
        BY <4>1
      <4> HIDE DEF kept
      <4> QED BY <4>2, <4>3, <4>4
    <3>3. /\ line.words # <<>> /\ LineLength(line) <= MAX_OPTION_LEN
          /\ line.blank <=> Len(cut.lines) + 1 > 1
      <4>1. line.words # <<>>
        <5>1. Len(line.words) = n /\ n > 0
          BY <2>2, <2>3, <2>4
        <5> QED BY <5>1
      <4>2. line.blank <=> Len(cut.lines) + 1 > 1
        <5>1. blank <=> Len(cut.lines) + 1 > 1
          BY <2>2
        <5>2. line.blank \in BOOLEAN
          BY <2>4, LineParts
        <5> HIDE DEF blank
        <5>3. line.blank <=> blank
          BY <2>2, <2>4, <5>2
        <5> QED BY <5>1, <5>3
      <4> QED BY <2>3, <4>1, <4>2
    <3> QED BY <2>7, <3>1, <3>2, <3>3 DEF GoodLines, more
  <2>9. Clause(next.lines) \o next.rest = text
    <3>1. Clause(next.lines) = Clause(cut.lines) \o line.words
      BY <2>2, <2>4, <2>7, ClauseAppend
    <3>2. Clause(cut.lines) \in Seq(Words)
      BY <2>2, ClauseTyped
    <3>3. (Clause(cut.lines) \o line.words) \o rest = Clause(cut.lines) \o (line.words \o rest)
      <4> DEFINE a == Clause(cut.lines)
                 b == line.words
      <4>1. a \in Seq(Words) /\ b \in Seq(Words) /\ rest \in Seq(Words)
        BY <2>4, <2>5, <3>2
      <4> HIDE DEF a, b
      <4>2. (a \o b) \o rest = a \o (b \o rest)
        BY <4>1, ConcatAssociative
      <4> QED BY <4>2 DEF a, b
    <3> QED BY <1>1, <2>6, <2>7, <3>1, <3>3
  <2>10. Range(next.rest) \subseteq left
    <3>1. Range(rest) \subseteq Range(cut.rest)
      BY <2>2, <2>3, <2>5 DEF Range
    <3> QED BY <1>1, <2>7, <3>1
  <2>11. Shorter(cut, next)
    BY <2>2, <2>3, <2>5, <2>7 DEF Shorter
  <2>12. next \in Cuts(text, left)
    BY <1>4, <2>7, <2>8, <2>9, <2>10 DEF Cuts
  <2> QED BY <2>11, <2>12 DEF next
<1> QED BY <1>1, <1>2, <1>3, <1>4

LEMMA AddOptionsCuts ==
  ASSUME NEW options \in Seq(Lines), GoodLines(options), NEW where_clause \in Seq(Words)
  PROVE  LET added == AddOptionsFromWhereClause(options, where_clause)
         IN /\ added \in Cuts(Clause(options) \o where_clause, Range(where_clause))
            /\ added.threw \/ added.rest = <<>>
<1> DEFINE a == [lines |-> options, rest |-> where_clause, threw |-> FALSE]
           N == Len(where_clause)
           S == Cuts(Clause(options) \o where_clause, Range(where_clause))
           e(f, j) == IF j = 0 THEN a ELSE CutLine(f[j - 1])
           Turns(n, f) == f = [j \in 0 .. n |-> e(f, j)]
           c == CHOOSE f : Turns(N, f)
<1>1. N \in Nat
  OBVIOUS
<1>2. a \in S
  BY DEF Cuts
<1>3. \A cut \in S : CutLine(cut) \in S /\ Shorter(cut, CutLine(cut))
  BY CutLineKeeps
<1>4. AddOptionsFromWhereClause(options, where_clause) = c[N]
  BY DEF AddOptionsFromWhereClause
<1>5. a.rest = where_clause
  OBVIOUS
<1>6. \A cut \in S : cut.rest \in Seq(Words)
  BY DEF Cuts
<1> HIDE DEF a, S, N
<1>7. \E f : Turns(N, f)
  <2> DEFINE T == {n \in Nat : \E f : Turns(n, f)}
  <2>1. 0 \in T
    <3> DEFINE h == [j \in 0 .. 0 |-> a]
    <3>1. \A j \in 0 .. 0 : h[j] = e(h, j)
      OBVIOUS
    <3>2. h = [j \in 0 .. 0 |-> h[j]]
      OBVIOUS
    <3> HIDE DEF h
    <3>3. Turns(0, h)
      BY <3>1, <3>2
    <3> QED BY <3>3
  <2>2. \A n \in Nat : n \in T => n + 1 \in T
    <3> HIDE DEF Turns
    <3> SUFFICES ASSUME NEW n \in Nat, n \in T PROVE \E f : Turns(n + 1, f)
      OBVIOUS
    <3>1. PICK f : Turns(n, f)
      OBVIOUS
    <3> DEFINE h == [j \in 0 .. n + 1 |-> IF j <= n THEN f[j] ELSE CutLine(f[n])]
    <3>2. \A j \in 0 .. n : f[j] = e(f, j)
      <4> HIDE DEF e
      <4> QED BY <3>1 DEF Turns
    <3>3. \A j \in 0 .. n : h[j] = f[j]
      OBVIOUS
    <3>4. h[n + 1] = CutLine(f[n])
      OBVIOUS
    <3>5. h = [j \in 0 .. n + 1 |-> h[j]]
      OBVIOUS
    <3> HIDE DEF h
    <3>6. \A j \in 0 .. n + 1 : h[j] = e(h, j)
      <4> SUFFICES ASSUME NEW j \in 0 .. n + 1 PROVE h[j] = e(h, j)
        OBVIOUS
      <4>1. CASE j \in 0 .. n
        <5>1. j # 0 => h[j - 1] = f[j - 1]
          BY <3>3, <4>1
        <5> QED BY <3>2, <3>3, <4>1, <5>1
      <4>2. CASE j = n + 1
        <5>1. j # 0 /\ j - 1 = n /\ h[n] = f[n]
          BY <3>3, <4>2
        <5> QED BY <3>4, <4>2, <5>1
      <4> QED BY <4>1, <4>2
    <3>7. Turns(n + 1, h)
      <4> HIDE DEF e
      <4> QED BY <3>5, <3>6 DEF Turns
    <3> QED BY <3>7
  <2> HIDE DEF Turns
  <2>3. \A n \in Nat : n \in T
    <3> HIDE DEF T
    <3> QED BY <2>1, <2>2, Induction
  <2> QED BY <1>1, <2>3
<1>8. Turns(N, c)
  <2> HIDE DEF Turns
  <2> QED BY <1>7
<1> HIDE DEF c
<1>9. \A j \in 0 .. N : c[j] = e(c, j)
  <2> HIDE DEF e
  <2> QED BY <1>8
<1> DEFINE Down(j) == c[j] \in S /\ (c[j].threw \/ c[j].rest = <<>> \/ Len(c[j].rest) <= N - j)
           T == {j \in Nat : j <= N => Down(j)}
<1>10. 0 \in T
  <2>1. c[0] = a
    BY <1>1, <1>9
  <2>2. Len(a.rest) <= N - 0
    BY <1>1, <1>5 DEF N
  <2> QED BY <1>2, <2>1, <2>2
<1>11. \A j \in Nat : j \in T => j + 1 \in T
  <2> SUFFICES ASSUME NEW j \in Nat, j \in T, j + 1 <= N PROVE Down(j + 1)
    OBVIOUS
  <2>1. Down(j) /\ j <= N
    BY <1>1
  <2>2. c[j + 1] = CutLine(c[j])
    <3>1. j + 1 \in 0 .. N /\ j + 1 # 0 /\ (j + 1) - 1 = j
      BY <1>1
    <3> QED BY <1>9, <3>1
  <2>3. c[j + 1] \in S /\ Shorter(c[j], c[j + 1])
    BY <1>3, <2>1, <2>2
  <2>4. c[j].rest \in Seq(Words) /\ c[j + 1].rest \in Seq(Words)
    BY <1>6, <2>1, <2>3
  <2>5. CASE c[j].threw \/ c[j].rest = <<>>
    <3>1. c[j + 1] = c[j]
      BY <2>2, <2>5 DEF CutLine
    <3> QED BY <2>3, <2>5, <3>1
  <2>6. CASE ~ (c[j].threw \/ c[j].rest = <<>>)
    BY <1>1, <2>1, <2>3, <2>4, <2>6 DEF Shorter
  <2> QED BY <2>5, <2>6
<1>12. \A j \in Nat : j \in T
  <2> HIDE DEF T
  <2> QED BY <1>10, <1>11, Induction
<1>13. Down(N)
  BY <1>1, <1>12
<1>14. c[N].rest = <<>> \/ c[N].threw
  <2>1. c[N].rest \in Seq(Words)
    BY <1>6, <1>13
  <2> QED BY <1>1, <1>13, <2>1
<1> QED BY <1>4, <1>13, <1>14 DEF S, N

(* The lines that come out still spell the clause.                         *)
LEMMA LinesSpellClause ==
  ASSUME NEW options \in Seq(Lines), GoodLines(options), NEW where_clause \in Seq(Words)
  PROVE  LET added == AddOptionsFromWhereClause(options, where_clause)
         IN /\ added.lines \in Seq(Lines) /\ GoodLines(added.lines) /\ added.threw \in BOOLEAN
            /\ added.threw => \E w \in Range(where_clause) : w.len >= MAX_OPTION_LEN
            /\ ~ added.threw => Clause(added.lines) = Clause(options) \o where_clause
<1> DEFINE added == AddOptionsFromWhereClause(options, where_clause)
<1>1. /\ added \in Cuts(Clause(options) \o where_clause, Range(where_clause))
      /\ added.threw \/ added.rest = <<>>
  BY AddOptionsCuts
<1> HIDE DEF added
<1>2. /\ added.lines \in Seq(Lines) /\ GoodLines(added.lines) /\ added.threw \in BOOLEAN
      /\ Clause(added.lines) \o added.rest = Clause(options) \o where_clause
      /\ added.threw => \E w \in Range(where_clause) : w.len >= MAX_OPTION_LEN
  BY <1>1 DEF Cuts
<1>3. Clause(added.lines) \o <<>> = Clause(added.lines)
  BY <1>2, ClauseTyped, ConcatEmptySeq
<1> QED BY <1>1, <1>2, <1>3 DEF added

-----------------------------------------------------------------------------
(* Pushed filters.                                                         *)
LEMMA Listed ==
  ASSUME NEW S, IsFiniteSet(S)
  PROVE  SetToSeq(S) \in Seq(S) /\ \A i \in DOMAIN SetToSeq(S) : SetToSeq(S)[i] \in S
<1> DEFINE n == Cardinality(S)
           F == {f \in [1 .. n -> S] : IsInjective(f)}
<1>1. n \in Nat /\ ExistsBijection(1 .. n, S)
  BY FS_CardinalityType
<1>2. F # {}
  BY <1>1 DEF ExistsBijection, Bijection, Injection, IsInjective
<1>3. SetToSeq(S) \in [1 .. n -> S]
  BY <1>2 DEF SetToSeq
<1> HIDE DEF n
<1> QED BY <1>1, <1>3

(* What a pushed word admits, and that it opens no alternative.            *)
Pushes(w, field, filter) ==
  /\ w.part # "OR"
  /\ w.part = "literal" =>
       /\ w.field = field
       /\ filter.type # "COMPARE_GREATERTHAN"
       /\ FieldKind[field] = "text" => w.values = filter.values

LEMMA LiteralsPush ==
  ASSUME NEW field \in Fields, NEW filter \in Filters, NEW list \in BOOLEAN,
         filter.type # "COMPARE_GREATERTHAN"
  PROVE  LET words == Literals(field, filter.values, list)
         IN words \in Seq(PushedWords) /\ \A w \in Range(words) : Pushes(w, field, filter)
<1> DEFINE quoted == SetToSeq(filter.values)
           n == Len(quoted)
           values == IF FieldKind[field] = "date" THEN {} ELSE filter.values
           part(i) == IF i = n THEN "literal" ELSE "item"
           size(i) == ValueLength[quoted[i]] + 2
                  + (IF list THEN 1 ELSE 0) + (IF list /\ i = 1 THEN 1 ELSE 0)
           word(i) == [part |-> part(i), field |-> field, values |-> values, len |-> size(i)]
<1>1. filter.values \subseteq Values /\ IsFiniteSet(filter.values)
  BY RequestAssumption
<1>2. quoted \in Seq(filter.values) /\ \A i \in DOMAIN quoted : quoted[i] \in Values
  BY <1>1, Listed
<1> HIDE DEF quoted
<1>3. DOMAIN quoted = 1 .. n /\ n \in Nat
  BY <1>2
<1>4. Literals(field, filter.values, list) = [i \in 1 .. n |-> word(i)]
  BY <1>3 DEF Literals, quoted
<1>5. values \in SUBSET Values
  BY <1>1
<1>6. \A i \in 1 .. n : size(i) \in Nat
  BY <1>2, <1>3, RequestAssumption
<1> HIDE DEF size, values
<1>7. \A i \in 1 .. n : word(i) \in PushedWords
  BY <1>5, <1>6 DEF PushedWords
<1>8. \A i \in 1 .. n : Pushes(word(i), field, filter)
  <2>1. FieldKind[field] = "text" => values = filter.values
    BY DEF values
  <2> QED BY <2>1 DEF Pushes
<1> HIDE DEF word
<1>9. [i \in 1 .. n |-> word(i)] \in Seq(PushedWords)
  BY <1>3, <1>7
<1>10. \A w \in Range([i \in 1 .. n |-> word(i)]) : \E i \in 1 .. n : w = word(i)
  BY DEF Range
<1> QED BY <1>4, <1>8, <1>9, <1>10

LEMMA FilterPushes ==
  ASSUME NEW field \in Fields, NEW filter \in Filters
  PROVE  LET words == TransformFilter(field, filter)
         IN words \in Seq(PushedWords) /\ \A w \in Range(words) : Pushes(w, field, filter)
<1> DEFINE head(operator) ==
             <<Word("column", NameLength[field])>> \o <<operator>>
           Good(words) ==
             words \in Seq(PushedWords) /\ \A w \in Range(words) : Pushes(w, field, filter)
<1>1. ASSUME NEW list \in BOOLEAN, NEW operator \in {Word("=", 1), Word("IN", 2)},
             filter.type # "COMPARE_GREATERTHAN"
      PROVE  Good(head(operator) \o Literals(field, filter.values, list))
  <2> DEFINE column == Word("column", NameLength[field])
             a == <<column>>
             b == <<operator>>
             c == Literals(field, filter.values, list)
  <2>1. Good(c)
    BY <1>1, LiteralsPush
  <2>2. NameLength[field] \in Nat
    BY RequestAssumption
  <2>3. column \in PushedWords /\ operator \in PushedWords
    BY <2>2 DEF Word, PushedWords
  <2>4. Pushes(column, field, filter) /\ Pushes(operator, field, filter)
    BY DEF Word, Pushes
  <2> HIDE DEF column, c
  <2>5. /\ a \in Seq(PushedWords) /\ b \in Seq(PushedWords)
        /\ Range(a) = {column} /\ Range(b) = {operator}
    BY <2>3 DEF Range
  <2> HIDE DEF a, b
  <2>6. a \o b \in Seq(PushedWords) /\ Range(a \o b) = {column, operator}
    BY <2>5, ConcatProperties, RangeConcatenation
  <2> DEFINE d == a \o b
  <2>7. c \in Seq(PushedWords) /\ d \in Seq(PushedWords) /\ Range(d) = {column, operator}
    BY <2>1, <2>6
  <2> HIDE DEF d
  <2>8. d \o c \in Seq(PushedWords) /\ Range(d \o c) = {column, operator} \cup Range(c)
    BY <2>7, ConcatProperties, RangeConcatenation
  <2> QED BY <2>1, <2>4, <2>8 DEF a, b, c, d, column
<1>2. Good(<<>>)
  BY DEF Range
<1>3. CASE filter.type = "COMPARE_EQUAL"
  <2>1. TransformFilter(field, filter) = head(Word("=", 1)) \o Literals(field, filter.values, FALSE)
    BY <1>3 DEF TransformFilter
  <2> HIDE DEF head, Good
  <2>2. Good(TransformFilter(field, filter))
    BY <1>1, <1>3, <2>1
  <2> QED BY <2>2 DEF Good
<1>4. CASE filter.type = "IN_FILTER" /\ Cardinality(filter.values) <= MAX_IN_VALUES
  <2>1. TransformFilter(field, filter) = head(Word("IN", 2)) \o Literals(field, filter.values, TRUE)
    BY <1>4 DEF TransformFilter
  <2> HIDE DEF head, Good
  <2>2. Good(TransformFilter(field, filter))
    BY <1>1, <1>4, <2>1
  <2> QED BY <2>2 DEF Good
<1>5. CASE /\ filter.type # "COMPARE_EQUAL"
           /\ ~ (filter.type = "IN_FILTER" /\ Cardinality(filter.values) <= MAX_IN_VALUES)
  <2>1. TransformFilter(field, filter) = <<>>
    BY <1>5 DEF TransformFilter
  <2> QED BY <1>2, <2>1
<1> QED BY <1>3, <1>4, <1>5

-----------------------------------------------------------------------------
(* The condition of a filter joined to the options by an AND, where one is *)
(* before it.                                                              *)
Narrow(fields, machines, filters, w) ==
  /\ w.part # "OR"
  /\ w.part = "literal" =>
       \E i \in DOMAIN filters : Pushes(w, fields[Min(ProjectedAt(machines, i))], filters[i])

LEMMA AndIsPushed == AndWord \in PushedWords
BY DEF AndWord, Word, PushedWords

LEMMA FiltersJoin ==
  ASSUME NEW machines, NEW n \in Nat, NEW filters \in [1 .. n -> Filters],
         \A i \in 1 .. n : GetProjectedColumnName(machines, i) \in Fields,
         bind_data.options \in Seq(Lines), GoodLines(bind_data.options)
  PROVE  LET added == AddOptionsFromFilters(machines, filters)
             pushed == FlattenSeq([i \in DOMAIN filters |->
                         TransformFilter(GetProjectedColumnName(machines, i), filters[i])])
         IN /\ added.lines \in Seq(Lines) /\ GoodLines(added.lines) /\ added.threw \in BOOLEAN
            /\ pushed \in Seq(PushedWords)
            /\ added.threw => \E w \in Range(pushed) : w.len >= MAX_OPTION_LEN
            /\ ~ added.threw =>
                 \E v \in Seq(PushedWords) :
                   /\ Clause(added.lines) = Clause(bind_data.options) \o v
                   /\ \A w \in Range(v) : Narrow(bind_data.fields, machines, filters, w)
<1> DEFINE name(i) == GetProjectedColumnName(machines, i)
           entry(i) == TransformFilter(name(i), filters[i])
           first(i) == bind_data.options = <<>> /\ \A j \in 1 .. i - 1 : entry(j) = <<>>
           part(i) == IF entry(i) = <<>> \/ first(i) THEN entry(i) ELSE <<AndWord>> \o entry(i)
           entries == [i \in DOMAIN filters |-> entry(i)]
           parts == [i \in DOMAIN filters |-> part(i)]
           added == AddOptionsFromFilters(machines, filters)
<1>1. DOMAIN filters = 1 .. n /\ \A i \in 1 .. n : filters[i] \in Filters
  OBVIOUS
<1>2. \A i \in 1 .. n : /\ entry(i) \in Seq(PushedWords)
                        /\ \A w \in Range(entry(i)) : Pushes(w, name(i), filters[i])
  <2> SUFFICES ASSUME NEW i \in 1 .. n
               PROVE  /\ entry(i) \in Seq(PushedWords)
                      /\ \A w \in Range(entry(i)) : Pushes(w, name(i), filters[i])
    OBVIOUS
  <2>1. name(i) \in Fields /\ filters[i] \in Filters
    BY <1>1
  <2> HIDE DEF name
  <2> QED BY <2>1, FilterPushes
<1>3. added = AddOptionsFromWhereClause(bind_data.options, FlattenSeq(parts))
  BY DEF AddOptionsFromFilters
<1> HIDE DEF entry
<1>4. \A i \in 1 .. n : /\ part(i) \in Seq(PushedWords)
                        /\ \A w \in Range(part(i)) : w \in Range(entry(i)) \/ w = AndWord
  <2> SUFFICES ASSUME NEW i \in 1 .. n
               PROVE  /\ part(i) \in Seq(PushedWords)
                      /\ \A w \in Range(part(i)) : w \in Range(entry(i)) \/ w = AndWord
    OBVIOUS
  <2> DEFINE a == <<AndWord>>
             b == entry(i)
  <2>1. a \in Seq(PushedWords) /\ Range(a) = {AndWord} /\ b \in Seq(PushedWords)
    BY <1>2, AndIsPushed DEF Range
  <2>2. part(i) = b \/ part(i) = a \o b
    OBVIOUS
  <2> HIDE DEF a, b, part
  <2>3. a \o b \in Seq(PushedWords) /\ Range(a \o b) = {AndWord} \cup Range(b)
    BY <2>1, ConcatProperties, RangeConcatenation
  <2> QED BY <2>1, <2>2, <2>3 DEF b
<1> HIDE DEF part
<1>5. /\ entries \in Seq(Seq(PushedWords)) /\ parts \in Seq(Seq(PushedWords))
      /\ DOMAIN entries = 1 .. n /\ DOMAIN parts = 1 .. n
      /\ \A i \in 1 .. n : entries[i] = entry(i) /\ parts[i] = part(i)
  BY <1>1, <1>2, <1>4
<1> HIDE DEF entries, parts
<1> DEFINE pushed == FlattenSeq(entries)
           joined == FlattenSeq(parts)
<1>6. pushed \in Seq(PushedWords) /\ joined \in Seq(PushedWords)
  BY <1>5, FlattenTyped
<1>7. SameElements(entries) /\ SameElements(parts)
  BY <1>5, FlattenElements
<1>8. \A w \in Range(joined) : \E i \in 1 .. n : w \in Range(part(i))
  BY <1>5, <1>7 DEF SameElements
<1>9. \A w : (\E i \in 1 .. n : w \in Range(entry(i))) => w \in Range(pushed)
  BY <1>5, <1>7 DEF SameElements
<1> HIDE DEF pushed, joined
<1>10. \A w \in Range(joined) : w \in Range(pushed) \/ w = AndWord
  BY <1>4, <1>8, <1>9
<1>11. \A w \in Range(joined) : Narrow(bind_data.fields, machines, filters, w)
  <2> SUFFICES ASSUME NEW w \in Range(joined)
               PROVE  Narrow(bind_data.fields, machines, filters, w)
    OBVIOUS
  <2>1. PICK i \in 1 .. n : w \in Range(part(i))
    BY <1>8
  <2>2. w = AndWord \/ Pushes(w, name(i), filters[i])
    BY <1>2, <1>4, <2>1
  <2>3. CASE w = AndWord
    BY <2>3 DEF AndWord, Word, Narrow
  <2>4. CASE Pushes(w, name(i), filters[i])
    <3>1. name(i) = bind_data.fields[Min(ProjectedAt(machines, i))]
      BY DEF GetProjectedColumnName
    <3> HIDE DEF name
    <3>2. w.part # "OR"
      BY <2>4 DEF Pushes
    <3> QED BY <1>1, <2>4, <3>1, <3>2 DEF Narrow
  <2> QED BY <2>2, <2>3, <2>4
<1>12. joined \in Seq(Words)
  BY <1>6 DEF Words
<1>13. /\ added.lines \in Seq(Lines) /\ GoodLines(added.lines) /\ added.threw \in BOOLEAN
       /\ added.threw => \E w \in Range(joined) : w.len >= MAX_OPTION_LEN
       /\ ~ added.threw => Clause(added.lines) = Clause(bind_data.options) \o joined
  BY <1>3, <1>12, LinesSpellClause DEF joined
<1> HIDE DEF added
<1>14. added.threw => \E w \in Range(pushed) : w.len >= MAX_OPTION_LEN
  BY <1>10, <1>13, Limit DEF AndWord, Word
<1>15. FlattenSeq([i \in DOMAIN filters |->
         TransformFilter(GetProjectedColumnName(machines, i), filters[i])]) = pushed
  BY DEF pushed, entries, entry
<1> HIDE DEF name
<1> QED BY <1>6, <1>11, <1>13, <1>14, <1>15 DEF added

-----------------------------------------------------------------------------
(* What a longer clause admits.                                            *)
LEMMA AdmitsLess ==
  ASSUME NEW u \in Seq(Words), NEW v \in Seq(Words), NEW row,
         \A w \in Range(v) : w.part # "OR", Admits(u \o v, row)
  PROVE  Admits(u, row)
<1> DEFINE t == u \o v
           Ors(s) == {i \in DOMAIN s : s[i].part = "OR"}
           Met(s, i) == s[i].part = "literal" => row[s[i].field] \in s[i].values
<1>1. /\ Len(t) = Len(u) + Len(v) /\ Len(u) \in Nat /\ Len(v) \in Nat
      /\ DOMAIN t = 1 .. Len(u) + Len(v) /\ DOMAIN u = 1 .. Len(u)
      /\ \A i \in 1 .. Len(u) : t[i] = u[i]
      /\ \A i \in Len(u) + 1 .. Len(t) : t[i] \in Range(v)
  <2>1. t \in Seq(Words) /\ Len(t) = Len(u) + Len(v)
        /\ \A i \in 1 .. Len(t) : t[i] = IF i <= Len(u) THEN u[i] ELSE v[i - Len(u)]
    BY ConcatProperties
  <2> HIDE DEF t
  <2>2. \A i \in Len(u) + 1 .. Len(t) : i - Len(u) \in DOMAIN v /\ t[i] = v[i - Len(u)]
    BY <2>1
  <2> QED BY <2>1, <2>2 DEF Range
<1>2. t = <<>> \/ \E first \in {0} \cup Ors(t) : \A i \in first + 1 .. Len(t) :
                    Met(t, i) \/ \E o \in Ors(t) : first < o /\ o <= i
  BY DEF Admits
<1> HIDE DEF t
<1>3. Ors(t) = Ors(u)
  BY <1>1
<1>4. CASE t = <<>>
  <2>1. u = <<>>
    BY <1>1, <1>4
  <2> QED BY <2>1 DEF Admits
<1>5. CASE t # <<>>
  <2>1. PICK first \in {0} \cup Ors(t) : \A i \in first + 1 .. Len(t) :
               Met(t, i) \/ \E o \in Ors(t) : first < o /\ o <= i
    BY <1>2, <1>5
  <2>2. first \in {0} \cup Ors(u) /\ first \in Nat
    BY <1>1, <1>3, <2>1
  <2> HIDE DEF Ors
  <2>3. \A i \in first + 1 .. Len(u) : Met(u, i) \/ \E o \in Ors(u) : first < o /\ o <= i
    <3> SUFFICES ASSUME NEW i \in first + 1 .. Len(u)
                 PROVE  Met(u, i) \/ \E o \in Ors(u) : first < o /\ o <= i
      OBVIOUS
    <3>1. i \in first + 1 .. Len(t) /\ t[i] = u[i]
      BY <1>1, <2>2
    <3> QED BY <1>3, <2>1, <3>1
  <2> QED BY <2>2, <2>3 DEF Admits, Ors
<1> QED BY <1>4, <1>5

LEMMA AdmitsMore ==
  ASSUME NEW u \in Seq(Words), NEW v \in Seq(Words), NEW row, Admits(u, row),
         \A w \in Range(v) : w.part = "literal" => row[w.field] \in w.values
  PROVE  Admits(u \o v, row)
<1> DEFINE t == u \o v
           Ors(s) == {i \in DOMAIN s : s[i].part = "OR"}
           Met(s, i) == s[i].part = "literal" => row[s[i].field] \in s[i].values
<1>1. /\ Len(t) = Len(u) + Len(v) /\ Len(u) \in Nat /\ Len(v) \in Nat
      /\ DOMAIN t = 1 .. Len(u) + Len(v) /\ DOMAIN u = 1 .. Len(u)
      /\ \A i \in 1 .. Len(u) : t[i] = u[i]
      /\ \A i \in Len(u) + 1 .. Len(t) : t[i] \in Range(v)
  <2>1. t \in Seq(Words) /\ Len(t) = Len(u) + Len(v)
        /\ \A i \in 1 .. Len(t) : t[i] = IF i <= Len(u) THEN u[i] ELSE v[i - Len(u)]
    BY ConcatProperties
  <2> HIDE DEF t
  <2>2. \A i \in Len(u) + 1 .. Len(t) : i - Len(u) \in DOMAIN v /\ t[i] = v[i - Len(u)]
    BY <2>1
  <2> QED BY <2>1, <2>2 DEF Range
<1>2. u = <<>> \/ \E first \in {0} \cup Ors(u) : \A i \in first + 1 .. Len(u) :
                    Met(u, i) \/ \E o \in Ors(u) : first < o /\ o <= i
  BY DEF Admits
<1> HIDE DEF t
<1>3. Ors(u) \subseteq Ors(t) /\ \A o \in Ors(u) : o \in Nat
  BY <1>1
<1>4. PICK first \in {0} \cup Ors(u) : \A i \in first + 1 .. Len(u) :
               Met(u, i) \/ \E o \in Ors(u) : first < o /\ o <= i
  <2>1. CASE u = <<>>
    <3>1. \A i \in 0 + 1 .. Len(u) : FALSE
      BY <2>1
    <3> QED BY <3>1
  <2> QED BY <1>2, <2>1
<1>5. first \in {0} \cup Ors(t) /\ first \in Nat
  BY <1>3, <1>4
<1> HIDE DEF Ors
<1>6. \A i \in first + 1 .. Len(t) : Met(t, i) \/ \E o \in Ors(t) : first < o /\ o <= i
  <2> SUFFICES ASSUME NEW i \in first + 1 .. Len(t)
               PROVE  Met(t, i) \/ \E o \in Ors(t) : first < o /\ o <= i
    OBVIOUS
  <2>1. CASE i <= Len(u)
    <3>1. i \in first + 1 .. Len(u) /\ t[i] = u[i]
      BY <1>1, <1>5, <2>1
    <3> QED BY <1>3, <1>4, <3>1
  <2>2. CASE i > Len(u)
    <3>1. t[i] \in Range(v)
      BY <1>1, <1>5, <2>2
    <3> QED BY <3>1
  <2> QED BY <1>1, <1>5, <2>1, <2>2
<1>7. Admits(t, row)
  BY <1>5, <1>6 DEF Admits, Ors
<1> QED BY <1>7 DEF t

-----------------------------------------------------------------------------
(* Wherever SAP puts the answer, it is found.                              *)
LEMMA AnswerFound ==
  ASSUME NEW field \in Fields, NEW rows, bind_data.function \in ReadTableFunctions,
         bind_data.path = ResolveReadTableResultPath(bind_data.function)
  PROVE  ResolveResultTable(
           [t \in {"DATA"} \cup Range(TableCandidates) |->
              IF t = AnsweredIn(bind_data.function, field) THEN rows ELSE {}]) = rows
<1> DEFINE function == bind_data.function
           path == bind_data.path
           a == AnsweredIn(function, field)
           all == Range(TableCandidates)
           holds == [t \in {"DATA"} \cup all |-> IF t = a THEN rows ELSE {}]
           tables == ResultTables[function] \cap all
           wide == {t \in ResultTables[function] :
                      t \in all /\ TableWidth[t] >= FieldWidth[field]}
           least == {t \in wide : \A u \in wide : TableWidth[t] <= TableWidth[u]}
           found == {i \in DOMAIN TableCandidates : TableCandidates[i] \in ResultTables[function]}
           probed == {t \in all : t # path /\ holds[t] # {}}
<1>1. /\ "DATA" \notin all /\ \A t \in all : TableWidth[t] \in Nat
      /\ function = "RFC_READ_TABLE" => tables = {}
      /\ tables # {} => \E t \in tables : TableWidth[t] >= FieldWidth[field]
  BY FunctionAssumption
<1>2. a = IF least = {} THEN "DATA" ELSE CHOOSE t \in least : TRUE
  BY DEF AnsweredIn
<1>3. path = IF function = "RFC_READ_TABLE" \/ found = {} THEN "DATA"
             ELSE TableCandidates[Min(found)]
  BY DEF ResolveReadTableResultPath
<1>4. found = {} <=> tables = {}
  BY DEF Range
<1>5. found # {} => TableCandidates[Min(found)] \in all
  <2>1. found \subseteq Nat
    BY FunctionAssumption
  <2>2. \A i \in found : TableCandidates[i] \in all
    BY DEF Range
  <2> HIDE DEF found
  <2> QED BY <2>1, <2>2, MinInSet
<1>6. wide \subseteq tables /\ least \subseteq wide
  OBVIOUS
<1>7. tables # {} => least # {}
  <2> SUFFICES ASSUME tables # {} PROVE least # {}
    OBVIOUS
  <2> DEFINE W == {TableWidth[t] : t \in wide}
  <2>1. wide # {}
    BY <1>1
  <2>2. W \subseteq Nat /\ W # {}
    BY <1>1, <2>1
  <2>3. PICK x \in W : \A y \in W : x <= y
    <3> HIDE DEF W
    <3> QED BY <2>2, LeastNumber
  <2>4. PICK t \in wide : x = TableWidth[t]
    BY <2>3
  <2>5. t \in least
    BY <2>3, <2>4
  <2> QED BY <2>5
<1>8. ResolveResultTable(holds) =
        IF holds[path] # {} \/ probed = {} \/ path = "DATA" THEN holds[path]
        ELSE holds[CHOOSE t \in probed : \A u \in probed : TableWidth[t] <= TableWidth[u]]
  BY DEF ResolveResultTable
<1>9. tables \subseteq all
  OBVIOUS
<1> HIDE DEF a, path, tables, wide, least, found
<1>10. a \in {"DATA"} \cup all /\ path \in {"DATA"} \cup all
  BY <1>2, <1>3, <1>5, <1>6, <1>9
<1>11. /\ holds[path] = (IF path = a THEN rows ELSE {})
       /\ holds[a] = rows
       /\ \A t \in all : t # a => holds[t] = {}
  BY <1>10
<1>12. path = "DATA" => a = "DATA"
  BY <1>1, <1>2, <1>3, <1>4, <1>5, <1>6
<1>13. path # "DATA" => a \in all
  BY <1>2, <1>3, <1>4, <1>6, <1>7, <1>9
<1> HIDE DEF holds
<1>14. CASE path = a
  <2>1. rows = {} => probed = {}
    BY <1>11, <1>14
  <2>2. rows # {} \/ rows = {}
    OBVIOUS
  <2> HIDE DEF probed
  <2>3. ResolveResultTable(holds) = holds[path]
    BY <1>8, <1>11, <1>14, <2>1
  <2> QED BY <1>11, <1>14, <2>3 DEF holds, a, all, function
<1>15. CASE path # a /\ rows = {}
  <2>1. probed = {}
    BY <1>11, <1>15
  <2> HIDE DEF probed
  <2>2. ResolveResultTable(holds) = holds[path]
    BY <1>8, <2>1
  <2> QED BY <1>11, <1>15, <2>2 DEF holds, a, all, function
<1>16. CASE path # a /\ rows # {}
  <2>1. a \in all /\ path # "DATA"
    BY <1>12, <1>13, <1>16
  <2>2. probed = {a}
    BY <1>11, <1>16, <2>1
  <2>3. TableWidth[a] \in Nat
    BY <1>1, <2>1
  <2> HIDE DEF probed
  <2>4. (CHOOSE t \in probed : \A u \in probed : TableWidth[t] <= TableWidth[u]) = a
    BY <2>2, <2>3
  <2>5. ResolveResultTable(holds) = holds[a]
    BY <1>8, <1>11, <1>16, <2>1, <2>2, <2>4
  <2> QED BY <1>11, <2>5 DEF holds, a, all, function
<1> QED BY <1>14, <1>15, <1>16

-----------------------------------------------------------------------------
(* The invariant.                                                          *)
Machines == [active : BOOLEAN, projected : Nat, rowid : BOOLEAN, finished : BOOLEAN]

BindData ==
  [function : ReadTableFunctions \cup {"RFC_READ_TABLE"}, fields : Seq(Fields),
   options : Seq(Lines), where : Seq(Words),
   params : {{}} \cup {ResolveReadTableImportParams(f) : f \in ReadTableFunctions},
   path : {"DATA"} \cup Range(TableCandidates), machines : Seq(Machines)]

(* What binding settles.                                                   *)
Bound(bd) ==
  /\ bd.function \in ReadTableFunctions
  /\ bd.params = ResolveReadTableImportParams(bd.function)
  /\ bd.path = ResolveReadTableResultPath(bd.function)
  /\ Len(bd.machines) = Len(bd.fields)
  /\ GoodLines(bd.options)

(* The options are FILTER and conditions of the plan's filters.            *)
Asked(bd, filters) ==
  \E v \in Seq(Words) :
    /\ Clause(bd.options) = bd.where \o v
    /\ \A w \in Range(v) : Narrow(bd.fields, bd.machines, filters, w)

(* Activating the columns of the plan again projects none of them anew.    *)
Planned(bd, column_ids) ==
  /\ column_ids \in Seq(Nat)
  /\ \A m \in DOMAIN bd.machines :
       Places(column_ids, m) # {} => bd.machines[m].projected = Max(Places(column_ids, m))

(* A column that has been read found what the options admit.               *)
Found(options, columns) ==
  \A m \in DOMAIN columns :
    columns[m] \in {<<>>, <<{r \in Rows : Admits(Clause(options), r)}>>}

Pushed(fields, machines, filters) ==
  FlattenSeq([i \in DOMAIN filters |->
    TransformFilter(fields[Min(ProjectedAt(machines, i))], filters[i])])

Refused(bd, filters) ==
  \E w \in Range(bd.where \o Pushed(bd.fields, bd.machines, filters)) : w.len >= MAX_OPTION_LEN

Inv ==
  /\ bind_data \in BindData
  /\ pc = "bind" => answer = <<>>
  /\ pc \in {"bind", "bound"} => plan = NoPlan
  /\ pc \in {"bound", "reading", "done"} => Bound(bind_data) /\ Asked(bind_data, plan.filters)
  /\ pc \in {"reading", "done"} => Planned(bind_data, plan.column_ids)
  /\ Found(bind_data.options, answer)
  /\ pc = "too_long" => Refused(bind_data, plan.filters)

LEMMA BindParts ==
  \A bd \in BindData :
    /\ bd.fields \in Seq(Fields) /\ bd.options \in Seq(Lines) /\ bd.where \in Seq(Words)
    /\ bd.machines \in Seq(Machines)
BY DEF BindData

(* The names of the filters depend on the fields and where each column is  *)
(* in the projection.                                                      *)
LEMMA SameNames ==
  ASSUME NEW ms, NEW ns, DOMAIN ms = DOMAIN ns,
         \A m \in DOMAIN ms : ms[m].projected = ns[m].projected
  PROVE  /\ \A i : ProjectedAt(ms, i) = ProjectedAt(ns, i)
         /\ \A fields, filters, w :
              Narrow(fields, ms, filters, w) <=> Narrow(fields, ns, filters, w)
<1>1. \A i : ProjectedAt(ms, i) = ProjectedAt(ns, i)
  BY DEF ProjectedAt
<1> SUFFICES ASSUME NEW fields, NEW filters, NEW w
             PROVE  Narrow(fields, ms, filters, w) <=> Narrow(fields, ns, filters, w)
  BY <1>1
<1>2. Narrow(fields, ms, filters, w) = Narrow(fields, ns, filters, w)
  BY <1>1 DEF Narrow
<1> QED BY <1>2

LEMMA PlacesOfColumn ==
  ASSUME NEW column_ids \in Seq(Nat), NEW m, Places(column_ids, m) # {}
  PROVE  Max(Places(column_ids, m)) \in Nat
<1> DEFINE at == Places(column_ids, m)
<1>1. at \subseteq 0 .. Len(column_ids) /\ Len(column_ids) \in Nat
  BY DEF Places
<1> HIDE DEF at
<1>2. at # {}
  BY DEF at
<1>3. Max(at) \in at
  BY <1>1, <1>2, MaxInSet
<1> QED BY <1>1, <1>3 DEF at

LEMMA Activated ==
  ASSUME NEW bd \in BindData, NEW column_ids \in Seq(Nat)
  PROVE  LET ms == ActivateColumns(bd.machines, column_ids)
         IN /\ ms \in Seq(Machines) /\ DOMAIN ms = DOMAIN bd.machines
            /\ Len(ms) = Len(bd.machines)
            /\ \A m \in DOMAIN ms :
                 /\ Places(column_ids, m) # {} => ms[m].projected = Max(Places(column_ids, m))
                 /\ Places(column_ids, m) = {} => ms[m].projected = bd.machines[m].projected
<1> DEFINE old == bd.machines
           new(m) ==
             LET at == Places(column_ids, m)
             IN [old[m] EXCEPT
                   !.active = at # {},
                   !.projected = IF at = {} THEN @ ELSE Max(at),
                   !.rowid = @ \/ \E i \in at : column_ids[i] = 0]
           ms == [m \in DOMAIN old |-> new(m)]
<1>1. old \in Seq(Machines) /\ DOMAIN old = 1 .. Len(old) /\ Len(old) \in Nat
  BY DEF BindData
<1>2. ActivateColumns(bd.machines, column_ids) = ms
  BY DEF ActivateColumns
<1> HIDE DEF old
<1>3. ASSUME NEW m \in 1 .. Len(old)
      PROVE  /\ new(m) \in Machines
             /\ Places(column_ids, m) # {} => new(m).projected = Max(Places(column_ids, m))
             /\ Places(column_ids, m) = {} => new(m).projected = old[m].projected
  <2> DEFINE at == Places(column_ids, m)
             place == IF at = {} THEN old[m].projected ELSE Max(at)
             rowid == old[m].rowid \/ \E i \in at : column_ids[i] = 0
             active == at # {}
  <2>1. old[m] \in Machines
    BY <1>1
  <2>2. place \in Nat
    BY <2>1, PlacesOfColumn DEF Machines
  <2>3. rowid \in BOOLEAN /\ active \in BOOLEAN
    OBVIOUS
  <2>4. new(m) = [old[m] EXCEPT !.active = active, !.projected = place, !.rowid = rowid]
    BY <2>1 DEF Machines
  <2>5. place = IF at = {} THEN old[m].projected ELSE Max(at)
    OBVIOUS
  <2> HIDE DEF at, place, rowid, active, new
  <2>6. new(m) \in Machines /\ new(m).projected = place
    BY <2>1, <2>2, <2>3, <2>4 DEF Machines
  <2> QED BY <2>5, <2>6 DEF at
<1> HIDE DEF new
<1>4. ms \in Seq(Machines) /\ DOMAIN ms = 1 .. Len(old) /\ Len(ms) = Len(old)
  BY <1>1, <1>3
<1>5. \A m \in 1 .. Len(old) : ms[m] = new(m)
  BY <1>1
<1> HIDE DEF ms
<1> QED BY <1>1, <1>2, <1>3, <1>4, <1>5 DEF old

LEMMA InitHolds == Init => Inv
<1> SUFFICES ASSUME Init PROVE Inv
  OBVIOUS
<1>1. <<>> \in Seq(Fields) /\ <<>> \in Seq(Lines) /\ <<>> \in Seq(Words) /\ <<>> \in Seq(Machines)
  OBVIOUS
<1>2. bind_data \in BindData
  BY <1>1 DEF Init, NoBindData, BindData
<1>3. Found(bind_data.options, answer)
  BY DEF Init, Found
<1> QED BY <1>2, <1>3 DEF Init, Inv

LEMMA NothingPushed == \A fields, machines : Pushed(fields, machines, <<>>) = <<>>
<1> SUFFICES ASSUME NEW fields, NEW machines PROVE Pushed(fields, machines, <<>>) = <<>>
  OBVIOUS
<1>1. [i \in DOMAIN <<>> |-> TransformFilter(fields[Min(ProjectedAt(machines, i))], <<>>[i])] = <<>>
  OBVIOUS
<1> QED BY <1>1, FlattenEmpty DEF Pushed

LEMMA BindKeeps ==
  ASSUME Inv, NEW s \in Statements, RfcReadTableBind(s)
  PROVE  Inv'
<1> DEFINE cut == AddOptionsFromWhereClause(<<>>, s.where)
           known == /\ ValidateReadTableFunctionName(s.function)
                    /\ Range(RequestedFields(s.columns)) \subseteq Range(GetTableFieldMetas)
           fields == RequestedFields(s.columns)
           machines == CreateReadColumnStateMachines(fields)
<1>1. s.where \in Seq(Words)
  <2>1. s.where \in Seq(Range(s.where))
    BY RequestAssumption
  <2>2. Range(s.where) \subseteq Words
    BY DEF Words, WhereWords
  <2> QED BY <2>1, <2>2
<1>2. <<>> \in Seq(Lines) /\ GoodLines(<<>>)
  BY DEF GoodLines
<1>3. /\ cut.lines \in Seq(Lines) /\ GoodLines(cut.lines) /\ cut.threw \in BOOLEAN
      /\ cut.threw => \E w \in Range(s.where) : w.len >= MAX_OPTION_LEN
      /\ ~ cut.threw => Clause(cut.lines) = Clause(<<>>) \o s.where
  BY <1>1, <1>2, LinesSpellClause
<1>4. /\ pc = "bind" /\ answer = <<>> /\ plan = NoPlan
      /\ plan' = NoPlan /\ answer' = <<>>
  BY DEF Inv, RfcReadTableBind
<1>5. Found(bind_data'.options, answer')
  BY <1>4 DEF Found
<1>6. CASE ~ cut.threw /\ known
  <2>1. fields \in Seq(Fields)
    <3>1. CASE s.columns = <<>>
      BY <3>1, RequestAssumption DEF RequestedFields
    <3>2. CASE s.columns # <<>>
      <4>1. s.columns \in Seq(Range(s.columns)) /\ Range(s.columns) \subseteq Fields
        BY <1>6, <3>2, RequestAssumption DEF RequestedFields, Fields
      <4> QED BY <3>2, <4>1 DEF RequestedFields
    <3> QED BY <3>1, <3>2
  <2>2. machines \in Seq(Machines) /\ Len(machines) = Len(fields)
    <3>1. NewMachine \in Machines
      BY DEF NewMachine, Machines
    <3>2. DOMAIN fields = 1 .. Len(fields) /\ Len(fields) \in Nat
      BY <2>1
    <3> HIDE DEF fields
    <3> QED BY <3>1, <3>2 DEF CreateReadColumnStateMachines
  <2>3. s.function \in ReadTableFunctions
    BY <1>6 DEF ValidateReadTableFunctionName
  <2>4. pc' = "bound" /\ bind_data' = [InitAndVerifyFields(s) EXCEPT !.where = s.where,
                                                                  !.options = cut.lines]
    BY <1>6 DEF RfcReadTableBind
  <2> DEFINE bd == bind_data'
             params == ResolveReadTableImportParams(s.function)
             path == ResolveReadTableResultPath(s.function)
  <2>5. bd = [function |-> s.function, fields |-> fields, options |-> cut.lines,
              where |-> s.where, params |-> params, path |-> path, machines |-> machines]
    BY <2>4 DEF InitAndVerifyFields, NoBindData
  <2>6. path \in {"DATA"} \cup Range(TableCandidates)
    <3> DEFINE found == {i \in DOMAIN TableCandidates :
                           TableCandidates[i] \in ResultTables[s.function]}
    <3>1. found \subseteq Nat /\ \A i \in found : TableCandidates[i] \in Range(TableCandidates)
      BY FunctionAssumption DEF Range
    <3>2. path = IF s.function = "RFC_READ_TABLE" \/ found = {} THEN "DATA"
                 ELSE TableCandidates[Min(found)]
      BY DEF ResolveReadTableResultPath
    <3> HIDE DEF found, path
    <3> QED BY <3>1, <3>2, MinInSet
  <2> HIDE DEF cut, fields, machines, path, params, bd
  <2>7. bd \in BindData
    <3>1. params \in {{}} \cup {ResolveReadTableImportParams(f) : f \in ReadTableFunctions}
      BY <2>3 DEF params
    <3> QED BY <1>1, <1>3, <2>1, <2>2, <2>3, <2>5, <2>6, <3>1 DEF BindData
  <2>8. Bound(bd)
    BY <1>3, <2>2, <2>3, <2>5 DEF Bound, params, path
  <2>9. Asked(bd, plan'.filters)
    <3>1. Clause(cut.lines) = s.where
      BY <1>1, <1>3, <1>6, ClauseEmpty, ConcatEmptySeq
    <3>2. s.where \o <<>> = s.where
      BY <1>1, ConcatEmptySeq
    <3>3. <<>> \in Seq(Words) /\ \A w \in Range(<<>>) : FALSE
      BY DEF Range
    <3> QED BY <2>5, <3>1, <3>2, <3>3 DEF Asked
  <2> QED BY <1>4, <1>5, <2>4, <2>7, <2>8, <2>9 DEF Inv, bd
<1>7. CASE ~ (~ cut.threw /\ known)
  <2>1. /\ pc' = IF cut.threw THEN "too_long" ELSE "error"
        /\ bind_data' = [NoBindData EXCEPT !.where = s.where]
    BY <1>7 DEF RfcReadTableBind
  <2> DEFINE bd == bind_data'
  <2>2. bd = [NoBindData EXCEPT !.where = s.where]
    BY <2>1
  <2>3. <<>> \in Seq(Fields) /\ <<>> \in Seq(Lines) /\ <<>> \in Seq(Machines)
    OBVIOUS
  <2> HIDE DEF bd
  <2>4. bd \in BindData
    BY <1>1, <2>2, <2>3 DEF BindData, NoBindData
  <2>5. pc' = "too_long" => Refused(bd, plan'.filters)
    <3> SUFFICES ASSUME pc' = "too_long" PROVE Refused(bd, plan'.filters)
      OBVIOUS
    <3>1. cut.threw
      BY <2>1
    <3>2. s.where \o <<>> = s.where
      BY <1>1, ConcatEmptySeq
    <3>3. plan'.filters = <<>> /\ bd.where = s.where
      BY <1>4, <2>2 DEF NoPlan, NoBindData
    <3> QED BY <1>3, <3>1, <3>2, <3>3, NothingPushed DEF Refused
  <2> QED BY <1>4, <1>5, <2>1, <2>4, <2>5 DEF Inv, bd
<1> QED BY <1>6, <1>7

-----------------------------------------------------------------------------
LEMMA ExecuteKeeps ==
  ASSUME Inv, NEW column_ids \in Projections, NEW n \in Nat, NEW filters \in [1 .. n -> Filters],
         RfcReadTableInitGlobalState(column_ids, filters)
  PROVE  Inv'
<1> DEFINE bd == bind_data
           machines == ActivateColumns(bd.machines, column_ids)
           found == \A i \in DOMAIN filters : ProjectedAt(machines, i) # {}
           added == AddOptionsFromFilters(machines, filters)
           given == [column_ids |-> column_ids, filters |-> filters]
<1>1. column_ids \in Seq(Nat) /\ DOMAIN filters = 1 .. n
  BY RequestAssumption
<1>2. /\ pc \in {"bound", "done"} /\ plan \in {NoPlan, given} /\ plan' = given
      /\ answer' = [m \in DOMAIN bd.fields |-> <<>>]
      /\ IF found
         THEN /\ bind_data' = [bd EXCEPT !.machines = machines, !.options = added.lines]
              /\ pc' = IF added.threw THEN "too_long" ELSE "reading"
         ELSE /\ bind_data' = [bd EXCEPT !.machines = machines]
              /\ pc' = "error"
  BY DEF RfcReadTableInitGlobalState
<1>3. /\ bd \in BindData /\ Bound(bd) /\ Asked(bd, plan.filters)
      /\ pc = "bound" => plan = NoPlan
      /\ pc = "done" => Planned(bd, plan.column_ids)
  BY <1>2 DEF Inv
<1>4. /\ bd.fields \in Seq(Fields) /\ bd.options \in Seq(Lines) /\ bd.where \in Seq(Words)
      /\ bd.machines \in Seq(Machines)
  BY <1>3, BindParts
<1>5. /\ machines \in Seq(Machines) /\ DOMAIN machines = DOMAIN bd.machines
      /\ Len(machines) = Len(bd.machines)
      /\ \A m \in DOMAIN machines :
           /\ Places(column_ids, m) # {} => machines[m].projected = Max(Places(column_ids, m))
           /\ Places(column_ids, m) = {} => machines[m].projected = bd.machines[m].projected
  BY <1>1, <1>3, Activated
<1>6. given.column_ids = column_ids /\ given.filters = filters
  OBVIOUS
<1>7. Found(bind_data'.options, answer')
  BY <1>2 DEF Found
<1> HIDE DEF machines, given
<1>8. CASE ~ found
  <2> DEFINE new == bind_data'
  <2>1. pc' = "error" /\ new = [bd EXCEPT !.machines = machines]
    BY <1>2, <1>8
  <2> HIDE DEF new
  <2>2. new \in BindData
    BY <1>3, <1>5, <2>1 DEF BindData
  <2> QED BY <1>7, <2>1, <2>2 DEF Inv, new
<1>9. CASE found
  <2> DEFINE new == bind_data'
             name(i) == GetProjectedColumnName(machines, i)
  <2>1. \A i \in 1 .. n : name(i) \in Fields
    <3> SUFFICES ASSUME NEW i \in 1 .. n PROVE name(i) \in Fields
      OBVIOUS
    <3> DEFINE at == ProjectedAt(machines, i)
    <3>1. at # {} /\ at \subseteq 1 .. Len(bd.fields) /\ Len(bd.fields) \in Nat
      <4>1. DOMAIN machines = 1 .. Len(bd.fields) /\ Len(bd.fields) \in Nat
        BY <1>3, <1>4, <1>5 DEF Bound
      <4>2. at # {}
        BY <1>1, <1>9
      <4>3. at \subseteq DOMAIN machines
        BY DEF ProjectedAt
      <4> HIDE DEF at
      <4> QED BY <4>1, <4>2, <4>3
    <3>2. name(i) = bd.fields[Min(at)]
      BY DEF GetProjectedColumnName
    <3> HIDE DEF at
    <3>3. at \subseteq Nat
      BY <3>1
    <3>4. Min(at) \in at
      BY <3>1, <3>3, MinInSet
    <3>5. Min(at) \in 1 .. Len(bd.fields)
      BY <3>1, <3>4
    <3> QED BY <1>4, <3>2, <3>5
  <2>2. GoodLines(bd.options)
    BY <1>3 DEF Bound
  <2> DEFINE pushed == FlattenSeq([i \in DOMAIN filters |-> TransformFilter(name(i), filters[i])])
  <2>3. /\ added.lines \in Seq(Lines) /\ GoodLines(added.lines) /\ added.threw \in BOOLEAN
        /\ pushed \in Seq(PushedWords)
        /\ added.threw => \E w \in Range(pushed) : w.len >= MAX_OPTION_LEN
        /\ ~ added.threw =>
             \E v \in Seq(PushedWords) :
               /\ Clause(added.lines) = Clause(bd.options) \o v
               /\ \A w \in Range(v) : Narrow(bd.fields, machines, filters, w)
    <3> HIDE DEF added, machines
    <3> QED BY <1>4, <2>1, <2>2, FiltersJoin DEF added
  <2>4. pushed = Pushed(bd.fields, machines, filters)
    BY DEF Pushed, GetProjectedColumnName
  <2> HIDE DEF added, name, pushed
  <2>5. /\ new = [bd EXCEPT !.machines = machines, !.options = added.lines]
        /\ pc' = IF added.threw THEN "too_long" ELSE "reading"
    BY <1>2, <1>9
  <2> HIDE DEF new
  <2>6. /\ new.fields = bd.fields /\ new.options = added.lines /\ new.where = bd.where
        /\ new.params = bd.params /\ new.path = bd.path /\ new.function = bd.function
        /\ new.machines = machines /\ new \in BindData
    BY <1>3, <1>5, <2>3, <2>5 DEF BindData
  <2>7. Bound(new)
    BY <1>3, <1>5, <2>3, <2>6 DEF Bound
  <2>8. Planned(new, column_ids)
    BY <1>1, <1>5, <2>6 DEF Planned
  <2>9. added.threw => Refused(new, filters)
    <3> SUFFICES ASSUME added.threw PROVE Refused(new, filters)
      OBVIOUS
    <3>1. pushed \in Seq(Words) /\ bd.where \in Seq(Words)
      BY <1>4, <2>3 DEF Words
    <3>2. Range(bd.where \o pushed) = Range(bd.where) \cup Range(pushed)
      BY <3>1, RangeConcatenation
    <3>3. \E w \in Range(bd.where \o pushed) : w.len >= MAX_OPTION_LEN
      BY <2>3, <3>2
    <3> QED BY <2>4, <2>6, <3>3 DEF Refused
  <2>10. \A w : Narrow(bd.fields, bd.machines, plan.filters, w)
                => Narrow(bd.fields, machines, filters, w)
    <3>1. CASE plan = NoPlan
      BY <3>1 DEF NoPlan, Narrow
    <3>2. CASE plan = given /\ plan # NoPlan
      <4>1. Planned(bd, column_ids) /\ plan.filters = filters
        BY <1>2, <1>3, <1>6, <3>2
      <4>2. \A m \in DOMAIN bd.machines : bd.machines[m].projected = machines[m].projected
        BY <1>5, <4>1 DEF Planned
      <4>3. \A w : Narrow(bd.fields, bd.machines, filters, w)
                   <=> Narrow(bd.fields, machines, filters, w)
        BY <1>5, <4>2, SameNames
      <4> QED BY <4>1, <4>3
    <3> QED BY <1>2, <3>1, <3>2
  <2>11. ~ added.threw => Asked(new, filters)
    <3> SUFFICES ASSUME ~ added.threw PROVE Asked(new, filters)
      OBVIOUS
    <3>1. PICK u \in Seq(Words) :
                 /\ Clause(bd.options) = bd.where \o u
                 /\ \A w \in Range(u) : Narrow(bd.fields, bd.machines, plan.filters, w)
      BY <1>3 DEF Asked
    <3>2. PICK v \in Seq(PushedWords) :
                 /\ Clause(added.lines) = Clause(bd.options) \o v
                 /\ \A w \in Range(v) : Narrow(bd.fields, machines, filters, w)
      BY <2>3
    <3> DEFINE where == bd.where
    <3>3. where \in Seq(Words) /\ v \in Seq(Words)
      BY <1>4 DEF Words
    <3> HIDE DEF where
    <3>4. (where \o u) \o v = where \o (u \o v)
      BY <3>3, ConcatAssociative
    <3>5. u \o v \in Seq(Words) /\ Range(u \o v) = Range(u) \cup Range(v)
      BY <3>3, ConcatProperties, RangeConcatenation
    <3>6. Clause(new.options) = where \o (u \o v)
      BY <2>6, <3>1, <3>2, <3>4 DEF where
    <3> DEFINE x == u \o v
    <3>7. /\ x \in Seq(Words) /\ Clause(new.options) = new.where \o x
          /\ \A w \in Range(x) : Narrow(new.fields, new.machines, filters, w)
      BY <2>6, <2>10, <3>1, <3>2, <3>5, <3>6 DEF where
    <3> HIDE DEF x
    <3> QED BY <3>7 DEF Asked
  <2>12. added.threw \in BOOLEAN
    BY <2>3
  <2>13. plan'.filters = filters /\ plan'.column_ids = column_ids
    BY <1>2, <1>6
  <2> QED BY <1>7, <2>5, <2>6, <2>7, <2>8, <2>9, <2>11, <2>12, <2>13 DEF Inv, new
<1> QED BY <1>8, <1>9

LEMMA ReadKeeps ==
  ASSUME Inv, NEW m \in DOMAIN bind_data.machines, ReadColumn(m)
  PROVE  Inv'
<1> DEFINE bd == bind_data
           new == bind_data'
           field == bd.fields[m]
           rows == {r \in Rows : Admits(Clause(bd.options), r)}
<1>1. /\ pc = "reading" /\ pc' = pc /\ plan' = plan
      /\ new = [bd EXCEPT !.machines[m].finished = TRUE]
  BY DEF ReadColumn
<1>2. /\ bd \in BindData /\ Bound(bd) /\ Asked(bd, plan.filters)
      /\ Planned(bd, plan.column_ids) /\ Found(bd.options, answer)
  BY <1>1 DEF Inv
<1>3. /\ bd.fields \in Seq(Fields) /\ bd.machines \in Seq(Machines)
  BY <1>2, BindParts
<1>4. field \in Fields
  BY <1>2, <1>3 DEF Bound
<1>5. answer' = [answer EXCEPT ![m] = <<rows>>]
  <2> DEFINE holds(all) == [t \in {"DATA"} \cup Range(TableCandidates) |->
                              IF t = AnsweredIn(bd.function, field) THEN all ELSE {}]
  <2>1. "OPTIONS" \in bd.params
    BY <1>2, FunctionAssumption DEF Bound, ResolveReadTableImportParams
  <2>2. CreateFunctionArguments(m) = [field |-> field, options |-> bd.options]
    BY <2>1 DEF CreateFunctionArguments
  <2>3. answer' = [answer EXCEPT ![m] = <<ResolveResultTable(holds(rows))>>]
    BY <2>2 DEF ReadColumn
  <2>4. ResolveResultTable(holds(rows)) = rows
    <3> HIDE DEF rows, field
    <3> QED BY <1>2, <1>4, AnswerFound DEF Bound
  <2> QED BY <2>3, <2>4
<1> DEFINE ms == [bd.machines EXCEPT ![m] = [bd.machines[m] EXCEPT !.finished = TRUE]]
<1>6. ms \in Seq(Machines) /\ Len(ms) = Len(bd.machines) /\ DOMAIN ms = DOMAIN bd.machines
  <2> DEFINE old == bd.machines
             cell == [old[m] EXCEPT !.finished = TRUE]
  <2>1. old \in Seq(Machines) /\ m \in 1 .. Len(old) /\ m \in DOMAIN old
    BY <1>3
  <2>2. cell \in Machines
    <3> HIDE DEF old
    <3>1. old[m] \in Machines
      BY <2>1
    <3> QED BY <3>1 DEF Machines
  <2>3. ms = [old EXCEPT ![m] = cell]
    OBVIOUS
  <2> HIDE DEF old, cell, ms
  <2>4. ms \in Seq(Machines) /\ Len(ms) = Len(old)
    BY <2>1, <2>2, <2>3, ExceptSeq
  <2>5. DOMAIN ms = DOMAIN old
    BY <2>3
  <2> QED BY <2>4, <2>5 DEF old
<1>7. \A k \in DOMAIN ms : ms[k].projected = bd.machines[k].projected
  <2>1. [bd.machines[m] EXCEPT !.finished = TRUE].projected = bd.machines[m].projected
    BY <1>3 DEF Machines
  <2> QED BY <1>3, <2>1
<1>8. new = [bd EXCEPT !.machines = ms]
  BY <1>1, <1>2 DEF BindData
<1> HIDE DEF ms, new, rows
<1>9. /\ new.fields = bd.fields /\ new.options = bd.options /\ new.where = bd.where
      /\ new.params = bd.params /\ new.path = bd.path /\ new.function = bd.function
      /\ new.machines = ms /\ new \in BindData
  BY <1>2, <1>6, <1>8 DEF BindData
<1>10. Bound(new)
  BY <1>2, <1>6, <1>9 DEF Bound
<1>11. Asked(new, plan.filters)
  <2>1. \A w : Narrow(bd.fields, ms, plan.filters, w)
               <=> Narrow(bd.fields, bd.machines, plan.filters, w)
    BY <1>6, <1>7, SameNames
  <2> QED BY <1>2, <1>9, <2>1 DEF Asked
<1>12. Planned(new, plan.column_ids)
  BY <1>2, <1>6, <1>7, <1>9 DEF Planned
<1>13. Found(new.options, answer')
  <2>1. \A k \in DOMAIN answer' : k \in DOMAIN answer /\ answer'[k] \in {answer[k], <<rows>>}
    BY <1>5
  <2> QED BY <1>2, <1>9, <2>1 DEF Found, rows
<1> QED BY <1>1, <1>9, <1>10, <1>11, <1>12, <1>13 DEF Inv, new

LEMMA InvHolds == Spec => []Inv
<1>1. Init => Inv
  BY InitHolds
<1>2. Inv /\ [Next]_vars => Inv'
  <2> SUFFICES ASSUME Inv, [Next]_vars PROVE Inv'
    OBVIOUS
  <2>1. ASSUME NEW s \in Statements, RfcReadTableBind(s) PROVE Inv'
    BY <2>1, BindKeeps
  <2>2. ASSUME NEW column_ids \in Projections,
               NEW filters \in UNION {[1 .. n -> Filters] : n \in 0 .. 2},
               RfcReadTableInitGlobalState(column_ids, filters)
        PROVE  Inv'
    <3>1. PICK n \in 0 .. 2 : filters \in [1 .. n -> Filters]
      OBVIOUS
    <3> QED BY <2>2, <3>1, ExecuteKeeps
  <2>3. ASSUME NEW m \in DOMAIN bind_data.machines, ReadColumn(m) PROVE Inv'
    BY <2>3, ReadKeeps
  <2>4. CASE Finish
    BY <2>4 DEF Finish, Inv
  <2>5. CASE UNCHANGED vars
    BY <2>5 DEF vars, Inv
  <2> QED BY <2>1, <2>2, <2>3, <2>4, <2>5 DEF Next
<1> QED BY <1>1, <1>2, PTL DEF Spec

-----------------------------------------------------------------------------
(* The columns of a scan that have been read found the same rows, in       *)
(* whichever result table the width of each made SAP answer, for every     *)
(* read function whose widest table takes every field, and after any       *)
(* number of executions.  [ResolveResultTable,                             *)
(* ResolveReadTableResultPath, RfcReadTableInitGlobalState]                *)
THEOREM ColumnsAgree == Spec => []ColumnsFindTheSameRows
<1>1. Inv => ColumnsFindTheSameRows
  BY DEF Inv, Found, ColumnsFindTheSameRows
<1> QED BY <1>1, InvHolds, PTL

(* Lines of any clause, of words of any length, fit an option, keep the    *)
(* blank between words and spell FILTER first, whatever is pushed behind   *)
(* it and however often.  [AddOptionsFromWhereClause,                      *)
(* AddOptionsFromFilters]                                                  *)
THEOREM LinesSpellFilter == Spec => []LinesHoldTheClause
<1>1. ASSUME Inv PROVE LinesHoldTheClause
  <2> SUFFICES ASSUME pc \in {"bound", "reading", "done"}
               PROVE  /\ GoodLines(bind_data.options)
                      /\ IsPrefix(bind_data.where, Clause(bind_data.options))
    BY DEF LinesHoldTheClause, GoodLines
  <2>1. bind_data \in BindData /\ Bound(bind_data) /\ Asked(bind_data, plan.filters)
    BY <1>1 DEF Inv
  <2> DEFINE where == bind_data.where
             asked == Clause(bind_data.options)
  <2>2. where \in Seq(Words)
    BY <2>1, BindParts
  <2>3. PICK v \in Seq(Words) : asked = where \o v
    BY <2>1 DEF Asked
  <2> HIDE DEF where, asked
  <2>4. /\ asked \in Seq(Words) /\ Len(asked) = Len(where) + Len(v)
        /\ \A i \in 1 .. Len(where) + Len(v) :
             asked[i] = IF i <= Len(where) THEN where[i] ELSE v[i - Len(where)]
    BY <2>2, <2>3, ConcatProperties
  <2>5. IsPrefix(where, asked)
    <3> DEFINE a == SubSeq(where, 1, Len(where))
               b == SubSeq(asked, 1, Len(where))
    <3>1. Len(where) \in Nat /\ Len(v) \in Nat /\ Len(where) <= Len(asked)
      BY <2>2, <2>4
    <3>2. /\ a \in Seq(Words) /\ Len(a) = Len(where)
          /\ \A i \in 1 .. Len(where) : a[i] = where[i]
      BY <2>2, <3>1
    <3>3. /\ b \in Seq(Words) /\ Len(b) = Len(where)
          /\ \A i \in 1 .. Len(where) : b[i] = asked[i]
      BY <2>4, <3>1
    <3>4. \A i \in 1 .. Len(where) : asked[i] = where[i]
      BY <2>4, <3>1
    <3> HIDE DEF a, b
    <3>5. a = b
      BY <3>2, <3>3, <3>4, SeqEqual
    <3> QED BY <3>1, <3>5 DEF IsPrefix, a, b
  <2> QED BY <2>1, <2>5 DEF Bound, where, asked
<1> QED BY <1>1, InvHolds, PTL

(* A statement or an execution is refused as too long only when FILTER or  *)
(* a pushed filter has a word that leaves no room for its blank on a line. *)
(* [AddOptionsFromWhereClause, AddOptionsFromFilters]                      *)
THEOREM RefusedForLongWords == Spec => []RefusedOnlyForLongWords
<1>1. ASSUME Inv PROVE RefusedOnlyForLongWords
  <2> SUFFICES ASSUME pc = "too_long"
               PROVE  \E w \in Range(bind_data.where \o
                           FlattenSeq([i \in DOMAIN plan.filters |->
                             TransformFilter(GetProjectedColumnName(bind_data.machines, i),
                                             plan.filters[i])])) : w.len >= MAX_OPTION_LEN
    BY DEF RefusedOnlyForLongWords
  <2> QED BY <1>1 DEF Inv, Refused, Pushed, GetProjectedColumnName
<1> QED BY <1>1, InvHolds, PTL

(* What SAP is asked lies between what the query keeps and what FILTER     *)
(* keeps, for every table, FILTER, projection and pushed filters on text   *)
(* columns: an OR of FILTER, a filter that cannot be pushed and a second   *)
(* execution of the plan included.  [AddOptionsFromFilters,                *)
(* TransformFilter, ActivateColumns]                                       *)
THEOREM AskedBetween == Spec => []AskedRowsMatch
<1>1. ASSUME Inv PROVE AskedRowsMatch
  <2> DEFINE asked == Clause(bind_data.options)
             where == bind_data.where
             filters == plan.filters
             name(i) == GetProjectedColumnName(bind_data.machines, i)
  <2> SUFFICES ASSUME pc \in {"reading", "done"}, \A i \in DOMAIN filters : OnText(i),
                      NEW r \in Rows
               PROVE  /\ Admits(where, r) /\ (\A i \in DOMAIN filters : Passes(r, i))
                           => Admits(asked, r)
                      /\ Admits(asked, r) => Admits(where, r)
    BY DEF AskedRowsMatch
  <2>1. bind_data \in BindData /\ Asked(bind_data, filters)
    BY <1>1 DEF Inv
  <2>2. where \in Seq(Words)
    BY <2>1, BindParts
  <2>3. PICK v \in Seq(Words) :
               /\ asked = where \o v
               /\ \A w \in Range(v) : Narrow(bind_data.fields, bind_data.machines, filters, w)
    BY <2>1 DEF Asked
  <2>4. \A i : name(i) = bind_data.fields[Min(ProjectedAt(bind_data.machines, i))]
    BY DEF GetProjectedColumnName
  <2>5. \A w \in Range(v) :
          /\ w.part # "OR"
          /\ w.part = "literal" => \E i \in DOMAIN filters : Pushes(w, name(i), filters[i])
    <3> HIDE DEF name
    <3> QED BY <2>3, <2>4 DEF Narrow
  <2> HIDE DEF where, asked
  <2>6. Admits(asked, r) => Admits(where, r)
    BY <2>2, <2>3, <2>5, AdmitsLess
  <2>7. ASSUME Admits(where, r), \A i \in DOMAIN filters : Passes(r, i)
        PROVE  Admits(asked, r)
    <3>1. ASSUME NEW w \in Range(v), w.part = "literal"
          PROVE  r[w.field] \in w.values
      <4>1. PICK i \in DOMAIN filters : Pushes(w, name(i), filters[i])
        BY <2>5, <3>1
      <4>2. FieldKind[name(i)] = "text"
        BY DEF OnText
      <4>3. /\ w.field = name(i) /\ filters[i].type # "COMPARE_GREATERTHAN"
            /\ w.values = filters[i].values
        BY <3>1, <4>1, <4>2 DEF Pushes
      <4>4. r[name(i)] \in filters[i].values
        BY <2>7, <4>3 DEF Passes
      <4> QED BY <4>3, <4>4
    <3> QED BY <2>2, <2>3, <2>7, <3>1, AdmitsMore
  <2> QED BY <2>6, <2>7
<1> QED BY <1>1, InvHolds, PTL
=============================================================================
