----------------------------- MODULE TextProofs -----------------------------
(***************************************************************************)
(* Proofs about DocumentSync, for texts and edits of any size: that a      *)
(* position the server sends is one it accepts and means the same place,   *)
(* that the incremental parser is told where a replacement ends, and that  *)
(* the server has the editor's text once it has handled everything.        *)
(***************************************************************************)
EXTENDS DocumentSync, FiniteSetTheorems, SequenceTheorems, WellFoundedInduction, TLAPS

-----------------------------------------------------------------------------
(* Counting.                                                               *)

\* Of some numbers there is a least.
LEMMA Least ==
  ASSUME NEW S \in SUBSET Nat, S # {}
  PROVE  \E m \in S : \A k \in S : m <= k
<1> DEFINE R == OpToRel(<, Nat)
<1>1. IsWellFoundedOn(R, Nat)
  BY NatLessThanWellFounded
<1>2. \A x, y \in Nat : x < y => <<x, y>> \in R
  BY DEF OpToRel
<1> HIDE DEF R
<1>3. PICK m \in S : \A k \in S : ~ (<<k, m>> \in R)
  BY <1>1, WFMin
<1>4. ASSUME NEW k \in S
      PROVE  m <= k
  <2>1. k \in Nat /\ m \in Nat
    OBVIOUS
  <2>2. ~(k < m)
    BY <1>2, <1>3, <2>1
  <2>3. QED
    BY <2>1, <2>2
<1>5. QED
  BY <1>4

\* What holds of the first number and of the next one after each holds of all.
LEMMA Counting ==
  ASSUME NEW first \in Nat, NEW last \in Nat, NEW S,
         first \in S, \A i \in first..(last - 1) : i \in S => i + 1 \in S
  PROVE  \A i \in first..last : i \in S
<1> SUFFICES ASSUME NEW i \in first..last, i \notin S
             PROVE  FALSE
  OBVIOUS
<1> DEFINE Others == {j \in first..last : j \notin S}
<1>1. Others \in SUBSET Nat /\ i \in Others
  OBVIOUS
<1>2. PICK m \in Others : \A k \in Others : m <= k
  BY <1>1, Least
<1>3. m \in Nat /\ m # first /\ first <= m /\ m <= last /\ m \notin S
  BY <1>1, <1>2
<1>4. m - 1 \in first..(last - 1) /\ (m - 1) + 1 = m
  BY <1>3
<1>5. m - 1 \notin Others
  BY <1>2, <1>3
<1>6. m - 1 \in S
  BY <1>4, <1>5
<1>7. QED
  BY <1>3, <1>4, <1>6

-----------------------------------------------------------------------------
(* Sizes of sources.                                                       *)

Weights == [Characters -> Nat]

\* The sizes of the first n characters, of the first n - 1, ...
Sums(weight, source, sum, n) ==
  sum = [i \in 0..n |-> IF i = 0 THEN 0 ELSE sum[i - 1] + weight[source[i]]]

\* The recursive function of Total is defined, however long the source.
LEMMA SumsExist ==
  ASSUME NEW weight, NEW source, NEW last \in Nat
  PROVE  \E sum : Sums(weight, source, sum, last)
<1> DEFINE S == {n \in Nat : \E sum : Sums(weight, source, sum, n)}
<1>1. 0 \in S
  <2>1. Sums(weight, source, [i \in 0..0 |-> 0], 0)
    BY DEF Sums
  <2>2. QED
    BY <2>1
<1>2. ASSUME NEW n \in 0..(last - 1), n \in S
      PROVE  n + 1 \in S
  <2>1. PICK f : Sums(weight, source, f, n)
    BY <1>2
  <2> DEFINE g == [i \in 0..(n + 1) |->
                     IF i = n + 1 THEN f[n] + weight[source[n + 1]] ELSE f[i]]
  <2>2. n \in Nat
    OBVIOUS
  <2>3. \A i \in 0..n : g[i] = f[i]
    BY <2>2
  <2>4. \A i \in 0..n : f[i] = IF i = 0 THEN 0 ELSE f[i - 1] + weight[source[i]]
    BY <2>1 DEF Sums
  <2>5. \A i \in 0..(n + 1) : g[i] = IF i = 0 THEN 0 ELSE g[i - 1] + weight[source[i]]
    <3> TAKE i \in 0..(n + 1)
    <3>1. CASE i = n + 1
      <4>1. g[i] = f[n] + weight[source[n + 1]]
        BY <3>1, <2>2
      <4>2. g[n] = f[n] /\ i - 1 = n /\ i # 0
        BY <2>2, <2>3, <3>1
      <4>3. QED
        BY <3>1, <4>1, <4>2
    <3>2. CASE i # n + 1
      <4>1. i \in 0..n
        BY <2>2, <3>2
      <4>2. CASE i = 0
        BY <2>3, <2>4, <4>1, <4>2
      <4>3. CASE i # 0
        <5>1. i - 1 \in 0..n
          BY <2>2, <4>1, <4>3
        <5>2. QED
          BY <2>3, <2>4, <4>1, <4>3, <5>1
      <4>4. QED
        BY <4>2, <4>3
    <3>3. QED
      BY <3>1, <3>2
  <2>6. g = [i \in 0..(n + 1) |-> IF i = 0 THEN 0 ELSE g[i - 1] + weight[source[i]]]
    BY <2>5
  <2>7. Sums(weight, source, g, n + 1)
    BY <2>6 DEF Sums
  <2>8. QED
    BY <2>2, <2>7
<1> HIDE DEF S
<1>3. last \in S
  BY <1>1, <1>2, Counting
<1>4. QED
  BY <1>3 DEF S

\* What two sources begin with alike has one size.
LEMMA SumsAgree ==
  ASSUME NEW weight, NEW s, NEW t, NEW f, NEW g, NEW m \in Nat, NEW n \in Nat,
         Sums(weight, s, f, m), Sums(weight, t, g, n),
         NEW k \in Nat, k <= m, k <= n, \A i \in 1..k : s[i] = t[i]
  PROVE  f[k] = g[k]
<1> DEFINE S == {i \in 0..k : f[i] = g[i]}
<1>1. \A i \in 0..k : /\ f[i] = IF i = 0 THEN 0 ELSE f[i - 1] + weight[s[i]]
                      /\ g[i] = IF i = 0 THEN 0 ELSE g[i - 1] + weight[t[i]]
  BY DEF Sums
<1>2. 0 \in S
  BY <1>1
<1>3. ASSUME NEW i \in 0..(k - 1), i \in S
      PROVE  i + 1 \in S
  <2>1. i + 1 \in 0..k /\ i + 1 \in 1..k /\ i + 1 # 0 /\ (i + 1) - 1 = i
    OBVIOUS
  <2>2. f[i + 1] = f[i] + weight[s[i + 1]] /\ g[i + 1] = g[i] + weight[t[i + 1]]
    BY <1>1, <2>1
  <2>3. QED
    BY <1>3, <2>1, <2>2
<1> HIDE DEF S
<1>4. \A i \in 0..k : i \in S
  BY ONLY k \in Nat, <1>2, <1>3, Counting
<1>5. QED
  BY <1>4 DEF S

\* What the recursive function of Total adds up.
LEMMA TotalIs ==
  ASSUME NEW weight, NEW source, Len(source) \in Nat
  PROVE  \E sum : /\ Sums(weight, source, sum, Len(source))
                  /\ Total(weight, source) = sum[Len(source)]
<1> DEFINE n == Len(source)
<1> DEFINE All == CHOOSE sum :
      sum = [i \in 0..n |-> IF i = 0 THEN 0 ELSE sum[i - 1] + weight[source[i]]]
<1>1. \E sum : Sums(weight, source, sum, n)
  BY SumsExist
<1>2. Sums(weight, source, All, n)
  BY <1>1, Zenon DEF Sums
<1>3. Total(weight, source) = All[n]
  BY Zenon DEF Total
<1>4. QED
  BY <1>2, <1>3

\* A longer piece makes the whole longer.
LEMMA OneMore ==
  ASSUME NEW S, NEW a \in Seq(S), NEW v \in Seq(S), NEW c \in S
  PROVE  a \o Append(v, c) = Append(a \o v, c)
<1> DEFINE one == <<c>>
<1>1. one \in Seq(S) /\ a \o v \in Seq(S)
  BY ConcatProperties
<1>2. Append(v, c) = v \o one /\ Append(a \o v, c) = (a \o v) \o one
  BY <1>1, AppendIsConcat
<1> HIDE DEF one
<1>3. (a \o v) \o one = a \o (v \o one)
  BY <1>1, ConcatAssociative
<1>4. QED
  BY <1>2, <1>3

\* Sizes add up, and a source has one.
LEMMA TotalOfEmpty ==
  ASSUME NEW weight
  PROVE  Total(weight, <<>>) = 0
<1>1. PICK sum : Sums(weight, <<>>, sum, 0) /\ Total(weight, <<>>) = sum[0]
  BY TotalIs
<1>2. sum[0] = 0
  BY <1>1 DEF Sums
<1>3. QED
  BY <1>1, <1>2

\* A character more adds its weight.
LEMMA TotalOfAppend ==
  ASSUME NEW weight, NEW source \in Seq(Characters), NEW c \in Characters
  PROVE  Total(weight, Append(source, c)) = Total(weight, source) + weight[c]
<1> DEFINE n == Len(source)
<1> DEFINE longer == Append(source, c)
<1>1. n \in Nat /\ Len(longer) = n + 1 /\ longer[n + 1] = c
      /\ \A i \in 1..n : longer[i] = source[i]
  BY AppendProperties, LenProperties
<1> HIDE DEF n, longer
<1>2. PICK f : Sums(weight, source, f, n) /\ Total(weight, source) = f[n]
  BY <1>1, TotalIs DEF n
<1>3. PICK g : Sums(weight, longer, g, n + 1) /\ Total(weight, longer) = g[n + 1]
  BY <1>1, TotalIs
<1>4. f[n] = g[n]
  <2>1. n <= n /\ n <= n + 1 /\ n + 1 \in Nat /\ \A i \in 1..n : source[i] = longer[i]
    BY <1>1
  <2>2. QED
    BY <1>1, <1>2, <1>3, <2>1, SumsAgree
<1>5. g[n + 1] = g[n] + weight[longer[n + 1]]
  <2>1. n + 1 \in 0..(n + 1) /\ n + 1 # 0 /\ (n + 1) - 1 = n
    BY <1>1
  <2>2. QED
    BY <1>3, <2>1 DEF Sums
<1>6. QED
  BY <1>1, <1>2, <1>3, <1>4, <1>5 DEF longer

\* The weights of two texts add up.
LEMMA TotalOfConcat ==
  ASSUME NEW weight \in Weights, NEW s \in Seq(Characters), NEW t \in Seq(Characters)
  PROVE  /\ Total(weight, s) \in Nat /\ Total(weight, t) \in Nat
         /\ Total(weight, s \o t) = Total(weight, s) + Total(weight, t)
<1> DEFINE Is(a, b) == /\ Total(weight, b) \in Nat
                       /\ Total(weight, a) \in Nat =>
                            Total(weight, a \o b) = Total(weight, a) + Total(weight, b)
<1>1. ASSUME NEW a \in Seq(Characters), NEW b \in Seq(Characters)
      PROVE  Is(a, b)
  <2> DEFINE S == {n \in Nat : \A u \in Seq(Characters) : Len(u) = n => Is(a, u)}
  <2>1. 0 \in S
    <3>1. ASSUME NEW u \in Seq(Characters), Len(u) = 0
          PROVE  Is(a, u)
      <4>1. u = <<>> /\ a \o u = a
        BY <3>1, EmptySeq, ConcatEmptySeq
      <4>2. QED
        BY <4>1, TotalOfEmpty
    <3>2. QED
      BY <3>1
  <2>2. ASSUME NEW n \in 0..(Len(b) - 1), n \in S
        PROVE  n + 1 \in S
    <3>1. ASSUME NEW u \in Seq(Characters), Len(u) = n + 1
          PROVE  Is(a, u)
      <4>1. PICK v \in Seq(Characters), c \in Characters : u = Append(v, c)
        <5>1. u # <<>>
          BY <3>1, EmptySeq
        <5>2. QED
          BY <5>1, SequenceEmptyOrAppend
      <4>2. Len(v) = n
        BY <3>1, <4>1, AppendProperties, LenProperties
      <4>3. Is(a, v)
        BY <2>2, <4>2
      <4>4. a \o u = Append(a \o v, c) /\ a \o v \in Seq(Characters)
        <5>1. a \o Append(v, c) = Append(a \o v, c)
          BY ONLY a \in Seq(Characters), v \in Seq(Characters), c \in Characters, OneMore
        <5>2. QED
          BY <4>1, <5>1, ConcatProperties
      <4>5. /\ Total(weight, u) = Total(weight, v) + weight[c]
            /\ Total(weight, a \o u) = Total(weight, a \o v) + weight[c]
        BY <4>1, <4>4, TotalOfAppend
      <4>6. weight[c] \in Nat
        BY <4>1 DEF Weights
      <4> HIDE DEF S
      <4>7. QED
        BY <4>3, <4>5, <4>6, SMTT(30)
    <3>2. QED
      BY <3>1
  <2> HIDE DEF S
  <2>3. Len(b) \in Nat
    BY LenProperties
  <2>4. \A n \in 0..Len(b) : n \in S
    BY ONLY <2>1, <2>2, <2>3, Counting
  <2>5. QED
    BY <2>3, <2>4, SMTT(30) DEF S
<1>2. Is(s, s) /\ Is(s, t)
  BY <1>1
<1>3. QED
  BY <1>2

\* Every character counts: what is longer is more units.
LEMMA WeightsAre == Size \in Weights /\ Width \in Weights
BY DEF Size, Width, Weights, Characters

\* Of what is part of a source.
LEMMA PartIs ==
  ASSUME NEW source \in Seq(Characters), NEW first \in Nat \ {0},
         NEW last \in 0..Len(source)
  PROVE  /\ SubSeq(source, first, last) \in Seq(Characters)
         /\ Len(SubSeq(source, first, last)) = IF first <= last THEN last - first + 1 ELSE 0
         /\ \A i \in 1..(last - first + 1) :
              SubSeq(source, first, last)[i] = source[first + i - 1]
<1>1. Len(source) \in Nat /\ first \in Int /\ last \in Int
  BY LenProperties
<1>2. \A i \in first..last : source[i] \in Characters
  BY <1>1, ElementOfSeq
<1>3. QED
  BY <1>1, <1>2, SubSeqProperties

\* The bytes and units of a part are numbers.
LEMMA SizesAre ==
  ASSUME NEW source \in Seq(Characters), NEW first \in Nat \ {0},
         NEW last \in 0..Len(source)
  PROVE  /\ Units(SubSeq(source, first, last)) \in Nat
         /\ Bytes(SubSeq(source, first, last)) \in Nat
<1>1. SubSeq(source, first, last) \in Seq(Characters)
  BY PartIs
<1>2. QED
  BY <1>1, WeightsAre, TotalOfConcat DEF Units, Bytes

\* A longer part of a line has more units.
LEMMA UnitsGrow ==
  ASSUME NEW source \in Seq(Characters), NEW start \in Nat,
         NEW a \in start..Len(source), NEW b \in start..Len(source), a < b
  PROVE  Units(SubSeq(source, start + 1, a)) < Units(SubSeq(source, start + 1, b))
<1> DEFINE short == SubSeq(source, start + 1, a)
           rest == SubSeq(source, a + 1, b)
           most == SubSeq(source, a + 1, b - 1)
<1>1. /\ Len(source) \in Nat /\ a \in Nat /\ b \in Nat
      /\ \A i \in 1..Len(source) : source[i] \in Characters
  BY LenProperties, ElementOfSeq
<1>2. /\ start + 1 \in 1..(Len(source) + 1) /\ a \in ((start + 1) - 1)..Len(source)
      /\ b \in a..Len(source) /\ a + 1 \in 1..Len(source) /\ b \in (a + 1)..Len(source)
      /\ b \in 1..Len(source)
  BY <1>1
<1>3. short \o rest = SubSeq(source, start + 1, b)
  BY ONLY source \in Seq(Characters), <1>2, ConcatAdjacentSubSeq
<1>4. rest = most \o <<source[b]>>
  BY ONLY source \in Seq(Characters), <1>2, SubSeqRecursiveSecond
<1>5. short \in Seq(Characters) /\ rest \in Seq(Characters) /\ most \in Seq(Characters)
  <2>1. \A i \in (start + 1)..a : source[i] \in Characters
    BY <1>1
  <2>2. \A i \in (a + 1)..b : source[i] \in Characters
    BY <1>1
  <2>3. \A i \in (a + 1)..(b - 1) : source[i] \in Characters
    BY <1>1
  <2>4. start + 1 \in Int /\ a \in Int /\ a + 1 \in Int /\ b \in Int /\ b - 1 \in Int
    BY <1>1
  <2> HIDE DEF short, rest, most
  <2>5. short \in Seq(Characters)
    BY <2>1, <2>4, SubSeqProperties DEF short
  <2>6. rest \in Seq(Characters)
    BY <2>2, <2>4, SubSeqProperties DEF rest
  <2>7. most \in Seq(Characters)
    BY <2>3, <2>4, SubSeqProperties DEF most
  <2>8. QED
    BY <2>5, <2>6, <2>7
<1>6. source[b] \in Characters
  BY <1>1, <1>2
<1> HIDE DEF short, rest, most
<1>7. rest = Append(most, source[b])
  BY <1>4, <1>5, <1>6, AppendIsConcat
<1>8. Total(Width, rest) = Total(Width, most) + Width[source[b]]
  BY <1>5, <1>6, <1>7, TotalOfAppend
<1>9. Width[source[b]] \in Nat /\ Width[source[b]] > 0
  BY <1>6 DEF Width
<1>10. /\ Total(Width, short) \in Nat /\ Total(Width, most) \in Nat
       /\ Total(Width, short \o rest) = Total(Width, short) + Total(Width, rest)
  BY <1>5, WeightsAre, TotalOfConcat
<1>11. Total(Width, short) < Total(Width, short \o rest)
  BY ONLY <1>8, <1>9, <1>10
<1>12. QED
  BY <1>3, <1>11 DEF Units, short

-----------------------------------------------------------------------------
(* Lines of a source.                                                      *)

\* Of some numbers up to a limit there is a greatest.
LEMMA Greatest ==
  ASSUME NEW limit \in Nat, NEW S \in SUBSET (0..limit), S # {}
  PROVE  \E m \in S : \A k \in S : k <= m
<1> DEFINE Bounds == {b \in Nat : \A k \in S : k <= b}
<1>1. Bounds \in SUBSET Nat /\ limit \in Bounds
  OBVIOUS
<1>2. PICK m \in Bounds : \A b \in Bounds : m <= b
  BY <1>1, Least
<1>3. m \in Nat /\ \A k \in S : k <= m
  BY <1>1, <1>2
<1>4. m \in S
  <2> SUFFICES ASSUME m \notin S
               PROVE  FALSE
    OBVIOUS
  <2>1. \A k \in S : k \in Nat /\ k < m
    BY <1>3
  <2>2. m # 0 /\ m - 1 \in Nat
    <3>1. PICK k \in S : k \in Nat /\ k < m
      BY <2>1
    <3>2. QED
      BY ONLY <1>3, <3>1
  <2>3. \A k \in S : k <= m - 1
    BY <1>3, <2>1, <2>2
  <2>4. m - 1 \in Bounds
    BY <2>2, <2>3
  <2>5. m <= m - 1
    BY <1>2, <2>4
  <2>6. QED
    BY <1>3, <2>5
<1>5. QED
  BY <1>3, <1>4

\* The newlines are among the places of the source, and finitely many.
LEMMA NewlinesAre ==
  ASSUME NEW source \in Seq(Characters)
  PROVE  /\ Len(source) \in Nat
         /\ Newlines(source) \in SUBSET (1..Len(source)) /\ IsFiniteSet(Newlines(source))
         /\ \A offset : /\ IsFiniteSet({i \in Newlines(source) : i <= offset})
                        /\ LineNumber(source, offset) \in Nat
<1>1. Len(source) \in Nat
  BY LenProperties
<1>2. Newlines(source) \in SUBSET (1..Len(source))
  BY DEF Newlines
<1>3. IsFiniteSet(Newlines(source))
  <2>1. IsFiniteSet(1..Len(source))
    BY <1>1, FS_Interval
  <2>2. QED
    BY <1>2, <2>1, FS_Subset
<1>4. ASSUME NEW offset
      PROVE  /\ IsFiniteSet({i \in Newlines(source) : i <= offset})
             /\ LineNumber(source, offset) \in Nat
  <2> DEFINE before == {i \in Newlines(source) : i <= offset}
  <2>1. before \in SUBSET Newlines(source)
    OBVIOUS
  <2> HIDE DEF before
  <2>2. IsFiniteSet(before) /\ Cardinality(before) \in Nat
    BY <1>3, <2>1, FS_Subset, FS_CardinalityType
  <2>3. QED
    BY <2>2 DEF before, LineNumber
<1>5. QED
  BY <1>1, <1>2, <1>3, <1>4

\* A line starts behind the last newline before the offset, or at the source's start.
LEMMA LineStartIs ==
  ASSUME NEW source \in Seq(Characters), NEW offset \in Nat
  PROVE  /\ LineStart(source, offset) \in Newlines(source) \cup {0}
         /\ LineStart(source, offset) \in 0..offset
         /\ \A i \in Newlines(source) : i <= offset => i <= LineStart(source, offset)
<1> DEFINE before == {i \in Newlines(source) : i <= offset}
<1> DEFINE start == CHOOSE start \in before \cup {0} : \A i \in before : i <= start
<1>1. Newlines(source) \in SUBSET Nat
  BY NewlinesAre
<1>2. before \cup {0} \in SUBSET (0..offset) /\ before \cup {0} # {}
  BY <1>1
<1>3. start = LineStart(source, offset)
  BY DEF LineStart
<1>4. start \in before \cup {0} /\ \A i \in before : i <= start
  <2>1. \E m \in before \cup {0} : \A i \in before \cup {0} : i <= m
    BY <1>2, Greatest
  <2> HIDE DEF before
  <2>2. QED
    BY <2>1
<1> HIDE DEF start
<1>5. QED
  BY <1>2, <1>3, <1>4

\* A line is known by its number.
LEMMA LinesDiffer ==
  ASSUME NEW source \in Seq(Characters),
         NEW a \in Newlines(source) \cup {0}, NEW b \in Newlines(source) \cup {0}, a < b
  PROVE  LineNumber(source, a) # LineNumber(source, b)
<1> DEFINE upTo(o) == {i \in Newlines(source) : i <= o}
<1>1. Newlines(source) \in SUBSET (Nat \ {0})
  BY NewlinesAre
<1>2. upTo(a) \in SUBSET upTo(b) /\ b \in upTo(b) /\ b \notin upTo(a)
  BY <1>1
<1>3. IsFiniteSet(upTo(b))
  BY NewlinesAre
<1>4. LineNumber(source, a) = Cardinality(upTo(a)) /\ LineNumber(source, b) = Cardinality(upTo(b))
  BY DEF LineNumber
<1> HIDE DEF upTo
<1>5. Cardinality(upTo(b)) = Cardinality(upTo(a)) => upTo(b) = upTo(a)
  BY <1>2, <1>3, FS_Subset
<1>6. QED
  BY <1>2, <1>4, <1>5

\* A line has the number of its start.
LEMMA LineNumberOfStart ==
  ASSUME NEW source \in Seq(Characters), NEW offset \in Nat
  PROVE  LineNumber(source, LineStart(source, offset)) = LineNumber(source, offset)
<1> DEFINE start == LineStart(source, offset)
<1>1. Newlines(source) \in SUBSET Nat
  BY NewlinesAre
<1>2. start \in 0..offset /\ \A i \in Newlines(source) : i <= offset => i <= start
  BY LineStartIs
<1> HIDE DEF start
<1>3. {i \in Newlines(source) : i <= start} = {i \in Newlines(source) : i <= offset}
  BY <1>1, <1>2
<1>4. QED
  BY <1>3 DEF LineNumber, start

\* What lies on the line, and not within its ending, is within its bounds.
LEMMA LineEndIs ==
  ASSUME NEW source \in Seq(Characters), NEW start \in Newlines(source) \cup {0},
         NEW offset \in start..Len(source),
         \A i \in Newlines(source) : i <= offset => i <= start,
         ~InLineEnding(source, offset)
  PROVE  /\ LineEnd(source, start) \in start..Len(source)
         /\ offset <= LineEnd(source, start)
<1> DEFINE after == {i \in Newlines(source) : i > start}
           lf == CHOOSE i \in after : \A j \in after : i <= j
           end == lf - 1
<1>1. Len(source) \in Nat /\ Newlines(source) \in SUBSET (1..Len(source)) /\ start \in Nat
      /\ offset \in Nat
  BY NewlinesAre
<1>2. LineEnd(source, start) = IF after = {} THEN Len(source)
                               ELSE IF end > start /\ source[end] = "cr" THEN end - 1 ELSE end
  BY DEF LineEnd
<1>3. CASE after = {}
  BY <1>1, <1>2, <1>3
<1>4. CASE after # {}
  <2>1. lf \in after
    <3>1. after \in SUBSET Nat
      BY <1>1
    <3>2. \E i \in after : \A j \in after : i <= j
      BY <1>4, <3>1, Least
    <3> HIDE DEF after
    <3>3. QED
      BY <3>2
  <2>2. lf \in 1..Len(source) /\ lf > start /\ source[lf] = "lf" /\ lf \in Newlines(source)
    BY <1>1, <2>1 DEF Newlines
  <2>3. LineEnd(source, start) = IF end > start /\ source[end] = "cr" THEN end - 1 ELSE end
    BY <1>2, <1>4
  <2> HIDE DEF lf, after
  <2>4. ~(lf <= offset)
    BY <2>2, <1>1
  <2>5. offset <= end /\ end \in Nat /\ end >= start /\ end <= Len(source)
    BY <1>1, <2>2, <2>4
  <2>6. CASE end > start /\ source[end] = "cr"
    <3>1. offset # end
      <4> SUFFICES ASSUME offset = end
                   PROVE  FALSE
        OBVIOUS
      <4>1. offset + 1 = lf /\ 0 < offset /\ offset < Len(source)
        BY <1>1, <2>2, <2>5, <2>6
      <4>2. QED
        BY <2>2, <2>6, <4>1 DEF InLineEnding
    <3>2. LineEnd(source, start) = end - 1
      BY <2>3, <2>6
    <3>3. QED
      BY <1>1, <2>5, <2>6, <3>1, <3>2
  <2>7. CASE ~(end > start /\ source[end] = "cr")
    <3>1. LineEnd(source, start) = end
      BY <2>3, <2>7
    <3>2. QED
      BY <1>1, <2>5, <3>1
  <2>8. QED
    BY <2>6, <2>7
<1>5. QED
  BY <1>3, <1>4

-----------------------------------------------------------------------------
(* Positions.                                                              *)

\* The position of an offset is accepted, and means that offset: no other line
\* has its number, and no other offset in the line as many units before it.
THEOREM PositionMeansOffset ==
  ASSUME NEW source \in Seq(Characters), NEW offset \in 0..Len(source),
         ~InLineEnding(source, offset)
  PROVE  ByteOffset(source, PositionAt(source, offset)) = {offset}
<1> DEFINE start == LineStart(source, offset)
           end == LineEnd(source, start)
           position == PositionAt(source, offset)
           units(o) == Units(SubSeq(source, start + 1, o))
<1>1. Len(source) \in Nat /\ Newlines(source) \in SUBSET (1..Len(source)) /\ offset \in Nat
  BY NewlinesAre
<1>2. /\ start \in Newlines(source) \cup {0} /\ start \in 0..offset
      /\ \A i \in Newlines(source) : i <= offset => i <= start
  BY <1>1, LineStartIs
<1>3. position.line = LineNumber(source, start) /\ position.character = units(offset)
  BY <1>1, LineNumberOfStart DEF PositionAt
<1> HIDE DEF start, position
<1>4. end \in start..Len(source) /\ offset <= end
  <2>1. offset \in start..Len(source)
    BY <1>1, <1>2
  <2> HIDE DEF end
  <2>2. QED
    BY <1>2, <2>1, LineEndIs DEF end
<1>5. lineBounds(source, position.line) = {<<start, end>>}
  <2>1. ASSUME NEW s \in Newlines(source) \cup {0}, LineNumber(source, s) = position.line
        PROVE  s = start
    <3>1. s \in Nat /\ start \in Nat
      BY <1>1, <1>2
    <3>2. ~(s < start) /\ ~(start < s)
      BY <1>2, <1>3, <2>1, LinesDiffer
    <3>3. QED
      BY <3>1, <3>2
  <2>2. {s \in Newlines(source) \cup {0} : LineNumber(source, s) = position.line} = {start}
    BY <1>2, <1>3, <2>1
  <2>3. QED
    BY <2>2 DEF lineBounds
<1>6. ASSUME NEW o \in start..end, units(o) = units(offset)
      PROVE  o = offset
  <2>1. /\ start \in Nat /\ o \in start..Len(source) /\ offset \in start..Len(source)
        /\ o \in Nat
    BY <1>1, <1>2, <1>4
  <2> HIDE DEF end, units
  <2>2. o < offset => units(o) < units(offset)
    BY ONLY source \in Seq(Characters), <2>1, UnitsGrow DEF units
  <2>3. offset < o => units(offset) < units(o)
    BY ONLY source \in Seq(Characters), <2>1, UnitsGrow DEF units
  <2>4. ~(units(o) < units(offset)) /\ ~(units(offset) < units(o))
    <3>1. units(offset) \in Nat
      <4>1. start + 1 \in Nat \ {0}
        BY <1>2
      <4>2. QED
        BY <4>1, SizesAre DEF units
    <3>2. QED
      BY ONLY <3>1, <1>6
  <2>5. QED
    BY ONLY offset \in 0..Len(source), <1>1, <2>1, <2>2, <2>3, <2>4
<1>7. {o \in start..end : units(o) = position.character} = {offset}
  BY <1>1, <1>2, <1>3, <1>4, <1>6
<1> HIDE DEF end, units
<1>8. ByteOffset(source, position) = {o \in start..end : units(o) = position.character}
  BY <1>5 DEF ByteOffset, units
<1>9. QED
  BY <1>7, <1>8 DEF position

-----------------------------------------------------------------------------
(* Points.                                                                 *)

\* What is said of an offset depends on what is before it.
LEMMA PlaceOfPrefix ==
  ASSUME NEW source \in Seq(Characters), NEW offset \in 0..Len(source),
         NEW before, before = SubSeq(source, 1, offset)
  PROVE  /\ before \in Seq(Characters) /\ Len(before) = offset
         /\ PositionAt(source, offset) = PositionAt(before, offset)
         /\ pointForOffset(source, offset) = pointForOffset(before, offset)
<1>1. /\ before \in Seq(Characters) /\ Len(before) = offset /\ offset \in Nat
      /\ Len(source) \in Nat /\ \A i \in 1..offset : before[i] = source[i]
  BY PartIs, LenProperties
<1>2. {i \in Newlines(source) : i <= offset} = {i \in Newlines(before) : i <= offset}
  BY <1>1 DEF Newlines
<1>3. LineNumber(source, offset) = LineNumber(before, offset)
  BY <1>2 DEF LineNumber
<1>4. LineStart(source, offset) = LineStart(before, offset)
  BY <1>2 DEF LineStart
<1> DEFINE start == LineStart(before, offset)
<1>5. start \in 0..offset
  BY <1>1, LineStartIs
<1> HIDE DEF start
<1>6. SubSeq(source, start + 1, offset) = SubSeq(before, start + 1, offset)
  <2> DEFINE s == SubSeq(source, start + 1, offset)
             t == SubSeq(before, start + 1, offset)
  <2>1. start + 1 \in Nat \ {0} /\ offset \in 0..Len(before)
    BY <1>1, <1>5
  <2>2. /\ s \in Seq(Characters)
        /\ Len(s) = IF start + 1 <= offset THEN offset - (start + 1) + 1 ELSE 0
        /\ \A i \in 1..(offset - (start + 1) + 1) : s[i] = source[(start + 1) + i - 1]
    BY ONLY source \in Seq(Characters), offset \in 0..Len(source), <2>1, PartIs
  <2>3. /\ t \in Seq(Characters)
        /\ Len(t) = IF start + 1 <= offset THEN offset - (start + 1) + 1 ELSE 0
        /\ \A i \in 1..(offset - (start + 1) + 1) : t[i] = before[(start + 1) + i - 1]
    BY ONLY <1>1, <2>1, PartIs
  <2> HIDE DEF s, t
  <2>4. Len(s) = Len(t)
    BY <2>2, <2>3
  <2>5. ASSUME NEW i \in 1..Len(s)
        PROVE  s[i] = t[i]
    <3>1. i \in 1..(offset - (start + 1) + 1) /\ (start + 1) + i - 1 \in 1..offset
      BY ONLY i \in 1..Len(s), <1>1, <1>5, <2>2
    <3>2. QED
      BY <1>1, <2>2, <2>3, <3>1
  <2>6. s = t
    BY ONLY <2>2, <2>3, <2>4, <2>5, SeqEqual
  <2>7. QED
    BY <2>6 DEF s, t
<1>7. QED
  BY <1>1, <1>3, <1>4, <1>6 DEF PositionAt, pointForOffset, start

\* The newlines of what is put together.
LEMMA NewlinesOfConcat ==
  ASSUME NEW p \in Seq(Characters), NEW r \in Seq(Characters)
  PROVE  /\ Newlines(p \o r) = Newlines(p) \cup {Len(p) + i : i \in Newlines(r)}
         /\ Cardinality(Newlines(p \o r)) = Cardinality(Newlines(p)) + Cardinality(Newlines(r))
<1> DEFINE m == Len(p)
           n == Len(r)
           moved == {m + i : i \in Newlines(r)}
           whole == p \o r
<1>1. /\ m \in Nat /\ n \in Nat /\ whole \in Seq(Characters) /\ Len(whole) = m + n
      /\ \A i \in 1..(m + n) : whole[i] = IF i <= m THEN p[i] ELSE r[i - m]
  BY ConcatProperties, LenProperties
<1>2. Newlines(p) \in SUBSET (1..m) /\ Newlines(r) \in SUBSET (1..n)
      /\ IsFiniteSet(Newlines(p)) /\ IsFiniteSet(Newlines(r))
  BY NewlinesAre
<1> HIDE DEF m, n, whole
<1>3. Newlines(whole) = Newlines(p) \cup moved
  <2>1. ASSUME NEW i \in Newlines(whole)
        PROVE  i \in Newlines(p) \cup moved
    <3>1. i \in 1..(m + n) /\ whole[i] = "lf"
      BY <1>1, <2>1 DEF Newlines
    <3>2. CASE i <= m
      <4>1. i \in 1..m /\ p[i] = "lf"
        BY <1>1, <3>1, <3>2
      <4>2. QED
        BY <4>1 DEF Newlines, m
    <3>3. CASE ~(i <= m)
      <4>1. i - m \in 1..n /\ r[i - m] = "lf" /\ i = m + (i - m)
        BY <1>1, <3>1, <3>3
      <4>2. i - m \in Newlines(r)
        BY <4>1 DEF Newlines, n
      <4>3. QED
        BY <4>1, <4>2
    <3>4. QED
      BY <3>2, <3>3
  <2>2. ASSUME NEW i \in Newlines(p)
        PROVE  i \in Newlines(whole)
    <3>1. i \in 1..m /\ p[i] = "lf"
      BY <2>2 DEF Newlines, m
    <3>2. i \in 1..(m + n) /\ i <= m
      BY <1>1, <3>1
    <3>3. QED
      BY <1>1, <3>1, <3>2 DEF Newlines
  <2>3. ASSUME NEW i \in Newlines(r)
        PROVE  m + i \in Newlines(whole)
    <3>1. i \in 1..n /\ r[i] = "lf"
      BY <2>3 DEF Newlines, n
    <3>2. m + i \in 1..(m + n) /\ ~(m + i <= m) /\ (m + i) - m = i
      BY <1>1, <3>1
    <3>3. QED
      BY <1>1, <3>1, <3>2 DEF Newlines
  <2>4. QED
    BY <2>1, <2>2, <2>3
<1>4. IsFiniteSet(moved) /\ Cardinality(moved) = Cardinality(Newlines(r))
  <2> DEFINE move == [i \in Newlines(r) |-> m + i]
  <2>1. move \in Bijection(Newlines(r), moved)
    <3>1. \A i, j \in Newlines(r) : m + i = m + j => i = j
      BY <1>1, <1>2
    <3>2. QED
      BY <3>1 DEF Bijection, Injection, Surjection, IsInjective
  <2>2. ExistsBijection(Newlines(r), moved)
    BY <2>1 DEF ExistsBijection
  <2> HIDE DEF moved
  <2>3. QED
    BY <1>2, <2>2, FS_Bijection
<1>5. Newlines(p) \cap moved = {}
  BY <1>1, <1>2
<1>6. Cardinality(Newlines(p) \cup moved) = Cardinality(Newlines(p)) + Cardinality(moved)
  <2> HIDE DEF moved
  <2>1. Cardinality(Newlines(p)) \in Nat /\ Cardinality(moved) \in Nat
    BY <1>2, <1>4, FS_CardinalityType
  <2>2. Cardinality(Newlines(p) \cup moved)
          = Cardinality(Newlines(p)) + Cardinality(moved) - Cardinality(Newlines(p) \cap moved)
    BY <1>2, <1>4, FS_Union
  <2>3. Cardinality(Newlines(p) \cap moved) = 0
    BY <1>5, FS_EmptySet
  <2>4. QED
    BY ONLY <2>1, <2>2, <2>3
<1>7. QED
  BY <1>3, <1>4, <1>6 DEF m, whole

\* The end of what is put together.
LEMMA EndOfConcat ==
  ASSUME NEW S, NEW p \in Seq(S), NEW r \in Seq(S)
  PROVE  /\ \A k \in 0..Len(p) : SubSeq(p \o r, k + 1, Len(p) + Len(r))
                                   = SubSeq(p, k + 1, Len(p)) \o r
         /\ \A k \in 0..Len(r) : SubSeq(p \o r, Len(p) + k + 1, Len(p) + Len(r))
                                   = SubSeq(r, k + 1, Len(r))
         /\ \A k \in 0..Len(p) : SubSeq(p \o r, 1, k) = SubSeq(p, 1, k)
<1> DEFINE m == Len(p)
           n == Len(r)
           whole == p \o r
<1>1. /\ m \in Nat /\ n \in Nat /\ whole \in Seq(S) /\ Len(whole) = m + n
      /\ \A i \in 1..(m + n) : whole[i] = IF i <= m THEN p[i] ELSE r[i - m]
  BY ConcatProperties, LenProperties
<1>2. /\ \A i \in 1..m : p[i] \in S
      /\ \A i \in 1..n : r[i] \in S
      /\ \A i \in 1..(m + n) : whole[i] \in S
  BY <1>1, ElementOfSeq
<1> HIDE DEF m, n, whole
<1>3. ASSUME NEW k \in 0..m
      PROVE  SubSeq(whole, k + 1, m + n) = SubSeq(p, k + 1, m) \o r
  <2> DEFINE s == SubSeq(whole, k + 1, m + n)
             u == SubSeq(p, k + 1, m)
             t == u \o r
  <2>1. /\ s \in Seq(S) /\ Len(s) = m + n - k
        /\ \A i \in 1..(m + n - k) : s[i] = whole[k + i]
    <3>1. /\ s \in Seq(S)
          /\ Len(s) = IF k + 1 <= m + n THEN (m + n) - (k + 1) + 1 ELSE 0
          /\ \A i \in 1..((m + n) - (k + 1) + 1) : s[i] = whole[(k + 1) + i - 1]
      <4>1. k + 1 \in Int /\ m + n \in Int /\ \A i \in (k + 1)..(m + n) : whole[i] \in S
        BY <1>1, <1>2
      <4>2. QED
        BY ONLY <4>1, SubSeqProperties
    <3> HIDE DEF s
    <3>2. (m + n) - (k + 1) + 1 = m + n - k /\ (k + 1 <= m + n \/ m + n - k = 0)
      BY ONLY k \in 0..m, <1>1
    <3>3. \A i \in Int : (k + 1) + i - 1 = k + i
      OBVIOUS
    <3>4. QED
      BY ONLY <3>1, <3>2, <3>3
  <2>2. /\ u \in Seq(S) /\ Len(u) = m - k
        /\ \A i \in 1..(m - k) : u[i] = p[k + i]
    <3>1. /\ u \in Seq(S)
          /\ Len(u) = IF k + 1 <= m THEN m - (k + 1) + 1 ELSE 0
          /\ \A i \in 1..(m - (k + 1) + 1) : u[i] = p[(k + 1) + i - 1]
      <4>1. k + 1 \in Int /\ m \in Int /\ \A i \in (k + 1)..m : p[i] \in S
        BY <1>1, <1>2
      <4>2. QED
        BY ONLY <4>1, SubSeqProperties
    <3> HIDE DEF u
    <3>2. m - (k + 1) + 1 = m - k /\ (k + 1 <= m \/ m - k = 0)
      BY ONLY k \in 0..m, <1>1
    <3>3. \A i \in Int : (k + 1) + i - 1 = k + i
      OBVIOUS
    <3>4. QED
      BY ONLY <3>1, <3>2, <3>3
  <2> HIDE DEF u
  <2>3. /\ t \in Seq(S) /\ Len(t) = (m - k) + n
        /\ \A i \in 1..((m - k) + n) : t[i] = IF i <= m - k THEN u[i] ELSE r[i - (m - k)]
    BY <2>2, ConcatProperties DEF n
  <2> HIDE DEF s, t
  <2>4. ASSUME NEW i \in 1..Len(s)
        PROVE  s[i] = t[i]
    <3>1. /\ i \in 1..(m + n - k) /\ i \in 1..((m - k) + n) /\ k + i \in 1..(m + n)
          /\ (i <= m - k => i \in 1..(m - k) /\ k + i <= m)
          /\ (~(i <= m - k) => ~(k + i <= m))
          /\ i - (m - k) = (k + i) - m
      BY ONLY i \in 1..Len(s), k \in 0..m, <1>1, <2>1
    <3>2. s[i] = whole[k + i] /\ whole[k + i] = IF k + i <= m THEN p[k + i] ELSE r[(k + i) - m]
      BY <1>1, <2>1, <3>1
    <3>3. CASE i <= m - k
      BY <2>2, <2>3, <3>1, <3>2, <3>3
    <3>4. CASE ~(i <= m - k)
      BY <2>3, <3>1, <3>2, <3>4
    <3>5. QED
      BY <3>3, <3>4
  <2>5. Len(s) = Len(t)
    BY ONLY k \in 0..m, <1>1, <2>1, <2>3
  <2>6. s = t
    BY ONLY <2>1, <2>3, <2>4, <2>5, SeqEqual
  <2>7. QED
    BY <2>6 DEF s, t, u
<1>4. ASSUME NEW k \in 0..n
      PROVE  SubSeq(whole, m + k + 1, m + n) = SubSeq(r, k + 1, n)
  <2>1. CASE k = n
    BY <1>1, <2>1, SubSeqEmpty
  <2>2. CASE k # n
    <3>1. /\ m + k + 1 \in (m + 1)..(m + n) /\ m + n \in (m + 1)..(m + n)
          /\ (m + k + 1) - m = k + 1 /\ (m + n) - m = n
      BY ONLY k \in 0..n, <1>1, <2>2
    <3>2. SubSeq(whole, m + k + 1, m + n) = SubSeq(r, (m + k + 1) - m, (m + n) - m)
      BY <3>1, SubSeqOfConcat2 DEF m, n, whole
    <3>3. QED
      BY <3>1, <3>2
  <2>3. QED
    BY <2>1, <2>2
<1>5. ASSUME NEW k \in 0..m
      PROVE  SubSeq(whole, 1, k) = SubSeq(p, 1, k)
  <2>1. CASE k = 0
    BY <2>1, SubSeqEmpty
  <2>2. CASE k # 0
    <3>1. 1 \in 1..m /\ k \in 1..m
      BY <1>1, <2>2
    <3>2. QED
      BY <3>1, SubSeqOfConcat1 DEF m, whole
  <2>3. QED
    BY <2>1, <2>2
<1>6. QED
  BY <1>3, <1>4, <1>5 DEF m, n, whole

\* The line of the end of a source is the last one.
LEMMA LineOfEnd ==
  ASSUME NEW source \in Seq(Characters)
  PROVE  LineNumber(source, Len(source)) = Cardinality(Newlines(source))
<1>1. {i \in Newlines(source) : i <= Len(source)} = Newlines(source)
  BY NewlinesAre
<1>2. QED
  BY <1>1 DEF LineNumber

\* replacementEndPoint says where the end of what is put together is.
LEMMA PointOfConcat ==
  ASSUME NEW p \in Seq(Characters), NEW r \in Seq(Characters)
  PROVE  replacementEndPoint(pointForOffset(p, Len(p)), r)
           = pointForOffset(p \o r, Len(p) + Len(r))
<1> DEFINE m == Len(p)
           n == Len(r)
           whole == p \o r
           start == LineStart(p, m)
           last == LineStart(r, n)
           end == LineStart(whole, m + n)
<1>1. /\ m \in Nat /\ n \in Nat /\ whole \in Seq(Characters) /\ Len(whole) = m + n
  BY ConcatProperties, LenProperties
<1>2. /\ Newlines(whole) = Newlines(p) \cup {m + i : i \in Newlines(r)}
      /\ Cardinality(Newlines(whole)) = Cardinality(Newlines(p)) + Cardinality(Newlines(r))
  BY NewlinesOfConcat
<1>3. /\ Newlines(p) \in SUBSET (1..m) /\ Newlines(r) \in SUBSET (1..n)
      /\ IsFiniteSet(Newlines(r))
  BY NewlinesAre
<1>4. /\ start \in 0..m
      /\ last \in Newlines(r) \cup {0} /\ last \in 0..n
      /\ \A i \in Newlines(r) : i <= n => i <= last
      /\ end \in Newlines(whole) \cup {0} /\ end \in 0..(m + n)
      /\ \A i \in Newlines(whole) : i <= m + n => i <= end
  <2>1. m + n \in Nat
    BY <1>1
  <2> HIDE DEF m, n, whole
  <2>2. QED
    BY <1>1, <2>1, LineStartIs
<1>5. pointForOffset(p, m) = [row |-> Cardinality(Newlines(p)),
                              column |-> Bytes(SubSeq(p, start + 1, m))]
  BY LineOfEnd DEF pointForOffset
<1>6. pointForOffset(whole, m + n)
        = [row |-> Cardinality(Newlines(p)) + Cardinality(Newlines(r)),
           column |-> Bytes(SubSeq(whole, end + 1, m + n))]
  <2> HIDE DEF whole
  <2>1. LineNumber(whole, m + n) = Cardinality(Newlines(whole))
    BY <1>1, LineOfEnd
  <2>2. QED
    BY <1>2, <2>1 DEF pointForOffset
<1>7. Cardinality(Newlines(r)) = 0 <=> Newlines(r) = {}
  BY <1>3, FS_EmptySet
<1> DEFINE tail == Bytes(SubSeq(r, last + 1, n))
<1>8. replacementEndPoint(pointForOffset(p, m), r)
        = [row |-> Cardinality(Newlines(p)) + Cardinality(Newlines(r)),
           column |-> IF Newlines(r) = {} THEN Bytes(SubSeq(p, start + 1, m)) + tail ELSE tail]
  BY <1>5, <1>7 DEF replacementEndPoint
<1>9. CASE Newlines(r) = {}
  <2>1. {i \in Newlines(whole) : i <= m + n} = {i \in Newlines(p) : i <= m}
    BY <1>1, <1>2, <1>3, <1>9
  <2>2. end = start
    BY <2>1 DEF LineStart
  <2>3. last = 0
    BY <1>4, <1>9
  <2> HIDE DEF end, start, last
  <2>4. SubSeq(whole, end + 1, m + n) = SubSeq(p, start + 1, m) \o r
    BY <1>4, <2>2, EndOfConcat
  <2>5. tail = Bytes(r)
    <3>1. last + 1 = 1 /\ SubSeq(r, 1, n) = r
      BY <2>3, SubSeqFull
    <3>2. QED
      BY <3>1, Zenon
  <2>6. SubSeq(p, start + 1, m) \in Seq(Characters)
    <3>1. start + 1 \in Nat \ {0} /\ m \in 0..Len(p)
      BY <1>1, <1>4
    <3>2. QED
      BY <3>1, PartIs
  <2>7. Bytes(SubSeq(p, start + 1, m) \o r) = Bytes(SubSeq(p, start + 1, m)) + Bytes(r)
    BY <2>6, WeightsAre, TotalOfConcat DEF Bytes
  <2>8. QED
    BY <1>6, <1>8, <1>9, <2>4, <2>5, <2>7
<1>10. CASE Newlines(r) # {}
  <2>1. last \in Newlines(r)
    <3>1. PICK i \in Newlines(r) : TRUE
      BY <1>10
    <3>2. i \in 1..n /\ i <= last
      BY <1>3, <1>4, <3>1
    <3>3. last # 0
      BY <1>1, <1>4, <3>2
    <3>4. QED
      BY <1>4, <3>3
  <2>2. end = m + last
    <3>1. m + last \in Newlines(whole) /\ m + last <= m + n
      BY <1>1, <1>2, <1>4, <2>1
    <3>2. m + last <= end /\ last \in 1..n
      BY <1>3, <1>4, <2>1, <3>1
    <3>3. end # 0 /\ end \notin Newlines(p)
      BY <1>1, <1>3, <3>2
    <3>4. PICK i \in Newlines(r) : end = m + i
      BY <1>2, <1>4, <3>3
    <3>5. i \in 1..n /\ i <= last
      BY <1>3, <1>4, <3>4
    <3>6. QED
      BY ONLY <1>1, <3>2, <3>4, <3>5
  <2> HIDE DEF end, start, last
  <2>3. SubSeq(whole, end + 1, m + n) = SubSeq(r, last + 1, n)
    BY <1>4, <2>2, EndOfConcat
  <2>4. QED
    BY <1>6, <1>8, <1>10, <2>3
<1>11. QED
  BY <1>9, <1>10

\* The parser is told where a replacement ends.
THEOREM ReplacementEnds ==
  ASSUME NEW source \in Seq(Characters), NEW start \in 0..Len(source),
         NEW end \in start..Len(source), NEW replacement \in Seq(Characters)
  PROVE  replacementEndPoint(pointForOffset(source, start), replacement)
           = pointForOffset(Spliced(source, start, end, replacement),
                            start + Len(replacement))
<1> DEFINE before == SubSeq(source, 1, start)
           after == SubSeq(source, end + 1, Len(source))
           first == before \o replacement
           whole == first \o after
<1>1. Len(source) \in Nat /\ Len(replacement) \in Nat /\ start \in Nat /\ end \in Nat
  BY LenProperties
<1>2. before \in Seq(Characters) /\ Len(before) = start
      /\ pointForOffset(source, start) = pointForOffset(before, start)
  BY PlaceOfPrefix
<1>3. after \in Seq(Characters)
  BY <1>1, PartIs
<1> HIDE DEF before, after
<1>4. first \in Seq(Characters) /\ Len(first) = start + Len(replacement)
  BY <1>2, ConcatProperties
<1>5. replacementEndPoint(pointForOffset(before, start), replacement)
        = pointForOffset(first, start + Len(replacement))
  BY <1>2, PointOfConcat
<1> HIDE DEF first
<1>6. whole \in Seq(Characters) /\ Len(first) \in 0..Len(whole)
      /\ first = SubSeq(whole, 1, Len(first))
  <2>1. whole \in Seq(Characters) /\ Len(whole) = Len(first) + Len(after)
        /\ Len(after) \in Nat /\ Len(first) \in Nat
    BY <1>3, <1>4, ConcatProperties, LenProperties
  <2>2. SubSeq(whole, 1, Len(first)) = SubSeq(first, 1, Len(first))
    <3>1. Len(first) \in 0..Len(first)
      BY <2>1
    <3>2. QED
      BY <1>3, <1>4, <3>1, EndOfConcat
  <2>3. SubSeq(first, 1, Len(first)) = first
    BY <1>4, SubSeqFull
  <2>4. QED
    BY <2>1, <2>2, <2>3
<1> HIDE DEF whole
<1>7. pointForOffset(whole, Len(first)) = pointForOffset(first, Len(first))
  BY <1>6, PlaceOfPrefix
<1>8. whole = Spliced(source, start, end, replacement)
  BY DEF whole, first, before, after, Spliced
<1>9. QED
  BY <1>2, <1>4, <1>5, <1>7, <1>8

-----------------------------------------------------------------------------
(* Joined lines.                                                           *)

Line == Seq(Characters \ {"cr", "lf"})
Texts == Seq(Line) \ {<<>>}
Endings == {<<"lf">>, <<"cr", "lf">>}

\* The first n lines joined, the first n - 1, ...
Joins(ending, text, upTo, n) ==
  upTo = [i \in 1..n |-> IF i = 1 THEN text[1] ELSE upTo[i - 1] \o ending \o text[i]]

\* Joined, of a line ending that is no variable.
Source(ending, text) ==
  LET upTo[n \in 1..Len(text)] ==
        IF n = 1 THEN text[1] ELSE upTo[n - 1] \o ending \o text[n]
  IN upTo[Len(text)]

\* What the editor joins with its line ending.
LEMMA JoinedIsSource ==
  ASSUME NEW text
  PROVE  Joined(text) = Source(eol, text)
BY Zenon DEF Joined, Source

\* The recursive function is defined, however many the lines.
LEMMA JoinsExist ==
  ASSUME NEW ending, NEW text, NEW last \in Nat \ {0}
  PROVE  \E upTo : Joins(ending, text, upTo, last)
<1> DEFINE S == {n \in Nat : \E upTo : Joins(ending, text, upTo, n)}
<1>1. 1 \in S
  <2>1. Joins(ending, text, [i \in 1..1 |-> text[1]], 1)
    BY DEF Joins
  <2>2. QED
    BY <2>1
<1>2. ASSUME NEW n \in 1..(last - 1), n \in S
      PROVE  n + 1 \in S
  <2>1. PICK f : Joins(ending, text, f, n)
    BY <1>2
  <2> DEFINE g == [i \in 1..(n + 1) |->
                     IF i = n + 1 THEN f[n] \o ending \o text[n + 1] ELSE f[i]]
  <2>2. n \in Nat /\ n # 0
    OBVIOUS
  <2>3. \A i \in 1..n : g[i] = f[i]
    BY <2>2
  <2>4. \A i \in 1..n : f[i] = IF i = 1 THEN text[1] ELSE f[i - 1] \o ending \o text[i]
    BY <2>1 DEF Joins
  <2>5. ASSUME NEW i \in 1..(n + 1)
        PROVE  g[i] = IF i = 1 THEN text[1] ELSE g[i - 1] \o ending \o text[i]
    <3>1. CASE i = n + 1
      <4>1. g[i] = f[n] \o ending \o text[n + 1]
        BY <3>1, <2>2
      <4>2. g[n] = f[n] /\ i - 1 = n /\ i # 1
        BY <2>2, <2>3, <3>1
      <4>3. QED
        BY ONLY <3>1, <4>1, <4>2, Zenon
    <3>2. CASE i # n + 1
      <4>1. i \in 1..n
        BY <2>2, <3>2
      <4>2. g[i] = f[i]
        BY <2>3, <4>1
      <4>3. CASE i = 1
        BY <2>4, <4>1, <4>2, <4>3
      <4>4. CASE i # 1
        <5>1. i - 1 \in 1..n
          BY <2>2, <4>1, <4>4
        <5>2. g[i - 1] = f[i - 1] /\ f[i] = f[i - 1] \o ending \o text[i]
          BY <2>3, <2>4, <4>1, <4>4, <5>1
        <5>3. QED
          BY ONLY <4>2, <4>4, <5>2, Zenon
      <4>5. QED
        BY <4>3, <4>4
    <3>3. QED
      BY <3>1, <3>2
  <2>6. g = [i \in 1..(n + 1) |-> IF i = 1 THEN text[1] ELSE g[i - 1] \o ending \o text[i]]
    BY <2>5, Zenon
  <2>7. Joins(ending, text, g, n + 1)
    BY <2>6 DEF Joins
  <2>8. QED
    BY <2>2, <2>7
<1> HIDE DEF S
<1>3. \A n \in 1..last : n \in S
  BY ONLY last \in Nat \ {0}, <1>1, <1>2, Counting
<1>4. QED
  BY <1>3 DEF S

\* What the recursive function of Source joins.
LEMMA SourceIs ==
  ASSUME NEW ending, NEW text, Len(text) \in Nat \ {0}
  PROVE  \E upTo : /\ Joins(ending, text, upTo, Len(text))
                   /\ Source(ending, text) = upTo[Len(text)]
<1> DEFINE n == Len(text)
<1> DEFINE All == CHOOSE upTo :
      upTo = [i \in 1..n |-> IF i = 1 THEN text[1] ELSE upTo[i - 1] \o ending \o text[i]]
<1>1. \E upTo : Joins(ending, text, upTo, n)
  BY JoinsExist
<1>2. Joins(ending, text, All, n)
  BY <1>1, Zenon DEF Joins
<1>3. Source(ending, text) = All[n]
  BY Zenon DEF Source
<1>4. QED
  BY <1>2, <1>3

\* One line is its source.
LEMMA SourceOfOne ==
  ASSUME NEW ending, NEW line
  PROVE  Source(ending, <<line>>) = line
<1> DEFINE text == <<line>>
<1>1. Len(text) = 1 /\ text[1] = line
  OBVIOUS
<1> HIDE DEF text
<1>2. PICK upTo : Joins(ending, text, upTo, 1) /\ Source(ending, text) = upTo[1]
  <2>1. Len(text) \in Nat \ {0}
    BY <1>1
  <2>2. \E upTo : /\ Joins(ending, text, upTo, Len(text))
                  /\ Source(ending, text) = upTo[Len(text)]
    BY <2>1, SourceIs, Zenon
  <2>3. QED
    BY <1>1, <2>2, Zenon
<1>3. upTo[1] = line
  BY <1>1, <1>2 DEF Joins
<1>4. QED
  BY <1>2, <1>3 DEF text

\* One more line is the line ending and the line more.
LEMMA SourceOfAppend ==
  ASSUME NEW ending, NEW text \in Texts, NEW line \in Line
  PROVE  Source(ending, Append(text, line)) = Source(ending, text) \o ending \o line
<1> DEFINE n == Len(text)
           longer == Append(text, line)
<1>1. n \in Nat \ {0} /\ Len(longer) = n + 1 /\ longer[n + 1] = line
      /\ \A i \in 1..n : longer[i] = text[i]
  <2>1. text \in Seq(Line) /\ text # <<>>
    BY DEF Texts
  <2>2. QED
    BY <2>1, AppendProperties, EmptySeq
<1> HIDE DEF n, longer
<1>2. PICK f : Joins(ending, text, f, n) /\ Source(ending, text) = f[n]
  BY <1>1, SourceIs DEF n
<1>3. PICK g : Joins(ending, longer, g, n + 1) /\ Source(ending, longer) = g[n + 1]
  <2>1. Len(longer) \in Nat \ {0}
    BY <1>1
  <2>2. \E upTo : /\ Joins(ending, longer, upTo, Len(longer))
                  /\ Source(ending, longer) = upTo[Len(longer)]
    BY <2>1, SourceIs, Zenon
  <2>3. QED
    BY <1>1, <2>2, Zenon
<1> DEFINE S == {i \in 1..n : f[i] = g[i]}
<1>4. \A i \in 1..n : f[i] = IF i = 1 THEN text[1] ELSE f[i - 1] \o ending \o text[i]
  BY <1>2 DEF Joins
<1>5. \A i \in 1..(n + 1) : g[i] = IF i = 1 THEN longer[1] ELSE g[i - 1] \o ending \o longer[i]
  BY <1>3 DEF Joins
<1>6. 1 \in S
  <2>1. 1 \in 1..n /\ 1 \in 1..(n + 1)
    BY <1>1
  <2>2. QED
    BY <1>1, <1>4, <1>5, <2>1
<1>7. ASSUME NEW i \in 1..(n - 1), i \in S
      PROVE  i + 1 \in S
  <2>1. i + 1 \in 1..n /\ i + 1 \in 1..(n + 1) /\ i + 1 # 1 /\ (i + 1) - 1 = i
    BY <1>1
  <2>2. f[i + 1] = f[i] \o ending \o text[i + 1] /\ g[i + 1] = g[i] \o ending \o longer[i + 1]
    BY <1>4, <1>5, <2>1
  <2>3. f[i] = g[i] /\ longer[i + 1] = text[i + 1]
    BY <1>1, <1>7, <2>1
  <2>4. QED
    BY <2>1, <2>2, <2>3
<1> HIDE DEF S
<1>8. \A i \in 1..n : i \in S
  BY ONLY <1>1, <1>6, <1>7, Counting
<1>9. f[n] = g[n]
  BY <1>1, <1>8 DEF S
<1>10. g[n + 1] = g[n] \o ending \o line
  <2>1. n + 1 \in 1..(n + 1) /\ n + 1 # 1 /\ (n + 1) - 1 = n
    BY <1>1
  <2>2. QED
    BY <1>1, <1>5, <2>1
<1>11. QED
  BY <1>2, <1>3, <1>9, <1>10 DEF longer

\* A text is one line or one more than a text.
LEMMA TextsAre ==
  ASSUME NEW text \in Texts
  PROVE  /\ text \in Seq(Line) /\ Len(text) \in Nat \ {0}
         /\ Len(text) = 1 => \E line \in Line : text = <<line>>
         /\ Len(text) # 1 => \E shorter \in Texts, line \in Line :
                                text = Append(shorter, line) /\ Len(shorter) = Len(text) - 1
<1>1. text \in Seq(Line) /\ text # <<>> /\ Len(text) \in Nat \ {0}
  <2>1. text \in Seq(Line) /\ text # <<>>
    BY DEF Texts
  <2>2. QED
    BY <2>1, EmptySeq
<1>2. PICK shorter \in Seq(Line), line \in Line : text = Append(shorter, line)
  BY <1>1, SequenceEmptyOrAppend
<1> DEFINE k == Len(shorter)
<1>3. Len(text) = k + 1 /\ k \in Nat
  BY <1>2, AppendProperties, LenProperties
<1> HIDE DEF k
<1>4. ASSUME Len(text) = 1
      PROVE  text = <<line>>
  <2>1. k = 0
    <3>1. k + 1 = 1
      BY <1>3, <1>4, Zenon
    <3>2. QED
      BY ONLY <1>3, <3>1
  <2>2. shorter = <<>>
    BY <2>1, EmptySeq DEF k
  <2>3. QED
    BY <1>2, <2>2
<1>5. ASSUME Len(text) # 1
      PROVE  shorter \in Texts /\ Len(shorter) = Len(text) - 1
  <2>1. k # 0 /\ k = Len(text) - 1
    BY ONLY <1>3, <1>5
  <2>2. shorter # <<>>
    BY <2>1, EmptySeq DEF k
  <2>3. QED
    BY <2>1, <2>2 DEF Texts, k
<1>6. QED
  BY <1>1, <1>2, <1>4, <1>5

\* A line is text.
LEMMA LinesAreSources ==
  /\ \A line \in Line : line \in Seq(Characters)
  /\ \A ending \in Endings : ending \in Seq(Characters)
<1>1. Line \subseteq Seq(Characters)
  BY SeqMonotonic DEF Line
<1>2. <<"lf">> \in Seq(Characters) /\ <<"cr", "lf">> \in Seq(Characters)
  BY DEF Characters
<1>3. QED
  BY <1>1, <1>2 DEF Endings

\* A text is joined to a source.
LEMMA SourceIsSource ==
  ASSUME NEW ending \in Endings, NEW text \in Texts
  PROVE  Source(ending, text) \in Seq(Characters)
<1> DEFINE S == {n \in Nat : \A u \in Texts : Len(u) = n => Source(ending, u) \in Seq(Characters)}
<1>1. 1 \in S
  BY TextsAre, SourceOfOne, LinesAreSources
<1>2. ASSUME NEW n \in 1..(Len(text) - 1), n \in S
      PROVE  n + 1 \in S
  <2>1. ASSUME NEW u \in Texts, Len(u) = n + 1
        PROVE  Source(ending, u) \in Seq(Characters)
    <3>1. PICK v \in Texts, line \in Line : u = Append(v, line) /\ Len(v) = n
      <4>1. Len(u) # 1 /\ Len(u) - 1 = n
        BY <2>1
      <4>2. QED
        BY <4>1, TextsAre
    <3>2. Source(ending, v) \in Seq(Characters)
      BY <1>2, <3>1
    <3>3. Source(ending, u) = Source(ending, v) \o ending \o line
      BY <3>1, SourceOfAppend
    <3>4. QED
      BY <3>2, <3>3, LinesAreSources, ConcatProperties
  <2>2. QED
    BY <2>1
<1> HIDE DEF S
<1>3. Len(text) \in Nat \ {0}
  BY TextsAre
<1>4. \A n \in 1..Len(text) : n \in S
  BY ONLY <1>1, <1>2, <1>3, Counting
<1>5. QED
  BY <1>3, <1>4 DEF S

\* Lines after lines.
LEMMA SourceOfConcat ==
  ASSUME NEW ending \in Endings, NEW first \in Texts, NEW second \in Texts
  PROVE  /\ first \o second \in Texts
         /\ Source(ending, first \o second)
              = (Source(ending, first) \o ending) \o Source(ending, second)
<1> DEFINE Is(u) == /\ first \o u \in Texts
                    /\ Source(ending, first \o u)
                         = (Source(ending, first) \o ending) \o Source(ending, u)
           S == {n \in Nat : \A u \in Texts : Len(u) = n => Is(u)}
<1>1. first \in Seq(Line) /\ Len(first) \in Nat \ {0}
  BY TextsAre
<1>2. ASSUME NEW u \in Seq(Line)
      PROVE  first \o u \in Texts
  <2>1. first \o u \in Seq(Line) /\ Len(first \o u) = Len(first) + Len(u) /\ Len(u) \in Nat
    BY <1>1, ConcatProperties, LenProperties
  <2>2. Len(first \o u) # 0
    BY <1>1, <2>1
  <2>3. first \o u # <<>>
    BY <2>2, EmptySeq
  <2>4. QED
    BY <2>1, <2>3 DEF Texts
<1>3. 1 \in S
  <2>1. ASSUME NEW u \in Texts, Len(u) = 1
        PROVE  Is(u)
    <3>1. PICK line \in Line : u = <<line>>
      BY <2>1, TextsAre
    <3>2. first \o u = Append(first, line)
      BY <1>1, <3>1, AppendIsConcat
    <3>3. Source(ending, first \o u) = Source(ending, first) \o ending \o line
      BY <3>2, SourceOfAppend
    <3>4. Source(ending, u) = line
      BY <3>1, SourceOfOne
    <3>5. u \in Seq(Line)
      BY TextsAre
    <3>6. QED
      BY <1>2, <3>3, <3>4, <3>5
  <2>2. QED
    BY <2>1
<1>4. ASSUME NEW n \in 1..(Len(second) - 1), n \in S
      PROVE  n + 1 \in S
  <2>1. ASSUME NEW u \in Texts, Len(u) = n + 1
        PROVE  Is(u)
    <3>1. PICK v \in Texts, line \in Line : u = Append(v, line) /\ Len(v) = n
      <4>1. Len(u) # 1 /\ Len(u) - 1 = n
        BY <2>1
      <4>2. QED
        BY <4>1, TextsAre
    <3>2. Is(v)
      BY <1>4, <3>1
    <3>3. v \in Seq(Line) /\ u \in Seq(Line)
      BY TextsAre
    <3>4. first \o u = Append(first \o v, line)
      BY ONLY <1>1, <3>1, <3>3, line \in Line, OneMore
    <3>5. /\ Source(ending, first \o u) = Source(ending, first \o v) \o ending \o line
          /\ Source(ending, u) = Source(ending, v) \o ending \o line
      <4> HIDE DEF S
      <4>1. first \o v \in Texts
        BY <3>2
      <4> HIDE DEF Is
      <4>2. Source(ending, Append(first \o v, line)) = Source(ending, first \o v) \o ending \o line
        BY ONLY <4>1, line \in Line, SourceOfAppend
      <4>3. Source(ending, Append(v, line)) = Source(ending, v) \o ending \o line
        BY ONLY v \in Texts, line \in Line, SourceOfAppend
      <4>4. QED
        BY ONLY <3>1, <3>4, <4>2, <4>3, Zenon
    <3> DEFINE a == Source(ending, first) \o ending
               b == Source(ending, v)
               c == ending \o line
    <3>6. /\ a \in Seq(Characters) /\ b \in Seq(Characters) /\ c \in Seq(Characters)
          /\ b \o ending \o line = b \o c
          /\ (a \o b) \in Seq(Characters)
          /\ (a \o b) \o ending \o line = (a \o b) \o c
      <4>1. /\ ending \in Seq(Characters) /\ line \in Seq(Characters)
            /\ Source(ending, first) \in Seq(Characters) /\ b \in Seq(Characters)
        BY LinesAreSources, SourceIsSource
      <4> HIDE DEF b
      <4>2. a \in Seq(Characters) /\ c \in Seq(Characters)
        BY <4>1, ConcatProperties
      <4> HIDE DEF a
      <4>3. a \o b \in Seq(Characters)
        BY <4>1, <4>2, ConcatProperties
      <4>4. b \o ending \o line = b \o (ending \o line)
        BY ONLY <4>1, ConcatAssociative
      <4>5. (a \o b) \o ending \o line = (a \o b) \o (ending \o line)
        <5> DEFINE ab == a \o b
        <5>1. ab \in Seq(Characters)
          BY <4>3
        <5> HIDE DEF ab
        <5>2. ab \o ending \o line = ab \o (ending \o line)
          BY ONLY <4>1, <5>1, ConcatAssociative, SMTT(30)
        <5>3. QED
          BY <5>2 DEF ab
      <4>6. QED
        BY <4>1, <4>2, <4>3, <4>4, <4>5
    <3>7. (a \o b) \o c = a \o (b \o c)
      <4> HIDE DEF a, b, c
      <4>1. QED
        BY <3>6, ConcatAssociative, SMTT(30)
    <3>8. Source(ending, first \o v) = a \o b
      BY <3>2
    <3>9. Source(ending, first \o u) = a \o Source(ending, u)
      <4> HIDE DEF a, b, c, Is
      <4>1. Source(ending, first \o u) = (a \o b) \o c /\ Source(ending, u) = b \o c
        BY <3>5, <3>6, <3>8 DEF b
      <4>2. QED
        BY <3>7, <4>1
    <3>10. QED
      BY <1>2, <3>3, <3>9
  <2>2. QED
    BY <2>1
<1> HIDE DEF S
<1>5. Len(second) \in Nat \ {0}
  BY TextsAre
<1>6. \A n \in 1..Len(second) : n \in S
  BY ONLY <1>3, <1>4, <1>5, Counting
<1>7. QED
  BY <1>5, <1>6 DEF S

\* A line may be divided: what is before, in the lines before it, and what is
\* after, in the lines after it.
LEMMA SourceDivides ==
  ASSUME NEW ending \in Endings, NEW front \in Seq(Line), NEW x \in Line, NEW y \in Line
  PROVE  /\ Append(front, x) \in Texts /\ Append(front, x \o y) \in Texts
         /\ Source(ending, Append(front, x \o y)) = Source(ending, Append(front, x)) \o y
<1>1. x \o y \in Line /\ x \in Seq(Characters) /\ y \in Seq(Characters)
      /\ ending \in Seq(Characters)
  BY ConcatProperties, LinesAreSources DEF Line
<1>2. Append(front, x) \in Texts /\ Append(front, x \o y) \in Texts
  BY <1>1, AppendProperties DEF Texts
<1>3. CASE front = <<>>
  <2>1. Append(front, x) = <<x>> /\ Append(front, x \o y) = <<x \o y>>
    BY <1>3
  <2>2. QED
    BY <1>2, <2>1, SourceOfOne
<1>4. CASE front # <<>>
  <2>1. front \in Texts
    BY <1>4 DEF Texts
  <2> DEFINE p == Source(ending, front) \o ending
             xy == x \o y
  <2>2. Source(ending, Append(front, x)) = p \o x
    BY <2>1, SourceOfAppend
  <2>3. Source(ending, Append(front, xy)) = p \o xy
    <3>1. xy \in Line
      BY <1>1
    <3> HIDE DEF xy
    <3>2. QED
      BY <2>1, <3>1, SourceOfAppend
  <2>4. p \in Seq(Characters)
    BY <1>1, <2>1, SourceIsSource, ConcatProperties
  <2> HIDE DEF p
  <2>5. (p \o x) \o y = p \o (x \o y)
    BY ONLY <1>1, <2>4, ConcatAssociative, SMTT(30)
  <2>6. QED
    BY <1>2, <2>2, <2>3, <2>5
<1>5. QED
  BY <1>3, <1>4

\* A text is joined like one text and then another.
Splits(ending, both, first, second) ==
  Source(ending, both) = Source(ending, first) \o Source(ending, second)

\* So it is with more lines after it.
LEMMA SplitGoesOn ==
  ASSUME NEW ending \in Endings, NEW first \in Texts, NEW second \in Texts, NEW both \in Texts,
         Splits(ending, both, first, second), NEW back \in Seq(Line)
  PROVE  /\ both \o back \in Texts /\ second \o back \in Texts
         /\ Splits(ending, both \o back, first, second \o back)
<1> DEFINE f == Source(ending, first)
           s == Source(ending, second)
           fs == f \o s
           b == Source(ending, back)
           se == s \o ending
<1>1. f \in Seq(Characters) /\ s \in Seq(Characters) /\ ending \in Seq(Characters)
  BY LinesAreSources, SourceIsSource
<1>2. Source(ending, both) = fs
  BY DEF Splits
<1>3. CASE back = <<>>
  <2>1. both \o back = both /\ second \o back = second
    BY <1>3, TextsAre, ConcatEmptySeq
  <2>2. QED
    BY <2>1
<1>4. CASE back # <<>>
  <2>1. back \in Texts
    BY <1>4 DEF Texts
  <2>2. both \o back \in Texts
        /\ Source(ending, both \o back) = (Source(ending, both) \o ending) \o b
    BY ONLY ending \in Endings, both \in Texts, <2>1, SourceOfConcat
  <2>3. second \o back \in Texts /\ Source(ending, second \o back) = se \o b
    BY ONLY ending \in Endings, second \in Texts, <2>1, SourceOfConcat
  <2>4. b \in Seq(Characters)
    BY <2>1, SourceIsSource
  <2> HIDE DEF f, s, b
  <2>5. se \in Seq(Characters)
    BY <1>1, ConcatProperties
  <2>6. fs \o ending = f \o se
    BY ONLY <1>1, ConcatAssociative
  <2> HIDE DEF fs, se
  <2>7. (f \o se) \o b = f \o (se \o b)
    BY ONLY <1>1, <2>4, <2>5, ConcatAssociative, SMTT(30)
  <2>8. Source(ending, both \o back) = f \o Source(ending, second \o back)
    BY ONLY <1>2, <2>2, <2>3, <2>6, <2>7, Zenon
  <2>9. QED
    BY <2>2, <2>3, <2>8 DEF f, Splits
<1>5. QED
  BY <1>3, <1>4

-----------------------------------------------------------------------------
(* Places.                                                                 *)

\* What is before a place and what is after it.
Before(text, at) == Append(SubSeq(text, 1, at[1] - 1), SubSeq(text[at[1]], 1, at[2]))
After(text, at) ==
  <<SubSeq(text[at[1]], at[2] + 1, Len(text[at[1]]))>> \o SubSeq(text, at[1] + 1, Len(text))

\* A place is a line of the text and a column of that line.
LEMMA PlaceIs ==
  ASSUME NEW text \in Texts, NEW at \in Places(text)
  PROVE  /\ at[1] \in 1..Len(text) /\ text[at[1]] \in Line
         /\ Len(text[at[1]]) \in Nat /\ at[2] \in 0..Len(text[at[1]])
         /\ at = <<at[1], at[2]>>
<1>1. PICK l \in 1..Len(text) : at \in {<<l, c>> : c \in 0..Len(text[l])}
  BY DEF Places
<1>2. PICK c \in 0..Len(text[l]) : at = <<l, c>>
  BY <1>1
<1>3. at[1] = l /\ at[2] = c
  BY <1>2
<1>4. text[l] \in Line
  BY TextsAre, ElementOfSeq
<1>5. Len(text[l]) \in Nat
  BY <1>4, LenProperties DEF Line
<1>6. QED
  BY <1>1, <1>2, <1>3, <1>4, <1>5

\* The lines before a place, the parts of its line, and the lines after it.
LEMMA PartsAre ==
  ASSUME NEW text \in Texts, NEW at \in Places(text)
  PROVE  /\ SubSeq(text, 1, at[1] - 1) \in Seq(Line)
         /\ Len(SubSeq(text, 1, at[1] - 1)) = at[1] - 1
         /\ SubSeq(text, at[1] + 1, Len(text)) \in Seq(Line)
         /\ SubSeq(text[at[1]], 1, at[2]) \in Line
         /\ Len(SubSeq(text[at[1]], 1, at[2])) = at[2]
         /\ SubSeq(text[at[1]], at[2] + 1, Len(text[at[1]])) \in Line
         /\ SubSeq(text[at[1]], 1, at[2]) \o SubSeq(text[at[1]], at[2] + 1, Len(text[at[1]]))
              = text[at[1]]
         /\ Append(SubSeq(text, 1, at[1] - 1), text[at[1]]) \o SubSeq(text, at[1] + 1, Len(text))
              = text
<1> DEFINE l == at[1]
           c == at[2]
           line == text[l]
<1>1. /\ text \in Seq(Line) /\ Len(text) \in Nat
      /\ l \in 1..Len(text) /\ line \in Line /\ Len(line) \in Nat /\ c \in 0..Len(line)
  BY TextsAre, PlaceIs
<1>2. /\ \A i \in 1..Len(text) : text[i] \in Line
      /\ line \in Seq(Characters \ {"cr", "lf"})
      /\ \A i \in 1..Len(line) : line[i] \in Characters \ {"cr", "lf"}
  BY <1>1, ElementOfSeq DEF Line
<1> HIDE DEF l, c, line
<1>3. /\ SubSeq(text, 1, l - 1) \in Seq(Line)
      /\ Len(SubSeq(text, 1, l - 1)) = l - 1
  <2>1. l - 1 \in Int /\ \A i \in 1..(l - 1) : text[i] \in Line
    BY <1>1, <1>2
  <2>2. (IF 1 <= l - 1 THEN (l - 1) - 1 + 1 ELSE 0) = l - 1
    BY ONLY <1>1
  <2>3. QED
    BY ONLY <2>1, <2>2, SubSeqProperties
<1>4. SubSeq(text, l + 1, Len(text)) \in Seq(Line)
  <2>1. l + 1 \in Int /\ Len(text) \in Int /\ \A i \in (l + 1)..Len(text) : text[i] \in Line
    BY <1>1, <1>2
  <2>2. QED
    BY ONLY <2>1, SubSeqProperties
<1>5. SubSeq(line, 1, c) \in Line /\ Len(SubSeq(line, 1, c)) = c
  <2>1. c \in Int /\ \A i \in 1..c : line[i] \in Characters \ {"cr", "lf"}
    BY <1>1, <1>2
  <2>2. (IF 1 <= c THEN c - 1 + 1 ELSE 0) = c
    BY ONLY <1>1
  <2>3. QED
    BY ONLY <2>1, <2>2, SubSeqProperties DEF Line
<1>6. SubSeq(line, c + 1, Len(line)) \in Line
  <2>1. c + 1 \in Int /\ Len(line) \in Int
        /\ \A i \in (c + 1)..Len(line) : line[i] \in Characters \ {"cr", "lf"}
    BY <1>1, <1>2
  <2>2. QED
    BY ONLY <2>1, SubSeqProperties DEF Line
<1>7. SubSeq(line, 1, c) \o SubSeq(line, c + 1, Len(line)) = line
  <2>1. /\ 1 \in 1..(Len(line) + 1) /\ c \in (1 - 1)..Len(line)
        /\ Len(line) \in c..Len(line)
    BY <1>1
  <2>2. SubSeq(line, 1, c) \o SubSeq(line, c + 1, Len(line)) = SubSeq(line, 1, Len(line))
    BY ONLY <1>2, <2>1, ConcatAdjacentSubSeq
  <2>3. SubSeq(line, 1, Len(line)) = line
    BY <1>2, SubSeqFull
  <2>4. QED
    BY <2>2, <2>3
<1>8. Append(SubSeq(text, 1, l - 1), line) \o SubSeq(text, l + 1, Len(text)) = text
  <2>1. Append(SubSeq(text, 1, l - 1), line) = SubSeq(text, 1, l)
    <3>1. 1 \in 1..Len(text) /\ l \in 1..Len(text)
      BY <1>1
    <3>2. SubSeq(text, 1, l) = SubSeq(text, 1, l - 1) \o <<text[l]>>
      BY ONLY <1>1, <3>1, SubSeqRecursiveSecond
    <3>3. Append(SubSeq(text, 1, l - 1), line) = SubSeq(text, 1, l - 1) \o <<line>>
      BY <1>1, <1>3, AppendIsConcat
    <3>4. QED
      BY <3>2, <3>3 DEF line
  <2>2. /\ 1 \in 1..(Len(text) + 1) /\ l \in (1 - 1)..Len(text)
        /\ Len(text) \in l..Len(text)
    BY <1>1
  <2>3. SubSeq(text, 1, l) \o SubSeq(text, l + 1, Len(text)) = SubSeq(text, 1, Len(text))
    BY ONLY <1>1, <2>2, ConcatAdjacentSubSeq
  <2>4. SubSeq(text, 1, Len(text)) = text
    BY <1>1, SubSeqFull
  <2>5. QED
    BY <2>1, <2>3, <2>4
<1>9. QED
  BY <1>3, <1>4, <1>5, <1>6, <1>7, <1>8 DEF l, c, line

\* The source of a text is that of what is before a place and of what is after.
LEMMA SourceAtPlace ==
  ASSUME NEW ending \in Endings, NEW text \in Texts, NEW at \in Places(text)
  PROVE  /\ Before(text, at) \in Texts /\ After(text, at) \in Texts
         /\ Splits(ending, text, Before(text, at), After(text, at))
<1> DEFINE front == SubSeq(text, 1, at[1] - 1)
           back == SubSeq(text, at[1] + 1, Len(text))
           x == SubSeq(text[at[1]], 1, at[2])
           y == SubSeq(text[at[1]], at[2] + 1, Len(text[at[1]]))
<1>1. /\ front \in Seq(Line) /\ back \in Seq(Line) /\ x \in Line /\ y \in Line
      /\ Append(front, x \o y) \o back = text
  BY PartsAre
<1> DEFINE one == <<y>>
           fx == Append(front, x)
           fxy == Append(front, x \o y)
<1>2. /\ Before(text, at) = fx /\ After(text, at) = one \o back
      /\ one = <<y>> /\ fx = Append(front, x) /\ fxy = Append(front, x \o y)
  BY DEF Before, After
<1> HIDE DEF front, back, x, y, fx, fxy
<1>3. fx \in Texts /\ fxy \in Texts /\ Source(ending, fxy) = Source(ending, fx) \o y
  BY ONLY ending \in Endings, <1>1, <1>2, SourceDivides
<1>4. one \in Texts /\ Source(ending, one) = y
  BY <1>1, SourceOfOne DEF Texts
<1> HIDE DEF one
<1>5. /\ one \o back \in Texts
      /\ Splits(ending, fxy \o back, fx, one \o back)
  <2>1. Splits(ending, fxy, fx, one)
    BY <1>3, <1>4 DEF Splits
  <2>2. QED
    BY ONLY ending \in Endings, <1>1, <1>3, <1>4, <2>1, SplitGoesOn
<1>6. QED
  BY <1>1, <1>2, <1>3, <1>5

-----------------------------------------------------------------------------
(* Edits.                                                                  *)

\* To change the first of what is appended, or the last.
WithFirst(q, e) == [q EXCEPT ![1] = e]
WithLast(q, e) == [q EXCEPT ![Len(q)] = e]

\* The first line and the rest.
LEMMA FirstIs ==
  ASSUME NEW q \in Seq(Line), q # <<>>
  PROVE  q[1] \in Line /\ Tail(q) \in Seq(Line) /\ q = <<q[1]>> \o Tail(q)
<1>1. Len(q) \in Nat \ {0} /\ Len(q) \in 1..Len(q) /\ 1 \in 1..Len(q)
  BY EmptySeq
<1>2. q[1] \in Line /\ SubSeq(q, 1, Len(q)) = <<q[1]>> \o SubSeq(q, 1 + 1, Len(q))
  BY <1>1, ElementOfSeq, SubSeqRecursiveFirst
<1>3. q = <<q[1]>> \o Tail(q)
  <2>1. SubSeq(q, 1, Len(q)) = q
    BY SubSeqFull
  <2>2. Tail(q) = SubSeq(q, 2, Len(q)) /\ 1 + 1 = 2
    BY TailIsSubSeq
  <2>3. QED
    BY ONLY <1>2, <2>1, <2>2, Zenon
<1>4. QED
  BY <1>2, <1>3, HeadTailProperties

\* Lines with another first line ...
LEMMA FirstSet ==
  ASSUME NEW q \in Seq(Line), q # <<>>, NEW e \in Line
  PROVE  WithFirst(q, e) \in Seq(Line) /\ Len(WithFirst(q, e)) = Len(q)
<1>1. 1 \in 1..Len(q)
  BY EmptySeq
<1>2. QED
  BY <1>1, ExceptSeq DEF WithFirst

\* ... and the last of some lines.
LEMMA LastSet ==
  ASSUME NEW q \in Seq(Line), q # <<>>
  PROVE  q[Len(q)] \in Line
<1>1. Len(q) \in 1..Len(q)
  BY EmptySeq
<1>2. QED
  BY <1>1, ElementOfSeq

\* What takes the place of a first line follows what is before the lines.
LEMMA FirstChanged ==
  ASSUME NEW p \in Seq(Line), NEW q \in Seq(Line), q # <<>>, NEW e \in Line
  PROVE  Append(p, e) \o Tail(q) = p \o WithFirst(q, e)
<1> DEFINE m == Len(p)
           n == Len(q)
           t == Tail(q)
           f == [q EXCEPT ![1] = e]
           pe == Append(p, e)
           left == pe \o t
           right == p \o f
<1>1. m \in Nat /\ n \in Nat \ {0} /\ n \in 1..Len(q) /\ 1 \in 1..Len(q)
  BY EmptySeq, LenProperties
<1>2. t \in Seq(Line) /\ Len(t) = n - 1 /\ \A i \in 1..(n - 1) : t[i] = q[i + 1]
  BY HeadTailProperties
<1>5. f \in Seq(Line) /\ Len(f) = n /\ \A i \in 1..n : f[i] = IF i = 1 THEN e ELSE q[i]
  BY <1>1, ExceptSeq
<1>6. pe \in Seq(Line) /\ Len(pe) = m + 1 /\ pe[m + 1] = e /\ \A i \in 1..m : pe[i] = p[i]
  BY AppendProperties
<1> HIDE DEF m, n, t, f, pe
<1>7. /\ left \in Seq(Line) /\ Len(left) = (m + 1) + (n - 1)
      /\ \A i \in 1..((m + 1) + (n - 1)) :
           left[i] = IF i <= m + 1 THEN pe[i] ELSE t[i - (m + 1)]
  <2>1. /\ left \in Seq(Line) /\ Len(left) = Len(pe) + Len(t)
        /\ \A i \in 1..(Len(pe) + Len(t)) :
             left[i] = IF i <= Len(pe) THEN pe[i] ELSE t[i - Len(pe)]
    BY ONLY <1>2, <1>6, ConcatProperties
  <2>2. QED
    BY ONLY <1>2, <1>6, <2>1, Zenon
<1>8. /\ right \in Seq(Line) /\ Len(right) = m + n
      /\ \A i \in 1..(m + n) : right[i] = IF i <= m THEN p[i] ELSE f[i - m]
  BY <1>5, ConcatProperties DEF m
<1> HIDE DEF left, right
<1>9. Len(left) = Len(right)
  BY ONLY <1>1, <1>7, <1>8
<1>10. ASSUME NEW i \in 1..Len(left)
       PROVE  left[i] = right[i]
  <2>1. i \in 1..(m + n) /\ i \in 1..((m + 1) + (n - 1)) /\ i \in Nat
    BY ONLY <1>1, <1>7, i \in 1..Len(left)
  <2>2. CASE i <= m
    <3>1. i <= m + 1 /\ i \in 1..m
      BY ONLY <1>1, <2>1, <2>2
    <3>2. left[i] = p[i] /\ right[i] = p[i]
      BY <1>6, <1>7, <1>8, <2>1, <2>2, <3>1
    <3>3. QED
      BY <3>2
  <2>3. CASE i = m + 1
    <3>1. i <= m + 1 /\ ~(i <= m) /\ i - m = 1 /\ 1 \in 1..n
      BY ONLY <1>1, <2>1, <2>3
    <3>2. left[i] = e /\ right[i] = f[1] /\ f[1] = e
      BY <1>5, <1>6, <1>7, <1>8, <2>1, <2>3, <3>1
    <3>3. QED
      BY <3>2
  <2>4. CASE i > m + 1
    <3>1. /\ ~(i <= m + 1) /\ ~(i <= m) /\ i - (m + 1) \in 1..(n - 1)
          /\ (i - (m + 1)) + 1 = i - m /\ i - m # 1 /\ i - m \in 1..n
      BY ONLY <1>1, <2>1, <2>4
    <3>2. left[i] = t[i - (m + 1)] /\ right[i] = f[i - m]
      BY ONLY <1>7, <1>8, <2>1, <3>1
    <3>3. t[i - (m + 1)] = q[(i - (m + 1)) + 1] /\ f[i - m] = q[i - m]
      BY ONLY <1>2, <1>5, <3>1
    <3>4. QED
      BY ONLY <3>1, <3>2, <3>3, Zenon
  <2>5. i <= m \/ i = m + 1 \/ i > m + 1
    BY ONLY <1>1, <2>1
  <2>6. QED
    BY <2>2, <2>3, <2>4, <2>5
<1>11. left = right
  BY ONLY <1>7, <1>8, <1>9, <1>10, SeqEqual
<1>12. QED
  BY <1>11 DEF left, right, pe, t, f, WithFirst

\* Lines that differ in their last one only have the same lines in front of it.
LEMMA LastChanged ==
  ASSUME NEW p \in Seq(Line), NEW q \in Seq(Line), q # <<>>, NEW e \in Line
  PROVE  \E front \in Seq(Line) : /\ p \o q = Append(front, q[Len(q)])
                                  /\ p \o WithLast(q, e) = Append(front, e)
<1> DEFINE n == Len(q)
           y == q[n]
           t == SubSeq(q, 1, n - 1)
           f == [q EXCEPT ![n] = e]
<1>1. n \in Nat \ {0} /\ n \in 1..Len(q) /\ 1 \in 1..Len(q) /\ n - 1 \in Nat
  BY EmptySeq
<1>2. y \in Line /\ f \in Seq(Line) /\ Len(f) = n
      /\ \A i \in 1..n : f[i] = IF i = n THEN e ELSE q[i]
  BY <1>1, ElementOfSeq, ExceptSeq
<1>3. t \in Seq(Line) /\ Len(t) = n - 1 /\ \A i \in 1..(n - 1) : t[i] = q[i]
  <2>1. n - 1 \in Int /\ \A i \in 1..(n - 1) : q[i] \in Line
    BY <1>1, ElementOfSeq
  <2>2. (IF 1 <= n - 1 THEN (n - 1) - 1 + 1 ELSE 0) = n - 1 /\ (n - 1) - 1 + 1 = n - 1
    <3>1. n - 1 \in Nat /\ n \in Nat
      BY <1>1
    <3> HIDE DEF n
    <3>2. QED
      BY ONLY <3>1
  <2>3. /\ SubSeq(q, 1, n - 1) \in Seq(Line)
        /\ Len(SubSeq(q, 1, n - 1)) = IF 1 <= n - 1 THEN (n - 1) - 1 + 1 ELSE 0
        /\ \A i \in 1..((n - 1) - 1 + 1) : SubSeq(q, 1, n - 1)[i] = q[1 + i - 1]
    BY ONLY <2>1, SubSeqProperties
  <2>4. \A i \in Int : 1 + i - 1 = i
    OBVIOUS
  <2> HIDE DEF n
  <2>5. QED
    BY ONLY <2>2, <2>3, <2>4
<1>4. q = Append(t, y)
  <2>1. SubSeq(q, 1, n) = SubSeq(q, 1, n - 1) \o <<q[n]>>
    BY <1>1, SubSeqRecursiveSecond
  <2>2. SubSeq(q, 1, n) = q
    BY SubSeqFull
  <2> HIDE DEF n, y, t
  <2>3. Append(t, y) = t \o <<y>>
    BY <1>2, <1>3, AppendIsConcat
  <2>4. QED
    BY ONLY <2>1, <2>2, <2>3, Zenon DEF t, y
<1>5. f = Append(t, e)
  <2> DEFINE te == Append(t, e)
  <2> HIDE DEF n, y, t, f
  <2>1. te \in Seq(Line) /\ Len(te) = (n - 1) + 1 /\ te[(n - 1) + 1] = e
        /\ \A i \in 1..(n - 1) : te[i] = t[i]
    BY <1>3, AppendProperties
  <2> HIDE DEF te
  <2>2. (n - 1) + 1 = n
    BY ONLY <1>1
  <2>3. ASSUME NEW i \in 1..Len(f)
        PROVE  f[i] = te[i]
    <3>1. i \in 1..n /\ (i # n => i \in 1..(n - 1))
      <4>1. i \in 1..n /\ n \in Nat
        BY ONLY <1>1, <1>2, i \in 1..Len(f), Zenon
      <4>2. QED
        BY ONLY <4>1
    <3>2. QED
      BY ONLY <1>2, <1>3, <2>1, <2>2, <3>1
  <2>4. QED
    BY <1>2, <2>1, <2>2, <2>3, SeqEqual DEF te
<1> HIDE DEF n, y, t, f
<1>6. p \o t \in Seq(Line)
  BY <1>3, ConcatProperties
<1>7. p \o q = Append(p \o t, y)
  BY ONLY <1>2, <1>3, <1>4, p \in Seq(Line), OneMore
<1>8. p \o f = Append(p \o t, e)
  BY ONLY <1>3, <1>5, p \in Seq(Line), e \in Line, OneMore
<1>9. QED
  BY <1>2, <1>6, <1>7, <1>8 DEF f, y, n, WithLast

\* An edit leaves what was before it, puts in what is inserted, and leaves what
\* was after it, wherever the lines are glued together.
LEMMA SourceOfEdited ==
  ASSUME NEW ending \in Endings, NEW text \in Texts,
         NEW from \in Places(text), NEW to \in Places(text), NEW insert \in Texts
  PROVE  /\ Edited(text, from, to, insert) \in Texts
         /\ Source(ending, Edited(text, from, to, insert))
              = (Source(ending, Before(text, from)) \o Source(ending, insert))
                  \o Source(ending, After(text, to))
<1> DEFINE front == SubSeq(text, 1, from[1] - 1)
           back == SubSeq(text, to[1] + 1, Len(text))
           before == SubSeq(text[from[1]], 1, from[2])
           after == SubSeq(text[to[1]], to[2] + 1, Len(text[to[1]]))
           z == insert[1]
           bz == before \o z
           glued == WithFirst(insert, bz)
           last == glued[Len(glued)]
           la == last \o after
           ends == WithLast(glued, la)
           begun == front \o glued
<1>1. front \in Seq(Line) /\ back \in Seq(Line) /\ before \in Line /\ after \in Line
  BY PartsAre
<1>2. Edited(text, from, to, insert) = (front \o ends) \o back
  BY DEF Edited, WithFirst, WithLast
<1>3. insert \in Seq(Line) /\ insert # <<>> /\ Len(insert) \in Nat \ {0}
  BY TextsAre DEF Texts
<1>4. Before(text, from) = Append(front, before) /\ After(text, to) = <<after>> \o back
  BY DEF Before, After
<1> HIDE DEF front, back, before, after
<1>5. z \in Line
  BY <1>3, ElementOfSeq
<1>6. bz \in Line
  BY <1>1, <1>5, ConcatProperties DEF Line
<1> HIDE DEF z
<1>7. /\ Tail(insert) \in Seq(Line) /\ insert = <<z>> \o Tail(insert)
      /\ Append(front, bz) \o Tail(insert) = begun
      /\ glued \in Seq(Line) /\ Len(glued) = Len(insert)
  <2> HIDE DEF bz, glued
  <2>1. front \in Seq(Line) /\ insert \in Seq(Line) /\ insert # <<>> /\ bz \in Line
    BY <1>1, <1>3, <1>6
  <2>2. Tail(insert) \in Seq(Line) /\ insert = <<insert[1]>> \o Tail(insert)
    BY ONLY <2>1, FirstIs
  <2>3. glued \in Seq(Line) /\ Len(glued) = Len(insert)
    BY ONLY <2>1, FirstSet DEF glued
  <2>4. Append(front, bz) \o Tail(insert) = begun
    BY ONLY <2>1, FirstChanged DEF glued
  <2>5. QED
    BY ONLY <2>2, <2>3, <2>4, Zenon DEF z
<1>8. begun \in Texts /\ Splits(ending, begun, Append(front, before), insert)
  <2> DEFINE one == <<z>>
             fb == Append(front, before)
             fbz == Append(front, bz)
  <2>1. fb \in Texts /\ fbz \in Texts /\ Source(ending, fbz) = Source(ending, fb) \o z
    BY ONLY ending \in Endings, <1>1, <1>5, SourceDivides
  <2>2. one \in Texts /\ Source(ending, one) = z
    BY <1>5, SourceOfOne DEF Texts
  <2> HIDE DEF one, fb, fbz
  <2>3. Splits(ending, fbz, fb, one)
    BY <2>1, <2>2 DEF Splits
  <2>4. fbz \o Tail(insert) \in Texts /\ Splits(ending, fbz \o Tail(insert), fb, one \o Tail(insert))
    BY ONLY ending \in Endings, <1>7, <2>1, <2>2, <2>3, SplitGoesOn
  <2> HIDE DEF begun
  <2>5. QED
    BY ONLY <1>7, <2>4, Zenon DEF one, fb, fbz
<1>9. glued # <<>>
  <2> HIDE DEF glued
  <2>1. QED
    BY ONLY <1>3, <1>7, EmptySeq
<1> HIDE DEF bz, glued
<1>10. last \in Line
  BY <1>7, <1>9, LastSet
<1>11. la \in Line
  BY <1>1, <1>10, ConcatProperties DEF Line
<1> HIDE DEF la
<1>12. PICK most \in Seq(Line) : begun = Append(most, last) /\ front \o ends = Append(most, la)
  <2>1. front \in Seq(Line) /\ glued \in Seq(Line) /\ glued # <<>> /\ la \in Line
    BY <1>1, <1>7, <1>9, <1>11
  <2>2. \E most \in Seq(Line) : /\ front \o glued = Append(most, glued[Len(glued)])
                                /\ front \o WithLast(glued, la) = Append(most, la)
    BY ONLY <2>1, LastChanged
  <2>3. QED
    BY ONLY <2>2, Zenon
<1> HIDE DEF last, ends, begun
<1>13. front \o ends \in Texts /\ Source(ending, front \o ends) = Source(ending, begun) \o after
  <2>1. Append(most, last) \in Texts /\ Append(most, last \o after) \in Texts
    BY ONLY ending \in Endings, <1>1, <1>10, most \in Seq(Line), SourceDivides
  <2>2. Source(ending, Append(most, last \o after))
          = Source(ending, Append(most, last)) \o after
    BY ONLY ending \in Endings, <1>1, <1>10, most \in Seq(Line), SourceDivides
  <2>3. QED
    BY ONLY <1>12, <2>1, <2>2, Zenon DEF la
<1>14. /\ (front \o ends) \o back \in Texts
       /\ Splits(ending, (front \o ends) \o back, begun, <<after>> \o back)
  <2> DEFINE one == <<after>>
             fe == front \o ends
  <2>1. one \in Texts /\ Source(ending, one) = after
    BY <1>1, SourceOfOne DEF Texts
  <2>2. fe \in Texts /\ Splits(ending, fe, begun, one)
    BY <1>13, <2>1 DEF Splits
  <2> HIDE DEF one, fe
  <2>3. fe \o back \in Texts /\ Splits(ending, fe \o back, begun, one \o back)
    BY ONLY ending \in Endings, <1>1, <1>8, <2>1, <2>2, SplitGoesOn
  <2>4. QED
    BY <2>3 DEF one, fe
<1>15. QED
  BY ONLY <1>2, <1>4, <1>8, <1>14, Zenon DEF Splits

-----------------------------------------------------------------------------
(* Where places are in the source.                                         *)

\* A line ending is one newline, at its end.
LEMMA EndingIs ==
  ASSUME NEW ending \in Endings
  PROVE  /\ ending \in Seq(Characters) /\ Len(ending) \in Nat \ {0}
         /\ ending[Len(ending)] = "lf" /\ Cardinality(Newlines(ending)) = 1
<1>1. CASE ending = <<"lf">>
  <2>1. Len(ending) = 1 /\ ending[1] = "lf"
    BY <1>1
  <2>2. Newlines(ending) = {1}
    BY <2>1 DEF Newlines
  <2>3. Cardinality(Newlines(ending)) = 1
    BY <2>2, FS_Singleton
  <2>4. ending \in Seq(Characters)
    BY LinesAreSources
  <2>5. QED
    BY <2>1, <2>3, <2>4
<1>2. CASE ending = <<"cr", "lf">>
  <2>1. Len(ending) = 2 /\ ending[1] = "cr" /\ ending[2] = "lf"
    BY <1>2
  <2>2. Newlines(ending) = {2}
    BY <2>1 DEF Newlines
  <2>3. Cardinality(Newlines(ending)) = 1
    BY <2>2, FS_Singleton
  <2>4. ending \in Seq(Characters)
    BY LinesAreSources
  <2>5. QED
    BY <2>1, <2>3, <2>4
<1>3. QED
  BY <1>1, <1>2 DEF Endings

\* A line holds no line ending.
LEMMA LineIs ==
  ASSUME NEW x \in Line
  PROVE  /\ x \in Seq(Characters) /\ Len(x) \in Nat
         /\ \A i \in 1..Len(x) : x[i] # "cr" /\ x[i] # "lf"
         /\ Newlines(x) = {} /\ Cardinality(Newlines(x)) = 0
<1>1. x \in Seq(Characters) /\ x \in Seq(Characters \ {"cr", "lf"}) /\ Len(x) \in Nat
  BY LinesAreSources, LenProperties DEF Line
<1>2. \A i \in 1..Len(x) : x[i] \in Characters \ {"cr", "lf"}
  BY <1>1, ElementOfSeq
<1>3. Newlines(x) = {}
  BY <1>2 DEF Newlines
<1>4. QED
  BY <1>1, <1>2, <1>3, FS_EmptySet

\* Between its lines, and nowhere else, a text has line endings.
LEMMA NewlinesOfSource ==
  ASSUME NEW ending \in Endings, NEW text \in Texts
  PROVE  Cardinality(Newlines(Source(ending, text))) = Len(text) - 1
<1> DEFINE count(u) == Cardinality(Newlines(Source(ending, u)))
           S == {n \in Nat : \A u \in Texts : Len(u) = n => count(u) = n - 1}
<1>1. 1 \in S
  <2>1. ASSUME NEW u \in Texts, Len(u) = 1
        PROVE  count(u) = 0
    <3>1. PICK line \in Line : u = <<line>>
      BY <2>1, TextsAre
    <3>2. QED
      BY <3>1, SourceOfOne, LineIs
  <2>2. QED
    BY <2>1
<1>2. ASSUME NEW n \in 1..(Len(text) - 1), n \in S
      PROVE  n + 1 \in S
  <2>1. ASSUME NEW u \in Texts, Len(u) = n + 1
        PROVE  count(u) = n
    <3>1. PICK v \in Texts, line \in Line : u = Append(v, line) /\ Len(v) = n
      <4>1. Len(u) # 1 /\ Len(u) - 1 = n
        BY <2>1
      <4>2. QED
        BY <4>1, TextsAre
    <3>2. count(v) = n - 1
      BY <1>2, <3>1
    <3> DEFINE sv == Source(ending, v)
               sve == sv \o ending
    <3>3. Source(ending, u) = sve \o line
      BY <3>1, SourceOfAppend
    <3>4. sv \in Seq(Characters) /\ sve \in Seq(Characters)
      BY SourceIsSource, EndingIs, ConcatProperties
    <3> HIDE DEF sv
    <3>5. Cardinality(Newlines(sve)) = Cardinality(Newlines(sv)) + 1
      BY <3>4, EndingIs, NewlinesOfConcat
    <3> HIDE DEF sve
    <3>6. Cardinality(Newlines(sve \o line)) = Cardinality(Newlines(sve)) + 0
      BY <3>4, LineIs, NewlinesOfConcat
    <3>7. n \in Nat
      OBVIOUS
    <3>8. QED
      BY <3>2, <3>3, <3>5, <3>6, <3>7 DEF sv
  <2>2. n + 1 \in Nat /\ (n + 1) - 1 = n
    OBVIOUS
  <2>3. QED
    BY <2>1, <2>2
<1> HIDE DEF S
<1>3. Len(text) \in Nat \ {0}
  BY TextsAre
<1>4. \A n \in 1..Len(text) : n \in S
  BY ONLY <1>1, <1>2, <1>3, Counting
<1>5. QED
  BY <1>3, <1>4 DEF S

\* The units of a line are its characters, those of two units once more.
Wide(x) == {i \in 1..Len(x) : x[i] = "astral"}

\* Characters of two units count twice.
LEMMA UnitsOfLine ==
  ASSUME NEW x \in Seq(Characters)
  PROVE  IsFiniteSet(Wide(x)) /\ Units(x) = Len(x) + Cardinality(Wide(x))
<1> DEFINE Is(u) == IsFiniteSet(Wide(u)) /\ Units(u) = Len(u) + Cardinality(Wide(u))
           S == {n \in Nat : \A u \in Seq(Characters) : Len(u) = n => Is(u)}
<1>1. 0 \in S
  <2>1. ASSUME NEW u \in Seq(Characters), Len(u) = 0
        PROVE  Is(u)
    <3>1. u = <<>>
      BY <2>1, EmptySeq
    <3>2. Wide(u) = {}
      BY <2>1 DEF Wide
    <3>3. Units(u) = 0
      BY <3>1, TotalOfEmpty DEF Units
    <3>4. QED
      BY <2>1, <3>2, <3>3, FS_EmptySet
  <2>2. QED
    BY <2>1
<1>2. ASSUME NEW n \in 0..(Len(x) - 1), n \in S
      PROVE  n + 1 \in S
  <2>1. ASSUME NEW u \in Seq(Characters), Len(u) = n + 1
        PROVE  Is(u)
    <3>1. PICK v \in Seq(Characters), c \in Characters : u = Append(v, c)
      <4>1. u # <<>>
        BY <2>1, EmptySeq
      <4>2. QED
        BY <4>1, SequenceEmptyOrAppend
    <3>2. /\ Len(u) = Len(v) + 1 /\ Len(v) \in Nat
          /\ \A i \in 1..Len(v) : u[i] = v[i]
          /\ u[Len(v) + 1] = c
      BY <3>1, AppendProperties, LenProperties
    <3> DEFINE k == Len(v)
    <3> HIDE DEF k
    <3>3. k = n
      <4>1. k + 1 = n + 1 /\ k \in Nat /\ n \in Nat
        BY <2>1, <3>2 DEF k
      <4>2. QED
        BY ONLY <4>1
    <3>4. Is(v)
      BY <1>2, <3>3 DEF k
    <3>5. Wide(u) = IF c = "astral" THEN Wide(v) \cup {k + 1} ELSE Wide(v)
      <4>1. 1..(k + 1) = 1..k \cup {k + 1}
        BY <3>2 DEF k
      <4>2. QED
        BY <3>2, <4>1 DEF Wide, k
    <3>6. k + 1 \notin Wide(v)
      BY <3>2 DEF Wide, k
    <3>7. Units(u) = Units(v) + Width[c]
      BY <3>1, TotalOfAppend DEF Units
    <3>8. Cardinality(Wide(v)) \in Nat
      BY <3>4, FS_CardinalityType
    <3>9. CASE c = "astral"
      <4>1. /\ IsFiniteSet(Wide(v) \cup {k + 1})
            /\ Cardinality(Wide(v) \cup {k + 1}) = Cardinality(Wide(v)) + 1
        BY <3>4, <3>6, FS_AddElement
      <4>2. Width[c] = 2
        BY <3>9 DEF Width
      <4>3. QED
        BY <3>2, <3>4, <3>5, <3>7, <3>8, <3>9, <4>1, <4>2
    <3>10. CASE c # "astral"
      <4>1. Width[c] = 1
        BY <3>10 DEF Width
      <4>2. QED
        BY <3>2, <3>4, <3>5, <3>7, <3>8, <3>10, <4>1
    <3>11. QED
      BY <3>9, <3>10
  <2>2. QED
    BY <2>1
<1> HIDE DEF S
<1>3. Len(x) \in Nat
  BY LenProperties
<1>4. \A n \in 0..Len(x) : n \in S
  BY ONLY <1>1, <1>2, <1>3, Counting
<1>5. QED
  BY <1>3, <1>4 DEF S

\* The end of a text is on its last line, behind what that has.
LEMMA EndOfText ==
  ASSUME NEW ending \in Endings, NEW front \in Seq(Line), NEW x \in Line,
         NEW source, source = Source(ending, Append(front, x))
  PROVE  /\ source \in Seq(Characters)
         /\ PositionAt(source, Len(source)) = [line |-> Len(front), character |-> Units(x)]
         /\ Len(source) > 0 => source[Len(source)] # "cr"
<1>1. x \in Seq(Characters) /\ Len(x) \in Nat /\ Newlines(x) = {}
      /\ \A i \in 1..Len(x) : x[i] # "cr" /\ x[i] # "lf"
  BY LineIs
<1>2. PICK p \in Seq(Characters) :
        source = p \o x /\ (Len(p) > 0 => p[Len(p)] = "lf")
  <2>1. CASE front = <<>>
    <3>1. Append(front, x) = <<x>>
      BY <2>1
    <3> DEFINE none == <<>>
    <3>2. source = x /\ none \o x = x /\ none \in Seq(Characters) /\ ~(Len(none) > 0)
      BY <1>1, <3>1, SourceOfOne, ConcatEmptySeq
    <3> HIDE DEF none
    <3>3. QED
      BY <3>2
  <2>2. CASE front # <<>>
    <3> DEFINE f == Source(ending, front)
               p == f \o ending
    <3>1. front \in Texts
      BY <2>2 DEF Texts
    <3>2. source = p \o x
      BY <3>1, SourceOfAppend
    <3>3. f \in Seq(Characters) /\ Len(f) \in Nat
      BY <3>1, SourceIsSource, LenProperties
    <3> HIDE DEF f
    <3>4. ending \in Seq(Characters) /\ Len(ending) \in Nat \ {0} /\ ending[Len(ending)] = "lf"
      BY EndingIs
    <3>5. /\ p \in Seq(Characters) /\ Len(p) = Len(f) + Len(ending)
          /\ \A i \in 1..(Len(f) + Len(ending)) :
               p[i] = IF i <= Len(f) THEN f[i] ELSE ending[i - Len(f)]
      BY ONLY <3>3, <3>4, ConcatProperties
    <3> DEFINE m == Len(f)
               n == Len(ending)
    <3>6. /\ m + n \in 1..(m + n) /\ ~(m + n <= m) /\ (m + n) - m = n
      <4>1. m \in Nat /\ n \in Nat \ {0}
        BY <3>3, <3>4
      <4> HIDE DEF m, n
      <4>2. QED
        BY ONLY <4>1
    <3>7. p[Len(p)] = "lf"
      BY <3>4, <3>5, <3>6
    <3> HIDE DEF p
    <3>8. QED
      BY <3>2, <3>5, <3>7
  <2>3. QED
    BY <2>1, <2>2
<1> DEFINE m == Len(p)
           n == Len(x)
<1>3. /\ source \in Seq(Characters) /\ Len(source) = m + n
      /\ \A i \in 1..(m + n) : source[i] = IF i <= m THEN p[i] ELSE x[i - m]
  BY ONLY <1>1, <1>2, ConcatProperties
<1>4. m \in Nat /\ n \in Nat
  BY <1>1, LenProperties
<1>5. Newlines(source) = Newlines(p)
  <2>1. Newlines(p \o x) = Newlines(p) \cup {Len(p) + i : i \in Newlines(x)}
    BY <1>1, NewlinesOfConcat
  <2>2. QED
    BY ONLY <1>1, <1>2, <2>1
<1>6. Newlines(p) \in SUBSET (1..m)
  BY NewlinesAre
<1>7. m > 0 => m \in Newlines(p)
  BY <1>2, <1>4 DEF Newlines
<1> HIDE DEF m, n
<1>8. LineStart(source, m + n) = m
  <2> DEFINE start == LineStart(source, m + n)
  <2>1. /\ start \in Newlines(source) \cup {0}
        /\ \A i \in Newlines(source) : i <= m + n => i <= start
    <3>1. m + n \in Nat
      BY <1>4
    <3>2. QED
      BY <1>3, <3>1, LineStartIs
  <2> HIDE DEF start
  <2>2. start \in 0..m
    BY <1>4, <1>5, <1>6, <2>1
  <2>3. m > 0 => m <= start
    BY <1>4, <1>5, <1>7, <2>1
  <2>4. start = m
    BY ONLY <1>4, <2>2, <2>3
  <2>5. QED
    BY <2>4 DEF start
<1>9. SubSeq(source, m + 1, m + n) = x
  <2>1. 0 \in 0..Len(x)
    BY <1>1
  <2>2. SubSeq(p \o x, Len(p) + 0 + 1, Len(p) + Len(x)) = SubSeq(x, 0 + 1, Len(x))
    BY ONLY <1>1, <2>1, p \in Seq(Characters), EndOfConcat
  <2>3. Len(p) + 0 + 1 = m + 1 /\ 0 + 1 = 1 /\ Len(p) + Len(x) = m + n
    BY <1>4 DEF m, n
  <2>4. SubSeq(x, 1, Len(x)) = x
    BY <1>1, SubSeqFull
  <2>5. QED
    BY ONLY <1>2, <2>2, <2>3, <2>4, Zenon
<1>10. LineNumber(source, Len(source)) = Len(front)
  <2>1. /\ Append(front, x) \in Texts
        /\ Len(Append(front, x)) = Len(front) + 1 /\ Len(front) \in Nat
    BY AppendProperties, LenProperties DEF Texts
  <2>2. Cardinality(Newlines(source)) = Len(Append(front, x)) - 1
    BY <2>1, NewlinesOfSource
  <2>3. (Len(front) + 1) - 1 = Len(front)
    BY <2>1
  <2>4. QED
    BY <1>3, <2>1, <2>2, <2>3, LineOfEnd
<1>11. PositionAt(source, Len(source)) = [line |-> Len(front), character |-> Units(x)]
  BY <1>3, <1>8, <1>9, <1>10, Zenon DEF PositionAt
<1>12. ASSUME Len(source) > 0
       PROVE  source[Len(source)] # "cr"
  <2>1. m + n \in 1..(m + n)
    BY <1>3, <1>4, <1>12
  <2>2. CASE n = 0
    <3>1. m + n <= m /\ m + n = m /\ m > 0
      BY <1>4, <2>1, <2>2
    <3>2. source[m + n] = p[m] /\ p[m] = "lf"
      BY <1>2, <1>3, <2>1, <3>1 DEF m
    <3>3. QED
      BY <1>3, <3>2
  <2>3. CASE n # 0
    <3>1. ~(m + n <= m) /\ (m + n) - m = n /\ n \in 1..n
      BY <1>4, <2>3
    <3>2. source[m + n] = x[n]
      BY <1>3, <2>1, <3>1
    <3>3. QED
      BY <1>1, <1>3, <3>1, <3>2 DEF n
  <2>4. QED
    BY <2>2, <2>3
<1>13. QED
  BY <1>3, <1>11, <1>12

\* A place means where what is before it ends.
LEMMA PlaceMeans ==
  ASSUME NEW ending \in Endings, NEW text \in Texts, NEW at \in Places(text),
         NEW source, source = Source(ending, text),
         NEW before, before = Source(ending, Before(text, at))
  PROVE  /\ source \in Seq(Characters) /\ before \in Seq(Characters)
         /\ Len(before) \in 0..Len(source)
         /\ SubSeq(source, 1, Len(before)) = before
         /\ SubSeq(source, Len(before) + 1, Len(source)) = Source(ending, After(text, at))
         /\ ByteOffset(source, Position(text, at)) = {Len(before)}
<1> DEFINE after == Source(ending, After(text, at))
           front == SubSeq(text, 1, at[1] - 1)
           x == SubSeq(text[at[1]], 1, at[2])
<1>1. source = before \o after
  BY SourceAtPlace DEF Splits
<1>2. source \in Seq(Characters) /\ before \in Seq(Characters) /\ after \in Seq(Characters)
  BY SourceAtPlace, SourceIsSource
<1> HIDE DEF after
<1>3. /\ Len(source) = Len(before) + Len(after) /\ Len(before) \in Nat /\ Len(after) \in Nat
      /\ \A i \in 1..(Len(before) + Len(after)) :
           source[i] = IF i <= Len(before) THEN before[i] ELSE after[i - Len(before)]
  BY <1>1, <1>2, ConcatProperties, LenProperties
<1>4. Len(before) \in 0..Len(source)
  BY <1>3
<1>5. SubSeq(source, 1, Len(before)) = before
  <2>1. Len(before) \in 0..Len(before)
    BY <1>3
  <2>2. SubSeq(before \o after, 1, Len(before)) = SubSeq(before, 1, Len(before))
    BY ONLY <1>2, <2>1, EndOfConcat
  <2>3. SubSeq(before, 1, Len(before)) = before
    BY <1>2, SubSeqFull
  <2>4. QED
    BY <1>1, <2>2, <2>3
<1>6. SubSeq(source, Len(before) + 1, Len(source)) = after
  <2>1. 0 \in 0..Len(after)
    BY <1>3
  <2>2. SubSeq(before \o after, Len(before) + 0 + 1, Len(before) + Len(after))
          = SubSeq(after, 0 + 1, Len(after))
    BY ONLY <1>2, <2>1, EndOfConcat
  <2>3. Len(before) + 0 + 1 = Len(before) + 1 /\ 0 + 1 = 1
    BY <1>3
  <2>4. SubSeq(after, 1, Len(after)) = after
    BY <1>2, SubSeqFull
  <2>5. QED
    BY ONLY <1>1, <1>3, <2>2, <2>3, <2>4, Zenon
<1>7. /\ front \in Seq(Line) /\ Len(front) = at[1] - 1 /\ x \in Line /\ Len(x) = at[2]
      /\ \A i \in 1..at[2] : x[i] = text[at[1]][i]
  <2>1. front \in Seq(Line) /\ Len(front) = at[1] - 1 /\ x \in Line /\ Len(x) = at[2]
    BY PartsAre
  <2>2. text[at[1]] \in Line /\ at[2] \in 0..Len(text[at[1]]) /\ Len(text[at[1]]) \in Nat
    BY PlaceIs
  <2> DEFINE line == text[at[1]]
             c == at[2]
  <2>3. line \in Seq(Characters) /\ c \in 0..Len(line) /\ c \in Int
    BY <2>2, LinesAreSources
  <2> HIDE DEF line, c
  <2>4. \A i \in 1..(c - 1 + 1) : SubSeq(line, 1, c)[i] = line[1 + i - 1]
    BY ONLY <2>3, 1 \in Nat \ {0}, PartIs
  <2>5. c - 1 + 1 = c /\ \A i \in 1..c : 1 + i - 1 = i
    BY <2>3
  <2>6. \A i \in 1..c : SubSeq(line, 1, c)[i] = line[i]
    BY ONLY <2>4, <2>5
  <2>7. QED
    BY <2>1, <2>6 DEF line, c
<1>8. Before(text, at) = Append(front, x)
  BY DEF Before
<1> HIDE DEF front, x
<1>9. /\ PositionAt(before, Len(before)) = [line |-> Len(front), character |-> Units(x)]
      /\ Len(before) > 0 => before[Len(before)] # "cr"
  BY ONLY ending \in Endings, <1>7, <1>8, before = Source(ending, Before(text, at)), EndOfText
<1>10. Units(x) = at[2] + Cardinality({i \in 1..at[2] : text[at[1]][i] = "astral"})
  <2>1. x \in Seq(Characters)
    BY <1>7, LinesAreSources
  <2>2. Wide(x) = {i \in 1..at[2] : text[at[1]][i] = "astral"}
    BY <1>7 DEF Wide
  <2>3. QED
    BY <1>7, <2>1, <2>2, UnitsOfLine
<1>11. PositionAt(source, Len(before)) = PositionAt(before, Len(before))
  BY <1>2, <1>4, <1>5, PlaceOfPrefix
<1>12. PositionAt(source, Len(before)) = Position(text, at)
  BY <1>7, <1>9, <1>10, <1>11, Zenon DEF Position
<1>13. ~InLineEnding(source, Len(before))
  <2> SUFFICES ASSUME InLineEnding(source, Len(before))
               PROVE  FALSE
    OBVIOUS
  <2>1. 0 < Len(before) /\ source[Len(before)] = "cr"
    BY DEF InLineEnding
  <2>2. source[Len(before)] = before[Len(before)]
    BY <1>3, <2>1
  <2>3. QED
    BY <1>3, <1>9, <2>1, <2>2
<1>14. ByteOffset(source, PositionAt(source, Len(before))) = {Len(before)}
  BY <1>2, <1>4, <1>13, PositionMeansOffset
<1>15. QED
  BY <1>2, <1>4, <1>5, <1>6, <1>12, <1>14 DEF after

\* What is before a place is before any place that is not before that.
LEMMA PlacesInOrder ==
  ASSUME NEW ending \in Endings, NEW text \in Texts,
         NEW from \in Places(text), NEW to \in Places(text), NotAfter(from, to)
  PROVE  Len(Source(ending, Before(text, from))) <= Len(Source(ending, Before(text, to)))
<1> DEFINE f1 == from[1]
           f2 == from[2]
           t1 == to[1]
           t2 == to[2]
           front == SubSeq(text, 1, f1 - 1)
           line == text[f1]
           x == SubSeq(line, 1, f2)
           end == SubSeq(text[t1], 1, t2)
           fb == Before(text, from)
           tb == Before(text, to)
<1>1. /\ text \in Seq(Line) /\ Len(text) \in Nat
      /\ f1 \in 1..Len(text) /\ t1 \in 1..Len(text)
      /\ line \in Line /\ f2 \in 0..Len(line) /\ Len(line) \in Nat
      /\ t2 \in 0..Len(text[t1]) /\ Len(text[t1]) \in Nat
  BY TextsAre, PlaceIs
<1>2. front \in Seq(Line) /\ x \in Line /\ end \in Line
  BY PartsAre
<1>3. fb = Append(front, x) /\ tb = Append(SubSeq(text, 1, t1 - 1), end)
  BY DEF Before
<1>4. fb \in Texts /\ tb \in Texts
  BY SourceAtPlace
<1>5. f1 < t1 \/ (f1 = t1 /\ f2 <= t2)
  BY DEF NotAfter
<1> HIDE DEF fb, tb
<1>6. ASSUME NEW rest \in Seq(Characters), Source(ending, tb) = Source(ending, fb) \o rest
      PROVE  Len(Source(ending, fb)) <= Len(Source(ending, tb))
  <2>1. Source(ending, fb) \in Seq(Characters)
    BY <1>4, SourceIsSource
  <2>2. Len(Source(ending, tb)) = Len(Source(ending, fb)) + Len(rest)
        /\ Len(Source(ending, fb)) \in Nat /\ Len(rest) \in Nat
    BY <1>6, <2>1, ConcatProperties, LenProperties
  <2>3. QED
    BY ONLY <2>2
<1>7. CASE f1 = t1 /\ f2 <= t2
  <2> DEFINE y == SubSeq(line, f2 + 1, t2)
  <2> HIDE DEF f1, f2, t1, t2, line
  <2>1. line \in Seq(Characters \ {"cr", "lf"})
    BY <1>1 DEF Line
  <2>2. 1 \in 1..(Len(line) + 1) /\ f2 \in (1 - 1)..Len(line) /\ t2 \in f2..Len(line)
    BY <1>1, <1>7 DEF line
  <2>3. x \o y = end
    <3>1. SubSeq(line, 1, f2) \o SubSeq(line, f2 + 1, t2) = SubSeq(line, 1, t2)
      BY ONLY <2>1, <2>2, ConcatAdjacentSubSeq
    <3>2. QED
      BY <1>7, <3>1 DEF line
  <2>4. y \in Line
    <3>1. f2 + 1 \in Int /\ t2 \in Int
          /\ \A i \in (f2 + 1)..t2 : line[i] \in Characters \ {"cr", "lf"}
      BY <1>1, <2>1, <2>2, ElementOfSeq
    <3>2. QED
      BY ONLY <3>1, SubSeqProperties DEF Line
  <2> HIDE DEF x, y, end, front
  <2>5. Source(ending, Append(front, x \o y)) = Source(ending, Append(front, x)) \o y
    BY ONLY ending \in Endings, <1>2, <2>4, SourceDivides
  <2>6. tb = Append(front, x \o y)
    BY <1>3, <1>7, <2>3 DEF front
  <2>7. Source(ending, tb) = Source(ending, fb) \o y /\ y \in Seq(Characters)
    BY <1>3, <2>4, <2>5, <2>6, LinesAreSources, Zenon
  <2>8. QED
    BY <1>6, <2>7 DEF fb, tb
<1>8. CASE f1 < t1
  <2> DEFINE y == SubSeq(line, f2 + 1, Len(line))
             middle == SubSeq(text, f1 + 1, t1 - 1)
             most == Append(middle, end)
             one == <<y>>
             fxy == Append(front, x \o y)
  <2>1. y \in Line /\ x \o y = line
    BY PartsAre
  <2> HIDE DEF f1, f2, t1, t2, line, x, y, end, fxy
  <2>2. /\ 1 \in 1..(Len(text) + 1) /\ f1 \in (1 - 1)..Len(text)
        /\ t1 - 1 \in f1..Len(text) /\ 1 \in 1..Len(text) /\ f1 \in 1..Len(text)
        /\ f1 + 1 \in Int /\ t1 - 1 \in Int /\ f1 \in 1..Len(text)
    BY <1>1, <1>8
  <2>3. SubSeq(text, 1, f1) \o middle = SubSeq(text, 1, t1 - 1)
    BY ONLY <1>1, <2>2, ConcatAdjacentSubSeq
  <2>4. SubSeq(text, 1, f1) = fxy
    <3>1. SubSeq(text, 1, f1) = front \o <<text[f1]>>
      BY ONLY <1>1, <2>2, SubSeqRecursiveSecond
    <3>2. Append(front, line) = front \o <<line>>
      <4> HIDE DEF front
      <4>1. QED
        BY ONLY <1>1, <1>2, AppendIsConcat
    <3>3. QED
      BY ONLY <2>1, <3>1, <3>2, Zenon DEF line, fxy
  <2>5. middle \in Seq(Line)
    <3>1. \A i \in (f1 + 1)..(t1 - 1) : text[i] \in Line
      BY <1>1, <2>2, ElementOfSeq
    <3>2. QED
      BY ONLY <2>2, <3>1, SubSeqProperties
  <2> HIDE DEF front, middle
  <2>6. fxy \in Texts /\ Source(ending, fxy) = Source(ending, fb) \o y
    BY ONLY ending \in Endings, <1>2, <1>3, <2>1, SourceDivides DEF fxy
  <2>7. fxy \in Seq(Line)
    BY <2>6, TextsAre
  <2>8. most \in Seq(Line) /\ tb = fxy \o most
    <3>1. most \in Seq(Line)
      BY <1>2, <2>5, AppendProperties
    <3>2. fxy \o Append(middle, end) = Append(fxy \o middle, end)
      BY ONLY <1>2, <2>5, <2>7, OneMore
    <3>3. fxy \o middle = SubSeq(text, 1, t1 - 1)
      BY <2>3, <2>4, Zenon
    <3>4. QED
      BY ONLY <1>3, <3>1, <3>2, <3>3, Zenon
  <2>9. one \in Texts /\ Source(ending, one) = y
    BY <2>1, SourceOfOne DEF Texts
  <2> HIDE DEF one, most
  <2>10. Splits(ending, fxy, fb, one)
    BY <2>6, <2>9 DEF Splits
  <2>11. one \o most \in Texts /\ Splits(ending, fxy \o most, fb, one \o most)
    BY ONLY ending \in Endings, <1>4, <2>6, <2>8, <2>9, <2>10, SplitGoesOn
  <2> DEFINE rest == Source(ending, one \o most)
  <2>12. rest \in Seq(Characters)
    BY <2>11, SourceIsSource
  <2>13. Source(ending, tb) = Source(ending, fb) \o rest
    BY ONLY <2>8, <2>11, Zenon DEF Splits
  <2> HIDE DEF rest
  <2>14. QED
    BY <1>6, <2>12, <2>13 DEF fb, tb
<1>9. QED
  BY <1>5, <1>7, <1>8

-----------------------------------------------------------------------------
(* Changes.                                                                *)

\* There is one range of two offsets.
LEMMA PlacesDiffer ==
  ASSUME NEW m, NEW n, m <= n
  PROVE  {r \in {m} \X {n} : r[1] <= r[2]} = {<<m, n>>}
<1>1. \A r \in {m} \X {n} : r = <<m, n>>
  OBVIOUS
<1>2. <<m, n>> \in {m} \X {n} /\ <<m, n>>[1] = m /\ <<m, n>>[2] = n
  OBVIOUS
<1>3. QED
  BY <1>1, <1>2

\* What the server makes of a range is what the editor made of it, if it is not
\* too large.
LEMMA AppliedIs ==
  ASSUME NEW ending \in Endings, NEW text \in Texts,
         NEW from \in Places(text), NEW to \in Places(text), NotAfter(from, to),
         NEW insert \in Texts, NEW change,
         change = [whole |-> FALSE, text |-> Source(ending, insert),
                   start |-> Position(text, from), end |-> Position(text, to)]
  PROVE  Applied(Source(ending, text), change)
           = {updated \in {Source(ending, Edited(text, from, to, insert))} :
                validateSource(updated)}
<1> DEFINE source == Source(ending, text)
           i == Source(ending, insert)
           b == Source(ending, Before(text, from))
           tb == Source(ending, Before(text, to))
           a == Source(ending, After(text, to))
           m == Len(b)
           n == Len(tb)
           edited == Source(ending, Edited(text, from, to, insert))
<1>1. SubSeq(source, 1, m) = b /\ ByteOffset(source, Position(text, from)) = {m}
  BY PlaceMeans
<1>2. SubSeq(source, n + 1, Len(source)) = a /\ ByteOffset(source, Position(text, to)) = {n}
  BY PlaceMeans
<1>3. m <= n
  BY PlacesInOrder
<1>4. edited = (b \o i) \o a
  BY SourceOfEdited, ZenonT(60)
<1>5. /\ ~change.whole /\ change.text = i
      /\ change.start = Position(text, from) /\ change.end = Position(text, to)
  OBVIOUS
<1> HIDE DEF source, i, b, tb, a, m, n, edited
<1>6. {r \in ByteOffset(source, change.start) \X ByteOffset(source, change.end) : r[1] <= r[2]}
        = {<<m, n>>}
  BY <1>1, <1>2, <1>3, <1>5, PlacesDiffer
<1>7. Spliced(source, m, n, i) = edited
  BY <1>1, <1>2, <1>4, Zenon DEF Spliced
<1> DEFINE ranges == {r \in ByteOffset(source, change.start) \X ByteOffset(source, change.end) :
                        r[1] <= r[2]}
<1>8. Applied(source, change)
        = {updated \in {Spliced(source, range[1], range[2], change.text) : range \in ranges} :
             validateSource(updated)}
  BY <1>5, Zenon DEF Applied
<1>9. {Spliced(source, range[1], range[2], change.text) : range \in ranges} = {edited}
  <2>1. <<m, n>>[1] = m /\ <<m, n>>[2] = n
    OBVIOUS
  <2> DEFINE r == <<m, n>>
  <2>2. r[1] = m /\ r[2] = n /\ ranges = {r}
    BY <1>6, <2>1
  <2> HIDE DEF r, ranges
  <2>3. {Spliced(source, range[1], range[2], change.text) : range \in ranges}
          = {Spliced(source, r[1], r[2], change.text)}
    BY ONLY <2>2
  <2>4. QED
    BY <1>5, <1>7, <2>2, <2>3, Zenon
<1>10. QED
  BY <1>8, <1>9, Zenon DEF source, edited

\* A change of a notification: what it makes of one text is another.
Changes(ending, before, after, change, big) ==
  \/ change.whole /\ after = before /\ change.text = Source(ending, after)
  \/ /\ ~change.whole
     /\ \E from, to \in Places(before), insert \in Insertions :
          /\ NotAfter(from, to)
          /\ change = [whole |-> FALSE, text |-> Source(ending, insert),
                       start |-> Position(before, from), end |-> Position(before, to)]
          /\ after = Edited(before, from, to, insert)
          /\ validateSource(Source(ending, after)) \/ big

\* Several changes, each of what the one before left.
Leave(ending, changes, big, texts) ==
  /\ texts \in [0..Len(changes) -> Texts]
  /\ \A k \in 1..Len(changes) : Changes(ending, texts[k - 1], texts[k], changes[k], big)

Follows(ending, changes, big, before, after) ==
  \E texts : /\ Leave(ending, changes, big, texts)
             /\ texts[0] = before /\ texts[Len(changes)] = after

\* The sources after the first n changes, the first n - 1, ...
Made(source, changes, made, n) ==
  made = [k \in 0..n |->
            IF k = 0 THEN {source} ELSE UNION {Applied(s, changes[k]) : s \in made[k - 1]}]

\* The recursive function of Change is defined, however many the changes.
LEMMA MadeExists ==
  ASSUME NEW source, NEW changes, NEW last \in Nat
  PROVE  \E made : Made(source, changes, made, last)
<1> DEFINE Further(made, k) == UNION {Applied(s, changes[k]) : s \in made}
           S == {n \in Nat : \E made : Made(source, changes, made, n)}
<1>1. 0 \in S
  <2>1. Made(source, changes, [i \in 0..0 |-> {source}], 0)
    BY DEF Made
  <2>2. QED
    BY <2>1
<1>2. ASSUME NEW n \in 0..(last - 1), n \in S
      PROVE  n + 1 \in S
  <2>1. PICK f : Made(source, changes, f, n)
    BY <1>2
  <2> DEFINE g == [i \in 0..(n + 1) |-> IF i = n + 1 THEN Further(f[n], n + 1) ELSE f[i]]
  <2>2. n \in Nat
    OBVIOUS
  <2>3. \A i \in 0..n : f[i] = IF i = 0 THEN {source} ELSE Further(f[i - 1], i)
    BY <2>1 DEF Made
  <2> HIDE DEF Further
  <2>4. \A i \in 0..n : g[i] = f[i]
    BY <2>2
  <2>5. ASSUME NEW i \in 0..(n + 1)
        PROVE  g[i] = IF i = 0 THEN {source} ELSE Further(g[i - 1], i)
    <3>1. CASE i = n + 1
      <4>1. g[i] = Further(f[n], n + 1)
        BY <3>1, <2>2
      <4>2. g[n] = f[n] /\ i - 1 = n /\ i # 0
        BY <2>2, <2>4, <3>1
      <4>3. QED
        BY ONLY <3>1, <4>1, <4>2, Zenon
    <3>2. CASE i # n + 1
      <4>1. i \in 0..n
        BY <2>2, <3>2
      <4>2. g[i] = f[i]
        BY <2>4, <4>1
      <4>3. CASE i = 0
        BY <2>3, <4>1, <4>2, <4>3
      <4>4. CASE i # 0
        <5>1. i - 1 \in 0..n
          BY <2>2, <4>1, <4>4
        <5>2. g[i - 1] = f[i - 1] /\ f[i] = Further(f[i - 1], i)
          BY <2>3, <2>4, <4>1, <4>4, <5>1
        <5>3. QED
          BY ONLY <4>2, <4>4, <5>2, Zenon
      <4>5. QED
        BY <4>3, <4>4
    <3>3. QED
      BY <3>1, <3>2
  <2>6. g = [i \in 0..(n + 1) |-> IF i = 0 THEN {source} ELSE Further(g[i - 1], i)]
    BY <2>5, Zenon
  <2> HIDE DEF g
  <2>7. Made(source, changes, g, n + 1)
    BY <2>6, Zenon DEF Made, Further
  <2>8. QED
    BY <2>2, <2>7
<1> HIDE DEF S
<1>3. \A n \in 0..last : n \in S
  BY ONLY last \in Nat, <1>1, <1>2, Counting
<1>4. QED
  BY <1>3 DEF S

\* What the recursive function of Change makes.
LEMMA ChangeIs ==
  ASSUME NEW source, NEW changes, Len(changes) \in Nat
  PROVE  \E made : /\ Made(source, changes, made, Len(changes))
                   /\ Change(source, changes)
                        = {updated \in made[Len(changes)] : validateSource(updated)}
<1> DEFINE n == Len(changes)
<1> DEFINE All == CHOOSE made :
      made = [k \in 0..n |->
                IF k = 0 THEN {source} ELSE UNION {Applied(s, changes[k]) : s \in made[k - 1]}]
<1>1. \E made : Made(source, changes, made, n)
  BY MadeExists
<1>2. Made(source, changes, All, n)
  BY <1>1, Zenon DEF Made
<1>3. Change(source, changes) = {updated \in All[n] : validateSource(updated)}
  BY Zenon DEF Change
<1>4. QED
  BY <1>2, <1>3

\* From the text before a change, the server comes to the text after it or to
\* none, and to that if nothing on the way is too large.
LEMMA OneApplied ==
  ASSUME Insertions \subseteq Texts, NEW ending \in Endings,
         NEW before \in Texts, NEW after \in Texts, NEW change, NEW big,
         Changes(ending, before, after, change, big)
  PROVE  /\ Applied(Source(ending, before), change) \subseteq {Source(ending, after)}
         /\ change.whole => \A s : Applied(s, change) = {Source(ending, after)}
         /\ ~big /\ validateSource(Source(ending, before)) =>
              /\ Applied(Source(ending, before), change) = {Source(ending, after)}
              /\ validateSource(Source(ending, after))
<1>1. CASE change.whole /\ after = before /\ change.text = Source(ending, after)
  <2>1. \A s : Applied(s, change) = {Source(ending, after)}
    BY <1>1, Zenon DEF Applied
  <2>2. QED
    BY <1>1, <2>1
<1>2. CASE ~(change.whole /\ after = before /\ change.text = Source(ending, after))
  <2>1. /\ ~change.whole
        /\ \E from, to \in Places(before), insert \in Insertions :
             /\ NotAfter(from, to)
             /\ change = [whole |-> FALSE, text |-> Source(ending, insert),
                          start |-> Position(before, from), end |-> Position(before, to)]
             /\ after = Edited(before, from, to, insert)
             /\ validateSource(Source(ending, after)) \/ big
    BY <1>2, Zenon DEF Changes
  <2>2. PICK from \in Places(before), to \in Places(before), insert \in Insertions :
          /\ NotAfter(from, to)
          /\ change = [whole |-> FALSE, text |-> Source(ending, insert),
                       start |-> Position(before, from), end |-> Position(before, to)]
          /\ after = Edited(before, from, to, insert)
          /\ validateSource(Source(ending, after)) \/ big
    BY <2>1, Zenon
  <2>3. insert \in Texts
    OBVIOUS
  <2>4. Applied(Source(ending, before), change)
          = {updated \in {Source(ending, after)} : validateSource(updated)}
    BY ONLY ending \in Endings, before \in Texts, from \in Places(before),
            to \in Places(before), <2>2, <2>3, AppliedIs
  <2>5. QED
    BY <2>1, <2>2, <2>4
<1>3. QED
  BY <1>1, <1>2

\* So with all changes of a notification: the server comes to the text after
\* them or to none, if it had the text before them or gets a whole text; and
\* it comes there if it had the text and nothing on the way is too large.
LEMMA AllApplied ==
  ASSUME Insertions \subseteq Texts, NEW ending \in Endings, NEW changes,
         Len(changes) \in Nat, NEW big, NEW before, NEW after, NEW source,
         Follows(ending, changes, big, before, after)
  PROVE  /\ source = Source(ending, before) \/ (HasWhole(changes) /\ DOMAIN changes = 1..Len(changes))
              => Change(source, changes) \subseteq {Source(ending, after)}
         /\ source = Source(ending, before) /\ validateSource(source) /\ ~big
              => Change(source, changes) = {Source(ending, after)}
<1> DEFINE n == Len(changes)
<1>1. PICK texts : Leave(ending, changes, big, texts) /\ texts[0] = before /\ texts[n] = after
  BY DEF Follows
<1>2. PICK made : /\ Made(source, changes, made, n)
                  /\ Change(source, changes) = {updated \in made[n] : validateSource(updated)}
  BY ChangeIs
<1> DEFINE sources(k) == Source(ending, texts[k])
<1>3. n \in Nat
  OBVIOUS
<1> HIDE DEF n
<1>4. \A k \in 0..n : texts[k] \in Texts
  BY <1>1 DEF Leave, n
<1>5. \A k \in 1..n : Changes(ending, texts[k - 1], texts[k], changes[k], big)
  BY <1>1 DEF Leave, n
<1>6. made[0] = {source}
  <2>1. 0 \in 0..n
    BY <1>3
  <2>2. QED
    BY <1>2, <2>1 DEF Made
<1>7. \A k \in 1..n : made[k] = UNION {Applied(s, changes[k]) : s \in made[k - 1]}
  <2>1. \A k \in 1..n : k \in 0..n /\ k # 0
    BY <1>3
  <2>2. QED
    BY <1>2, <2>1, Zenon DEF Made
<1>8. ASSUME NEW k \in 1..n
      PROVE  /\ Applied(sources(k - 1), changes[k]) \subseteq {sources(k)}
             /\ changes[k].whole => \A s : Applied(s, changes[k]) = {sources(k)}
             /\ ~big /\ validateSource(sources(k - 1)) =>
                  Applied(sources(k - 1), changes[k]) = {sources(k)} /\ validateSource(sources(k))
  <2>1. k \in 0..n /\ k - 1 \in 0..n
    BY <1>3
  <2>2. texts[k - 1] \in Texts /\ texts[k] \in Texts
        /\ Changes(ending, texts[k - 1], texts[k], changes[k], big)
    BY <1>4, <1>5, <2>1
  <2>3. QED
    BY ONLY Insertions \subseteq Texts, ending \in Endings, <2>2, OneApplied
<1> HIDE DEF sources
\* Once there or nowhere, always there or nowhere.
<1>9. ASSUME NEW first \in 0..n, made[first] \subseteq {sources(first)}
      PROVE  made[n] \subseteq {sources(n)}
  <2> DEFINE S == {k \in first..n : made[k] \subseteq {sources(k)}}
  <2>1. first \in Nat /\ first \in S
    BY <1>3, <1>9
  <2>2. ASSUME NEW k \in first..(n - 1), k \in S
        PROVE  k + 1 \in S
    <3>1. k + 1 \in first..n /\ k + 1 \in 1..n /\ (k + 1) - 1 = k
      BY <1>3, <2>1
    <3>2. made[k + 1] = UNION {Applied(s, changes[k + 1]) : s \in made[k]}
      BY <1>7, <3>1
    <3>3. Applied(sources(k), changes[k + 1]) \subseteq {sources(k + 1)}
      BY <1>8, <3>1
    <3>4. made[k] \subseteq {sources(k)}
      BY <2>2
    <3>5. made[k + 1] \subseteq {sources(k + 1)}
      BY ONLY <3>2, <3>3, <3>4
    <3>6. QED
      BY <3>1, <3>5
  <2> HIDE DEF S
  <2>3. \A k \in first..n : k \in S
    BY ONLY <1>3, <2>1, <2>2, Counting
  <2>4. n \in first..n
    BY <1>3
  <2>5. QED
    BY <2>3, <2>4 DEF S
<1>10. ASSUME source = sources(0)
       PROVE  made[n] \subseteq {sources(n)}
  <2>1. 0 \in 0..n /\ made[0] \subseteq {sources(0)}
    BY <1>3, <1>6, <1>10
  <2>2. QED
    BY <1>9, <2>1
<1>11. ASSUME NEW k \in 1..n, changes[k].whole
       PROVE  made[n] \subseteq {sources(n)}
  <2>1. made[k] = UNION {Applied(s, changes[k]) : s \in made[k - 1]}
    BY <1>7
  <2>2. \A s : Applied(s, changes[k]) = {sources(k)}
    BY <1>8, <1>11
  <2>3. made[k] \subseteq {sources(k)}
    BY ONLY <2>1, <2>2
  <2>4. k \in 0..n
    BY <1>3
  <2>5. QED
    BY <1>9, <2>3, <2>4
<1>12. ASSUME source = sources(0), validateSource(source), ~big
       PROVE  made[n] = {sources(n)} /\ validateSource(sources(n))
  <2> DEFINE S == {k \in 0..n : made[k] = {sources(k)} /\ validateSource(sources(k))}
  <2>1. 0 \in S
    BY <1>3, <1>6, <1>12
  <2>2. ASSUME NEW k \in 0..(n - 1), k \in S
        PROVE  k + 1 \in S
    <3>1. k + 1 \in 0..n /\ k + 1 \in 1..n /\ (k + 1) - 1 = k
      BY <1>3
    <3>2. made[k + 1] = UNION {Applied(s, changes[k + 1]) : s \in made[k]}
      BY <1>7, <3>1
    <3>3. made[k] = {sources(k)} /\ validateSource(sources(k))
      BY <2>2
    <3>4. Applied(sources(k), changes[k + 1]) = {sources(k + 1)} /\ validateSource(sources(k + 1))
      BY <1>8, <1>12, <3>1, <3>3
    <3>5. made[k + 1] = {sources(k + 1)}
      BY ONLY <3>2, <3>3, <3>4
    <3>6. QED
      BY <3>1, <3>4, <3>5
  <2> HIDE DEF S
  <2>3. \A k \in 0..n : k \in S
    BY ONLY <1>3, <2>1, <2>2, Counting
  <2>4. n \in 0..n
    BY <1>3
  <2>5. QED
    BY <2>3, <2>4 DEF S
<1>13. sources(0) = Source(ending, before) /\ sources(n) = Source(ending, after)
  BY <1>1 DEF sources
<1>14. ASSUME HasWhole(changes), DOMAIN changes = 1..Len(changes)
       PROVE  \E k \in 1..n : changes[k].whole
  BY <1>14 DEF HasWhole, n
<1>15. QED
  <2>1. ASSUME source = Source(ending, before) \/ (HasWhole(changes) /\ DOMAIN changes = 1..Len(changes))
        PROVE  made[n] \subseteq {Source(ending, after)}
    BY <1>10, <1>11, <1>13, <1>14, <2>1
  <2>2. ASSUME source = Source(ending, before), validateSource(source), ~big
        PROVE  made[n] = {Source(ending, after)} /\ validateSource(Source(ending, after))
    BY <1>12, <1>13, <2>2
  <2>3. QED
    BY <1>2, <2>1, <2>2

-----------------------------------------------------------------------------
(* The editor and the server.                                              *)

Spots == [line : Nat, character : Nat]

Sent == [whole : {TRUE}, text : Seq(Characters)]
          \cup [whole : {FALSE}, text : Seq(Characters), start : Spots, end : Spots]

Messages == [kind : {"change"}, changes : Seq(Sent), big : BOOLEAN]
              \cup [kind : {"open", "save"}, text : Seq(Characters), big : BOOLEAN]
              \cup [kind : {"close"}]

\* The editor as a notification leaves it.
Stage == [open : BOOLEAN, text : Texts]

\* A notification says how the editor came from one stage to another.
Tells(ending, message, before, after) ==
  CASE message.kind = "open" ->
         /\ ~before.open /\ after.open /\ after.text = before.text
         /\ message.text = Source(ending, after.text)
         /\ validateSource(message.text) \/ message.big
    [] message.kind = "change" ->
         /\ before.open /\ after.open
         /\ Follows(ending, message.changes, message.big, before.text, after.text)
    [] message.kind = "save" ->
         /\ before.open /\ after = before
         /\ message.text = Source(ending, after.text)
         /\ validateSource(message.text) \/ message.big
    [] OTHER -> before.open /\ ~after.open /\ after.text = before.text

\* The server knows a stage of the editor, or has an excuse.
Synced(ending, stage) ==
  IF stage.open THEN dropped \/ document = {Source(ending, stage.text)} ELSE document = {}

\* From what the server knows, what is on its way and the draft lead to what the
\* editor has.
Led(stages) ==
  /\ stages \in [0..Len(inbox) -> Stage]
  /\ Synced(eol, stages[0])
  /\ \A k \in 1..Len(inbox) : Tells(eol, inbox[k], stages[k - 1], stages[k])
  /\ stages[Len(inbox)].open = open
  /\ Follows(eol, draft.changes, draft.big, stages[Len(inbox)].text, lines)

Known ==
  /\ lines \in Texts /\ eol \in Endings /\ open \in BOOLEAN /\ dropped \in BOOLEAN
  /\ draft \in [changes : Seq(Sent), big : BOOLEAN] /\ (draft # Empty => open)
  /\ inbox \in Seq(Messages)
  /\ Len(draft.changes) <= MaxChanges /\ Len(inbox) <= MaxInbox
  /\ document \in SUBSET Seq(Characters)
  /\ \A source \in document : validateSource(source) /\ \A other \in document : other = source

SyncInv == Known /\ \E stages : Led(stages)

\* With no changes there is one text, and a change more leads on.
LEMMA NoneFollow ==
  ASSUME NEW ending, NEW big, NEW text \in Texts
  PROVE  /\ Follows(ending, <<>>, big, text, text)
         /\ \A before : Follows(ending, <<>>, big, before, text) => before = text
<1>1. Leave(ending, <<>>, big, [k \in 0..0 |-> text])
  BY DEF Leave
<1>2. QED
  BY <1>1 DEF Follows

\* A change more leads on.
LEMMA MoreFollow ==
  ASSUME NEW ending, NEW changes \in Seq(Sent), NEW change \in Sent, NEW big, NEW bigger,
         NEW before, NEW text, NEW after \in Texts,
         Follows(ending, changes, big, before, text),
         Changes(ending, text, after, change, bigger), big => bigger
  PROVE  Follows(ending, Append(changes, change), bigger, before, after)
<1> DEFINE n == Len(changes)
           more == Append(changes, change)
<1>1. PICK texts : Leave(ending, changes, big, texts) /\ texts[0] = before /\ texts[n] = text
  BY DEF Follows
<1>2. /\ n \in Nat /\ Len(more) = n + 1 /\ more[n + 1] = change
      /\ \A k \in 1..n : more[k] = changes[k]
  BY AppendProperties, LenProperties
<1>3. /\ texts \in [0..n -> Texts]
      /\ \A k \in 1..n : Changes(ending, texts[k - 1], texts[k], changes[k], big)
  BY <1>1 DEF Leave
<1> HIDE DEF n, more
<1> DEFINE t == [k \in 0..(n + 1) |-> IF k = n + 1 THEN after ELSE texts[k]]
<1>4. t \in [0..(n + 1) -> Texts] /\ t[n + 1] = after /\ \A k \in 0..n : t[k] = texts[k]
  BY <1>2, <1>3
<1> HIDE DEF t
<1>5. ASSUME NEW k \in 1..(n + 1)
      PROVE  Changes(ending, t[k - 1], t[k], more[k], bigger)
  <2>1. CASE k = n + 1
    <3>1. k - 1 = n /\ n \in 0..n
      BY <1>2, <2>1
    <3>2. t[k - 1] = text /\ t[k] = after /\ more[k] = change
      BY <1>1, <1>2, <1>4, <2>1, <3>1 DEF n
    <3>3. QED
      BY <3>2
  <2>2. CASE k # n + 1
    <3>1. k \in 1..n /\ k \in 0..n /\ k - 1 \in 0..n
      BY <1>2, <2>2
    <3>2. t[k - 1] = texts[k - 1] /\ t[k] = texts[k] /\ more[k] = changes[k]
      BY <1>2, <1>4, <3>1
    <3>3. Changes(ending, texts[k - 1], texts[k], changes[k], big)
      BY <1>3, <3>1
    <3>4. Changes(ending, texts[k - 1], texts[k], changes[k], bigger)
      BY <3>3, Zenon DEF Changes
    <3>5. QED
      BY <3>2, <3>4
  <2>3. QED
    BY <2>1, <2>2
<1>6. Leave(ending, more, bigger, t)
  BY <1>2, <1>4, <1>5 DEF Leave
<1>7. t[0] = before /\ t[Len(more)] = after
  <2>1. 0 \in 0..n
    BY <1>2
  <2>2. QED
    BY <1>1, <1>2, <1>4, <2>1
<1>8. QED
  BY <1>6, <1>7 DEF Follows, more

\* What is sent, the editor's last stage leads to.
LEMMA SendingKeeps ==
  ASSUME DocumentSyncAssumption, SyncInv, NEW message \in Messages, Sends(message), NEW stage \in Stage,
         \A last \in Stage :
           /\ last.open = open
           /\ Follows(eol, draft.changes, draft.big, last.text, lines)
           => Tells(eol, message, last, stage),
         stage.open = open', stage.text = lines', lines' = lines, draft' = Empty,
         open' \in BOOLEAN
  PROVE  SyncInv'
<1> DEFINE n == Len(inbox)
<1>1. PICK stages : Led(stages)
  BY DEF SyncInv
<1>2. /\ inbox \in Seq(Messages) /\ eol \in Endings /\ lines \in Texts
      /\ inbox' = Append(inbox, message) /\ eol' = eol /\ document' = document
      /\ dropped' = dropped /\ Len(inbox) < MaxInbox
  BY DEF SyncInv, Known, Sends
<1>3. /\ n \in Nat /\ Len(inbox') = n + 1 /\ inbox' \in Seq(Messages) /\ inbox'[n + 1] = message
      /\ \A k \in 1..n : inbox'[k] = inbox[k]
  BY <1>2, AppendProperties, LenProperties
<1>4. /\ stages \in [0..n -> Stage] /\ Synced(eol, stages[0])
      /\ \A k \in 1..n : Tells(eol, inbox[k], stages[k - 1], stages[k])
      /\ stages[n].open = open
      /\ Follows(eol, draft.changes, draft.big, stages[n].text, lines)
  BY <1>1 DEF Led
<1> HIDE DEF n
<1>5. PICK more : /\ more \in [0..(n + 1) -> Stage] /\ more[n + 1] = stage
                  /\ \A k \in 0..n : more[k] = stages[k]
  <2> DEFINE f == [k \in 0..(n + 1) |-> IF k = n + 1 THEN stage ELSE stages[k]]
  <2>1. /\ f \in [0..(n + 1) -> Stage] /\ f[n + 1] = stage
        /\ \A k \in 0..n : f[k] = stages[k]
    BY <1>3, <1>4
  <2> HIDE DEF f
  <2>2. QED
    BY <2>1
<1>6. Tells(eol, message, stages[n], stage)
  <2>1. stages[n] \in Stage
    BY <1>3, <1>4
  <2>2. QED
    BY <1>4, <2>1
<1>7. ASSUME NEW k \in 1..(n + 1)
      PROVE  Tells(eol, inbox'[k], more[k - 1], more[k])
  <2>1. CASE k = n + 1
    <3>1. k - 1 = n /\ n \in 0..n
      BY <1>3, <2>1
    <3>2. more[k - 1] = stages[n] /\ more[k] = stage /\ inbox'[k] = message
      BY <1>3, <1>5, <2>1, <3>1
    <3>3. QED
      BY <1>6, <3>2
  <2>2. CASE k # n + 1
    <3>1. k \in 1..n /\ k \in 0..n /\ k - 1 \in 0..n
      BY <1>3, <2>2
    <3>2. more[k - 1] = stages[k - 1] /\ more[k] = stages[k] /\ inbox'[k] = inbox[k]
      BY <1>3, <1>5, <3>1
    <3>3. QED
      BY <1>4, <3>1, <3>2
  <2>3. QED
    BY <2>1, <2>2
<1>8. Synced(eol, more[0])'
  <2>1. more[0] = stages[0]
    BY <1>3, <1>5
  <2>2. QED
    BY <1>2, <1>4, <2>1 DEF Synced
<1>9. Empty.changes = <<>> /\ Empty.big = FALSE
  BY DEF Empty
<1>10. Follows(eol, Empty.changes, Empty.big, stage.text, lines)
  BY <1>2, <1>9, NoneFollow
<1>11. Led(more)'
  <2>1. /\ eol' = eol /\ draft' = Empty /\ lines' = lines /\ stage.open = open' /\ stage.text = lines'
    BY <1>2
  <2>2. more[Len(inbox')] = stage /\ more \in [0..Len(inbox') -> Stage]
    BY <1>3, <1>5
  <2>3. \A k \in 1..Len(inbox') : Tells(eol', inbox'[k], more[k - 1], more[k])
    BY <1>3, <1>7, <2>1
  <2>4. Follows(eol', (draft').changes, (draft').big, more[Len(inbox')].text, lines')
    BY <1>10, <2>1, <2>2
  <2>5. QED
    BY <1>8, <2>1, <2>2, <2>3, <2>4 DEF Led
<1>12. Known'
  <2>1. Empty \in [changes : Seq(Sent), big : BOOLEAN] /\ Len(Empty.changes) <= MaxChanges
    <3>1. Len(<<>>) = 0 /\ <<>> \in Seq(Sent)
      BY EmptySeq
    <3>2. 0 <= MaxChanges
      BY DEF DocumentSyncAssumption
    <3>3. Empty = [changes |-> <<>>, big |-> FALSE]
      BY DEF Empty
    <3>4. QED
      BY ONLY <3>1, <3>2, <3>3
  <2>2. Len(inbox') <= MaxInbox
    <3>1. MaxInbox \in Nat /\ n < MaxInbox
      BY <1>2 DEF DocumentSyncAssumption, n
    <3>2. QED
      BY ONLY <1>3, <3>1
  <2>3. QED
    BY <1>2, <1>3, <2>1, <2>2 DEF SyncInv, Known, validateSource
<1>13. QED
  BY <1>11, <1>12 DEF SyncInv

\* A position names one offset at most.
LEMMA OneOffset ==
  ASSUME NEW source \in Seq(Characters), NEW position,
         NEW a \in ByteOffset(source, position), NEW b \in ByteOffset(source, position)
  PROVE  a = b /\ a \in 0..Len(source)
<1> DEFINE units(start, o) == Units(SubSeq(source, start + 1, o))
           starts == {s \in Newlines(source) \cup {0} : LineNumber(source, s) = position.line}
<1>1. Len(source) \in Nat /\ Newlines(source) \in SUBSET (1..Len(source))
  BY NewlinesAre
<1>2. ASSUME NEW o \in ByteOffset(source, position)
      PROVE  \E s \in starts : /\ o \in s..LineEnd(source, s)
                               /\ units(s, o) = position.character
  <2>1. PICK bounds \in lineBounds(source, position.line) :
          o \in bounds[1]..bounds[2] /\ units(bounds[1], o) = position.character
    BY <1>2 DEF ByteOffset
  <2>2. PICK s \in starts : bounds = <<s, LineEnd(source, s)>>
    BY <2>1 DEF lineBounds
  <2>3. bounds[1] = s /\ bounds[2] = LineEnd(source, s)
    BY <2>2
  <2>4. QED
    BY <2>1, <2>3
<1>3. ASSUME NEW s \in starts
      PROVE  LineEnd(source, s) \in s..Len(source) /\ s \in Nat
  <2>1. s \in Newlines(source) \cup {0} /\ s \in Nat /\ s \in s..Len(source)
    BY <1>1
  <2>2. ~InLineEnding(source, s)
    BY <2>1 DEF InLineEnding, Newlines
  <2>3. \A i \in Newlines(source) : i <= s => i <= s
    OBVIOUS
  <2>4. QED
    BY ONLY source \in Seq(Characters), <2>1, <2>2, <2>3, LineEndIs
<1>4. PICK s \in starts : a \in s..LineEnd(source, s) /\ units(s, a) = position.character
  BY <1>2
<1>5. PICK t \in starts : b \in t..LineEnd(source, t) /\ units(t, b) = position.character
  BY <1>2
<1>6. s = t
  <2>1. /\ s \in Newlines(source) \cup {0} /\ t \in Newlines(source) \cup {0}
        /\ s \in Nat /\ t \in Nat /\ LineNumber(source, s) = LineNumber(source, t)
    BY <1>3
  <2>2. ~(s < t) /\ ~(t < s)
    BY ONLY source \in Seq(Characters), <2>1, LinesDiffer
  <2>3. QED
    BY <2>1, <2>2
<1>7. s \in Nat /\ a \in s..Len(source) /\ b \in s..Len(source) /\ a \in Nat /\ b \in Nat
  BY <1>1, <1>3, <1>4, <1>5, <1>6
<1>8. units(s, a) = units(s, b) /\ units(s, a) \in Nat
  <2>1. units(s, a) = units(s, b)
    BY <1>4, <1>5, <1>6
  <2>2. s + 1 \in Nat \ {0} /\ a \in 0..Len(source)
    BY <1>1, <1>7
  <2>3. QED
    BY <2>1, <2>2, SizesAre
<1> HIDE DEF units
<1>9. ~(a < b) /\ ~(b < a)
  <2>1. a < b => units(s, a) < units(s, b)
    BY ONLY source \in Seq(Characters), <1>7, UnitsGrow DEF units
  <2>2. b < a => units(s, b) < units(s, a)
    BY ONLY source \in Seq(Characters), <1>7, UnitsGrow DEF units
  <2>3. QED
    BY ONLY <2>1, <2>2, <1>8
<1>10. QED
  BY ONLY <1>1, <1>7, <1>9

\* A change makes one source at most of a source.
LEMMA OneSource ==
  ASSUME NEW source \in Seq(Characters), NEW change \in Sent,
         NEW a \in Applied(source, change), NEW b \in Applied(source, change)
  PROVE  a = b /\ a \in Seq(Characters)
<1>1. change.text \in Seq(Characters) /\ change.whole \in BOOLEAN
  BY DEF Sent
<1>2. CASE change.whole
  BY <1>1, <1>2 DEF Applied
<1>3. CASE ~change.whole
  <2> DEFINE ranges == {r \in ByteOffset(source, change.start) \X ByteOffset(source, change.end) :
                          r[1] <= r[2]}
             made(r) == Spliced(source, r[1], r[2], change.text)
  <2>1. a \in {made(r) : r \in ranges} /\ b \in {made(r) : r \in ranges}
    BY <1>3 DEF Applied
  <2>2. PICK r \in ranges, q \in ranges : a = made(r) /\ b = made(q)
    BY <2>1
  <2>3. /\ r[1] \in ByteOffset(source, change.start) /\ r[2] \in ByteOffset(source, change.end)
        /\ q[1] \in ByteOffset(source, change.start) /\ q[2] \in ByteOffset(source, change.end)
    OBVIOUS
  <2>4. r[1] = q[1] /\ r[2] = q[2] /\ r[1] \in 0..Len(source) /\ r[2] \in 0..Len(source)
    BY <2>3, OneOffset
  <2>5. a = b
    BY <2>2, <2>4
  <2>6. SubSeq(source, 1, r[1]) \in Seq(Characters)
    BY <2>4, PartIs
  <2>7. SubSeq(source, r[2] + 1, Len(source)) \in Seq(Characters)
    <3>1. Len(source) \in Nat /\ Len(source) \in 0..Len(source)
      BY LenProperties
    <3>2. r[2] + 1 \in Nat \ {0}
      BY <2>4
    <3>3. QED
      BY <3>1, <3>2, PartIs
  <2>8. a \in Seq(Characters)
    BY <1>1, <2>2, <2>6, <2>7, ConcatProperties DEF Spliced
  <2>9. QED
    BY <2>5, <2>8
<1>4. QED
  BY <1>2, <1>3

\* So do all changes of a notification.
LEMMA OneChange ==
  ASSUME NEW source \in Seq(Characters), NEW changes \in Seq(Sent)
  PROVE  \A a, b \in Change(source, changes) : a = b /\ a \in Seq(Characters) /\ validateSource(a)
<1> DEFINE n == Len(changes)
<1>1. n \in Nat /\ \A k \in 1..n : changes[k] \in Sent
  BY LenProperties, ElementOfSeq
<1>2. PICK made : /\ Made(source, changes, made, n)
                  /\ Change(source, changes) = {updated \in made[n] : validateSource(updated)}
  BY <1>1, ChangeIs
<1> HIDE DEF n
<1>3. /\ made[0] = {source}
      /\ \A k \in 1..n : made[k] = UNION {Applied(s, changes[k]) : s \in made[k - 1]}
  <2>1. 0 \in 0..n /\ \A k \in 1..n : k \in 0..n /\ k # 0
    BY <1>1
  <2>2. QED
    BY <1>2, <2>1, Zenon DEF Made
<1> DEFINE S == {k \in 0..n : \A a, b \in made[k] : a = b /\ a \in Seq(Characters)}
<1>4. 0 \in S
  BY <1>1, <1>3
<1>5. ASSUME NEW k \in 0..(n - 1), k \in S
      PROVE  k + 1 \in S
  <2>1. k + 1 \in 0..n /\ k + 1 \in 1..n /\ (k + 1) - 1 = k
    BY <1>1
  <2>2. made[k + 1] = UNION {Applied(s, changes[k + 1]) : s \in made[k]}
    BY <1>3, <2>1
  <2>3. ASSUME NEW a \in made[k + 1], NEW b \in made[k + 1]
        PROVE  a = b /\ a \in Seq(Characters)
    <3>1. PICK s \in made[k], t \in made[k] :
            a \in Applied(s, changes[k + 1]) /\ b \in Applied(t, changes[k + 1])
      BY <2>2
    <3>2. s = t /\ s \in Seq(Characters)
      BY <1>5
    <3>3. changes[k + 1] \in Sent
      BY <1>1, <2>1
    <3>4. QED
      BY ONLY <3>1, <3>2, <3>3, OneSource
  <2>4. QED
    BY <2>1, <2>3
<1> HIDE DEF S
<1>6. \A k \in 0..n : k \in S
  BY ONLY <1>1, <1>4, <1>5, Counting
<1>7. n \in S
  BY <1>1, <1>6
<1>8. QED
  BY <1>2, <1>7 DEF S

\* What the server handles, it learns of the stage after it.
LEMMA HandlingKeeps ==
  ASSUME DocumentSyncAssumption, SyncInv, inbox # <<>>, inbox' = Tail(inbox),
         lines' = lines, eol' = eol, open' = open, draft' = draft,
         dropped' \in BOOLEAN, document' \in SUBSET Seq(Characters),
         \A source \in document' :
           validateSource(source) /\ \A other \in document' : other = source,
         \A before, after \in Stage :
           Synced(eol, before) /\ Tells(eol, Head(inbox), before, after) =>
             IF after.open THEN dropped' \/ document' = {Source(eol, after.text)}
             ELSE document' = {}
  PROVE  SyncInv'
<1> DEFINE n == Len(inbox)
<1>1. PICK stages : Led(stages)
  BY DEF SyncInv
<1>2. inbox \in Seq(Messages) /\ n \in Nat /\ n > 0
  <2>1. inbox \in Seq(Messages)
    BY DEF SyncInv, Known
  <2>2. QED
    BY <2>1, EmptySeq, LenProperties
<1>3. /\ inbox' \in Seq(Messages) /\ Len(inbox') = n - 1 /\ Head(inbox) = inbox[1]
      /\ \A k \in 1..(n - 1) : inbox'[k] = inbox[k + 1]
  BY <1>2, HeadTailProperties
<1>4. /\ stages \in [0..n -> Stage] /\ Synced(eol, stages[0])
      /\ \A k \in 1..n : Tells(eol, inbox[k], stages[k - 1], stages[k])
      /\ stages[n].open = open
      /\ Follows(eol, draft.changes, draft.big, stages[n].text, lines)
  BY <1>1 DEF Led
<1>5. n <= MaxInbox
  BY DEF SyncInv, Known
<1> HIDE DEF n
<1>6. PICK later : /\ later \in [0..(n - 1) -> Stage]
                   /\ \A k \in 0..(n - 1) : later[k] = stages[k + 1]
  <2>1. \A k \in 0..(n - 1) : k + 1 \in 0..n
    BY <1>2
  <2> DEFINE f == [k \in 0..(n - 1) |-> stages[k + 1]]
  <2>2. f \in [0..(n - 1) -> Stage] /\ \A k \in 0..(n - 1) : f[k] = stages[k + 1]
    BY <1>4, <2>1
  <2> HIDE DEF f
  <2>3. QED
    BY <2>2
<1>7. Synced(eol, later[0])'
  <2>1. 0 \in 0..n /\ 1 \in 0..n /\ 1 \in 1..n /\ 1 - 1 = 0 /\ 0 \in 0..(n - 1) /\ 0 + 1 = 1
    BY <1>2
  <2>2. stages[0] \in Stage /\ stages[1] \in Stage /\ later[0] = stages[1]
    BY <1>4, <1>6, <2>1
  <2>3. Tells(eol, Head(inbox), stages[0], stages[1])
    BY <1>3, <1>4, <2>1
  <2>4. IF stages[1].open THEN dropped' \/ document' = {Source(eol, stages[1].text)}
        ELSE document' = {}
    BY <1>4, <2>2, <2>3
  <2>5. QED
    BY <2>2, <2>4 DEF Synced
<1>8. Led(later)'
  <2>1. \A k \in 1..(n - 1) : Tells(eol, inbox'[k], later[k - 1], later[k])
    <3>1. TAKE k \in 1..(n - 1)
    <3>2. /\ k \in 0..(n - 1) /\ k - 1 \in 0..(n - 1) /\ k + 1 \in 1..n
          /\ (k - 1) + 1 = k /\ (k + 1) - 1 = k
      BY <1>2
    <3>3. Tells(eol, inbox[k + 1], stages[k], stages[k + 1])
      BY <1>4, <3>2
    <3>4. later[k] = stages[k + 1] /\ later[k - 1] = stages[k] /\ inbox'[k] = inbox[k + 1]
      BY <1>3, <1>6, <3>2
    <3>5. QED
      BY <3>3, <3>4
  <2>2. later[n - 1] = stages[n]
    <3>1. n - 1 \in 0..(n - 1) /\ (n - 1) + 1 = n
      BY <1>2
    <3>2. QED
      BY <1>6, <3>1
  <2>3. QED
    BY <1>3, <1>4, <1>6, <1>7, <2>1, <2>2 DEF Led
<1>9. Len(inbox') <= MaxInbox
  <2>1. MaxInbox \in Nat
    BY DEF DocumentSyncAssumption
  <2>2. QED
    BY ONLY <1>2, <1>3, <1>5, <2>1
<1>10. Known'
  BY <1>3, <1>9 DEF SyncInv, Known, validateSource
<1>11. QED
  BY <1>8, <1>10 DEF SyncInv

\* What the editor sends of a text is its source, and is fit or too large.
LEMMA Whole ==
  ASSUME eol \in Endings, NEW text \in Texts
  PROVE  /\ Joined(text) = Source(eol, text) /\ Joined(text) \in Seq(Characters)
         /\ TooLarge(text) \in BOOLEAN
         /\ DocumentSyncAssumption => validateSource(Joined(text)) \/ TooLarge(text)
<1>1. Joined(text) = Source(eol, text) /\ Joined(text) \in Seq(Characters)
  BY JoinedIsSource, SourceIsSource
<1>2. Bytes(Joined(text)) \in Nat
  <2> DEFINE source == Joined(text)
  <2>1. source \in Seq(Characters)
    BY <1>1
  <2> HIDE DEF source
  <2>2. Len(source) \in Nat /\ Len(source) \in 0..Len(source) /\ 1 \in Nat \ {0}
    BY <2>1, LenProperties
  <2>3. SubSeq(source, 1, Len(source)) = source
    BY <2>1, SubSeqFull
  <2>4. Bytes(SubSeq(source, 1, Len(source))) \in Nat
    BY ONLY <2>1, <2>2, SizesAre
  <2>5. QED
    BY <2>3, <2>4 DEF source
<1>3. TooLarge(text) \in BOOLEAN
  BY DEF TooLarge
<1>4. ASSUME DocumentSyncAssumption
      PROVE  validateSource(Joined(text)) \/ TooLarge(text)
  <2> DEFINE b == Bytes(Joined(text))
  <2>1. b \in Nat /\ MaxDocumentSize \in Nat
    BY <1>2, <1>4 DEF DocumentSyncAssumption
  <2>2. (validateSource(Joined(text)) <=> b <= MaxDocumentSize)
        /\ (TooLarge(text) <=> b > MaxDocumentSize)
    BY DEF validateSource, TooLarge
  <2> HIDE DEF b
  <2>3. QED
    BY <2>1, <2>2
<1>5. QED
  BY <1>1, <1>3, <1>4

\* The position of a place is one LSP can name.
LEMMA SpotIs ==
  ASSUME NEW text \in Texts, NEW at \in Places(text)
  PROVE  Position(text, at) \in Spots
<1> DEFINE wide == {i \in 1..at[2] : text[at[1]][i] = "astral"}
<1>1. /\ Len(text) \in Nat /\ at[1] \in 1..Len(text)
      /\ Len(text[at[1]]) \in Nat /\ at[2] \in 0..Len(text[at[1]])
  BY PlaceIs, TextsAre
<1>2. at[1] - 1 \in Nat /\ at[2] \in Nat
  BY <1>1
<1>3. Cardinality(wide) \in Nat
  <2>1. IsFiniteSet(1..at[2])
    BY <1>2, FS_Interval
  <2>2. IsFiniteSet(wide)
    <3>1. wide \subseteq 1..at[2]
      OBVIOUS
    <3> HIDE DEF wide
    <3>2. QED
      BY <2>1, <3>1, FS_Subset
  <2>3. QED
    BY <2>2, FS_CardinalityType
<1>4. Position(text, at) = [line |-> at[1] - 1, character |-> at[2] + Cardinality(wide)]
  BY DEF Position
<1> HIDE DEF wide
<1>5. QED
  BY <1>2, <1>3, <1>4 DEF Spots

\* A change the editor makes, its draft leads to.
LEMMA EditingKeeps ==
  ASSUME SyncInv, NEW change \in Sent, NEW bigger \in BOOLEAN, open,
         lines' \in Texts, Changes(eol, lines, lines', change, bigger), draft.big => bigger,
         draft' = [changes |-> Append(draft.changes, change), big |-> bigger],
         Len(draft.changes) < MaxChanges, DocumentSyncAssumption,
         UNCHANGED <<eol, open, inbox, document, dropped>>
  PROVE  SyncInv'
<1>1. PICK stages : Led(stages)
  BY DEF SyncInv
<1>2. /\ eol' = eol /\ open' = open /\ inbox' = inbox /\ document' = document
      /\ dropped' = dropped
  OBVIOUS
<1>3. draft.changes \in Seq(Sent) /\ draft.big \in BOOLEAN
  BY DEF SyncInv, Known
<1>4. /\ (draft').changes = Append(draft.changes, change) /\ (draft').big = bigger
      /\ Append(draft.changes, change) \in Seq(Sent)
      /\ Len(Append(draft.changes, change)) = Len(draft.changes) + 1
  BY <1>3, AppendProperties
<1> DEFINE last == stages[Len(inbox)]
<1>5. Follows(eol, draft.changes, draft.big, last.text, lines)
  BY <1>1 DEF Led
<1>6. Follows(eol, (draft').changes, (draft').big, last.text, lines')
  <2> DEFINE was == draft.changes
             is == lines'
             big == draft.big
             b == last.text
  <2>1. was \in Seq(Sent) /\ Follows(eol, was, big, b, lines) /\ is \in Texts
        /\ Changes(eol, lines, is, change, bigger) /\ (big => bigger)
    BY <1>3, <1>5
  <2> HIDE DEF was, is, big, b
  <2>2. Follows(eol, Append(was, change), bigger, b, is)
    BY ONLY <2>1, change \in Sent, MoreFollow
  <2>3. QED
    BY <1>4, <2>2 DEF was, is, b
<1>7. Synced(eol, stages[0])'
  <2>1. Synced(eol, stages[0])
    BY <1>1 DEF Led
  <2>2. QED
    BY <1>2, <2>1 DEF Synced
<1>8. Led(stages)'
  <2>1. /\ stages \in [0..Len(inbox) -> Stage]
        /\ \A k \in 1..Len(inbox) : Tells(eol, inbox[k], stages[k - 1], stages[k])
        /\ stages[Len(inbox)].open = open
    BY <1>1 DEF Led
  <2>2. QED
    BY <1>2, <1>6, <1>7, <2>1, Zenon DEF Led
<1>9. Known'
  <2>1. draft' \in [changes : Seq(Sent), big : BOOLEAN]
    BY <1>4
  <2>2. Len((draft').changes) <= MaxChanges
    <3>1. Len(draft.changes) \in Nat /\ MaxChanges \in Nat
      BY <1>3, LenProperties DEF DocumentSyncAssumption
    <3>2. QED
      BY <1>4, <3>1
  <2>3. QED
    BY <1>2, <2>1, <2>2 DEF SyncInv, Known, validateSource
<1>10. QED
  BY <1>8, <1>9 DEF SyncInv

\* What is inserted is text.
LEMMA InsertionsAre == DocumentSyncAssumption => Insertions \subseteq Texts
BY DEF DocumentSyncAssumption, Texts, Line

\* A keystroke.
LEMMA TypeKeeps ==
  ASSUME DocumentSyncAssumption, SyncInv, Type
  PROVE  SyncInv'
<1>1. lines \in Texts /\ eol \in Endings /\ draft.big \in BOOLEAN
  BY DEF SyncInv, Known
<1>2. PICK from \in Places(lines), to \in Places(lines), insert \in Insertions :
        /\ NotAfter(from, to)
        /\ lines' = Edited(lines, from, to, insert)
        /\ draft' = [changes |-> Append(draft.changes,
                                   [whole |-> FALSE, text |-> Joined(insert),
                                    start |-> Position(lines, from),
                                    end |-> Position(lines, to)]),
                     big |-> draft.big \/ TooLarge(lines')]
  BY DEF Type
<1> DEFINE change == [whole |-> FALSE, text |-> Joined(insert),
                      start |-> Position(lines, from), end |-> Position(lines, to)]
           bigger == draft.big \/ TooLarge(lines')
<1>3. insert \in Texts
  BY InsertionsAre
<1>4. Joined(insert) = Source(eol, insert) /\ Joined(insert) \in Seq(Characters)
  BY <1>1, <1>3, Whole
<1>5. lines' \in Texts
  BY <1>1, <1>2, <1>3, SourceOfEdited
<1>6. change \in Sent
  <2>1. Position(lines, from) \in Spots /\ Position(lines, to) \in Spots
    BY <1>1, SpotIs
  <2>2. QED
    BY <1>4, <2>1 DEF Sent
<1>7. bigger \in BOOLEAN /\ (draft.big => bigger)
  BY <1>1
<1>8. Changes(eol, lines, lines', change, bigger)
  <2>1. validateSource(Source(eol, lines')) \/ bigger
    <3> DEFINE is == lines'
    <3>1. is \in Texts
      BY <1>5
    <3> HIDE DEF is
    <3>2. Joined(is) = Source(eol, is) /\ (validateSource(Joined(is)) \/ TooLarge(is))
      BY <1>1, <3>1, Whole
    <3>3. QED
      BY <3>2 DEF is
  <2>2. ~change.whole
    OBVIOUS
  <2>3. change = [whole |-> FALSE, text |-> Source(eol, insert),
                  start |-> Position(lines, from), end |-> Position(lines, to)]
    BY <1>4
  <2> HIDE DEF change, bigger
  <2>4. QED
    BY <1>2, <2>1, <2>2, <2>3, Zenon DEF Changes
<1>9. draft' = [changes |-> Append(draft.changes, change), big |-> bigger]
  BY <1>2
<1>10. /\ open /\ Len(draft.changes) < MaxChanges
       /\ UNCHANGED <<eol, open, inbox, document, dropped>>
  BY DEF Type
<1> HIDE DEF change, bigger
<1>11. QED
  BY ONLY DocumentSyncAssumption, SyncInv, <1>5, <1>6, <1>7, <1>8, <1>9, <1>10, EditingKeeps

\* The whole text again.
LEMMA ReplacesKeeps ==
  ASSUME DocumentSyncAssumption, SyncInv, Replaces
  PROVE  SyncInv'
<1> DEFINE change == [whole |-> TRUE, text |-> Joined(lines)]
           bigger == draft.big
<1>1. lines \in Texts /\ eol \in Endings /\ draft \in [changes : Seq(Sent), big : BOOLEAN]
  BY DEF SyncInv, Known
<1>2. Joined(lines) = Source(eol, lines) /\ Joined(lines) \in Seq(Characters)
  BY <1>1, Whole
<1>3. change \in Sent
  BY <1>2 DEF Sent
<1>4. /\ open /\ Len(draft.changes) < MaxChanges /\ lines' = lines
      /\ UNCHANGED <<eol, open, inbox, document, dropped>>
      /\ draft' = [draft EXCEPT !.changes = Append(@, change)]
  BY DEF Replaces
<1>5. draft' = [changes |-> Append(draft.changes, change), big |-> bigger]
  BY <1>1, <1>4
<1>6. Changes(eol, lines, lines', change, bigger)
  <2>1. change.whole /\ change.text = Source(eol, lines)
    BY <1>2
  <2>2. QED
    BY <1>4, <2>1 DEF Changes
<1>7. lines' \in Texts /\ bigger \in BOOLEAN /\ (draft.big => bigger)
  BY <1>1, <1>4
<1> HIDE DEF change, bigger
<1>8. QED
  BY ONLY DocumentSyncAssumption, SyncInv, <1>3, <1>4, <1>5, <1>6, <1>7, EditingKeeps

\* What the editor has when nothing is in its draft.
LEMMA NoDraft ==
  ASSUME SyncInv, draft = Empty, NEW last,
         Follows(eol, draft.changes, draft.big, last.text, lines)
  PROVE  last.text = lines
<1>1. lines \in Texts
  BY DEF SyncInv, Known
<1> DEFINE was == last.text
           big == draft.big
<1>2. Follows(eol, <<>>, big, was, lines)
  BY DEF Empty
<1>3. \A before : Follows(eol, <<>>, big, before, lines) => before = lines
  <2> HIDE DEF big
  <2>1. QED
    BY ONLY <1>1, NoneFollow
<1>4. QED
  BY <1>2, <1>3, Zenon

\* The editor sends its draft.
LEMMA SendsChangesKeeps ==
  ASSUME DocumentSyncAssumption, SyncInv, SendsChanges
  PROVE  SyncInv'
<1> DEFINE message == [kind |-> "change", changes |-> draft.changes, big |-> draft.big]
           stage == [open |-> open, text |-> lines]
<1>1. /\ lines \in Texts /\ open \in BOOLEAN /\ open
      /\ draft \in [changes : Seq(Sent), big : BOOLEAN]
  BY DEF SyncInv, Known, SendsChanges
<1>2. /\ Sends(message) /\ lines' = lines /\ open' = open /\ draft' = Empty
  BY DEF SendsChanges
<1>3. message \in Messages /\ stage \in Stage
  BY <1>1 DEF Messages, Stage
<1>4. ASSUME NEW last \in Stage, last.open = open,
             Follows(eol, draft.changes, draft.big, last.text, lines)
      PROVE  Tells(eol, message, last, stage)
  <2>1. message.kind = "change" /\ message.changes = draft.changes /\ message.big = draft.big
        /\ stage.open = open /\ stage.text = lines
    OBVIOUS
  <2> HIDE DEF message, stage
  <2>2. QED
    BY <1>1, <1>4, <2>1 DEF Tells
<1>5. stage.open = open' /\ stage.text = lines' /\ open' \in BOOLEAN
  BY <1>1, <1>2
<1> HIDE DEF message, stage
<1>6. QED
  BY ONLY DocumentSyncAssumption, SyncInv, <1>2, <1>3, <1>4, <1>5, SendingKeeps

\* The other notifications say what the editor has, as there is no draft.
LEMMA OpensKeeps ==
  ASSUME DocumentSyncAssumption, SyncInv, Opens
  PROVE  SyncInv'
<1> DEFINE message == [kind |-> "open", text |-> Joined(lines), big |-> TooLarge(lines)]
           stage == [open |-> TRUE, text |-> lines]
<1>1. lines \in Texts /\ eol \in Endings /\ ~open /\ draft = Empty
  BY DEF SyncInv, Known, Opens
<1>2. /\ Sends(message) /\ lines' = lines /\ open' = TRUE /\ draft' = Empty
  BY <1>1 DEF Opens
<1>3. /\ Joined(lines) = Source(eol, lines) /\ Joined(lines) \in Seq(Characters)
      /\ TooLarge(lines) \in BOOLEAN /\ (validateSource(Joined(lines)) \/ TooLarge(lines))
  BY <1>1, Whole
<1>4. message \in Messages /\ stage \in Stage
  BY <1>1, <1>3 DEF Messages, Stage
<1>5. ASSUME NEW last \in Stage, last.open = open,
             Follows(eol, draft.changes, draft.big, last.text, lines)
      PROVE  Tells(eol, message, last, stage)
  <2>1. message.kind = "open" /\ message.text = Joined(lines) /\ message.big = TooLarge(lines)
        /\ stage.open = TRUE /\ stage.text = lines
    OBVIOUS
  <2>2. last.text = lines
    BY <1>1, <1>5, NoDraft
  <2> HIDE DEF message, stage
  <2>3. QED
    BY <1>1, <1>3, <1>5, <2>1, <2>2 DEF Tells
<1>6. stage.open = open' /\ stage.text = lines' /\ open' \in BOOLEAN
  BY <1>2
<1> HIDE DEF message, stage
<1>7. QED
  BY ONLY DocumentSyncAssumption, SyncInv, <1>2, <1>4, <1>5, <1>6, SendingKeeps

\* The editor says what it has saved, ...
LEMMA SavesKeeps ==
  ASSUME DocumentSyncAssumption, SyncInv, Saves
  PROVE  SyncInv'
<1> DEFINE message == [kind |-> "save", text |-> Joined(lines), big |-> TooLarge(lines)]
           stage == [open |-> open, text |-> lines]
<1>1. lines \in Texts /\ eol \in Endings /\ open /\ draft = Empty /\ open \in BOOLEAN
  BY DEF SyncInv, Known, Saves
<1>2. /\ Sends(message) /\ lines' = lines /\ open' = open /\ draft' = Empty
  BY <1>1 DEF Saves
<1>3. /\ Joined(lines) = Source(eol, lines) /\ Joined(lines) \in Seq(Characters)
      /\ TooLarge(lines) \in BOOLEAN /\ (validateSource(Joined(lines)) \/ TooLarge(lines))
  BY <1>1, Whole
<1>4. message \in Messages /\ stage \in Stage
  BY <1>1, <1>3 DEF Messages, Stage
<1>5. ASSUME NEW last \in Stage, last.open = open,
             Follows(eol, draft.changes, draft.big, last.text, lines)
      PROVE  Tells(eol, message, last, stage)
  <2>1. message.kind = "save" /\ message.text = Joined(lines) /\ message.big = TooLarge(lines)
    OBVIOUS
  <2>2. last.text = lines
    BY <1>1, <1>5, NoDraft
  <2>3. stage = last /\ stage.text = lines
    BY <1>5, <2>2 DEF Stage
  <2> HIDE DEF message, stage
  <2>4. QED
    BY <1>1, <1>3, <1>5, <2>1, <2>3 DEF Tells
<1>6. stage.open = open' /\ stage.text = lines' /\ open' \in BOOLEAN
  BY <1>1, <1>2
<1> HIDE DEF message, stage
<1>7. QED
  BY ONLY DocumentSyncAssumption, SyncInv, <1>2, <1>4, <1>5, <1>6, SendingKeeps

\* ... or that it has closed the document.
LEMMA ClosesKeeps ==
  ASSUME DocumentSyncAssumption, SyncInv, Closes
  PROVE  SyncInv'
<1> DEFINE message == [kind |-> "close"]
           stage == [open |-> FALSE, text |-> lines]
<1>1. lines \in Texts /\ open /\ draft = Empty
  BY DEF SyncInv, Known, Closes
<1>2. /\ Sends(message) /\ lines' = lines /\ open' = FALSE /\ draft' = Empty
  BY <1>1 DEF Closes
<1>3. message \in Messages /\ stage \in Stage
  BY <1>1 DEF Messages, Stage
<1>4. ASSUME NEW last \in Stage, last.open = open,
             Follows(eol, draft.changes, draft.big, last.text, lines)
      PROVE  Tells(eol, message, last, stage)
  <2>1. message.kind = "close" /\ stage.open = FALSE /\ stage.text = lines
    OBVIOUS
  <2>2. last.text = lines
    BY <1>1, <1>4, NoDraft
  <2> HIDE DEF message, stage
  <2>3. QED
    BY <1>1, <1>4, <2>1, <2>2 DEF Tells
<1>5. stage.open = open' /\ stage.text = lines' /\ open' \in BOOLEAN
  BY <1>2
<1> HIDE DEF message, stage
<1>6. QED
  BY ONLY DocumentSyncAssumption, SyncInv, <1>2, <1>3, <1>4, <1>5, SendingKeeps

\* Of a notification the server handles.
LEMMA HeadIs ==
  ASSUME SyncInv, inbox # <<>>
  PROVE  Head(inbox) \in Messages
BY HeadTailProperties DEF SyncInv, Known

\* The text the server opens with, if it fits.
LEMMA DidOpenKeeps ==
  ASSUME DocumentSyncAssumption, SyncInv, DidOpen
  PROVE  SyncInv'
<1> DEFINE message == Head(inbox)
<1>1. /\ inbox # <<>> /\ message.kind = "open" /\ inbox' = Tail(inbox)
      /\ lines' = lines /\ eol' = eol /\ open' = open /\ draft' = draft
  BY DEF DidOpen, Handles
<1>2. message \in Messages
  BY <1>1, HeadIs
<1>3. message.text \in Seq(Characters) /\ message.big \in BOOLEAN
  BY <1>1, <1>2 DEF Messages
<1>4. /\ document \in SUBSET Seq(Characters) /\ dropped \in BOOLEAN
      /\ \A source \in document :
           validateSource(source) /\ \A other \in document : other = source
  BY DEF SyncInv, Known
<1> HIDE DEF message
<1>5. ASSUME NEW before \in Stage, NEW after \in Stage,
             Synced(eol, before), Tells(eol, message, before, after)
      PROVE  /\ after.open /\ message.text = Source(eol, after.text)
             /\ validateSource(message.text) \/ message.big
  BY <1>1, <1>5 DEF Tells
<1>6. CASE validateSource(message.text)
  <2>1. document' = {message.text} /\ dropped' = FALSE
    BY <1>6 DEF DidOpen, message
  <2>2. /\ dropped' \in BOOLEAN /\ document' \in SUBSET Seq(Characters)
        /\ \A source \in document' :
             validateSource(source) /\ \A other \in document' : other = source
    BY <1>3, <1>6, <2>1
  <2>3. \A before, after \in Stage :
           Synced(eol, before) /\ Tells(eol, message, before, after) =>
             IF after.open THEN dropped' \/ document' = {Source(eol, after.text)}
             ELSE document' = {}
    BY <1>5, <2>1
  <2>4. QED
    BY ONLY DocumentSyncAssumption, SyncInv, <1>1, <2>2, <2>3, HandlingKeeps DEF message
<1>7. CASE ~validateSource(message.text)
  <2>1. document' = document /\ dropped' = (dropped \/ message.big)
    BY <1>7 DEF DidOpen, Rejected, message
  <2>2. /\ dropped' \in BOOLEAN /\ document' \in SUBSET Seq(Characters)
        /\ \A source \in document' :
             validateSource(source) /\ \A other \in document' : other = source
    BY <1>3, <1>4, <2>1
  <2>3. \A before, after \in Stage :
           Synced(eol, before) /\ Tells(eol, message, before, after) =>
             IF after.open THEN dropped' \/ document' = {Source(eol, after.text)}
             ELSE document' = {}
    BY <1>5, <1>7, <2>1
  <2>4. QED
    BY ONLY DocumentSyncAssumption, SyncInv, <1>1, <2>2, <2>3, HandlingKeeps DEF message
<1>8. QED
  BY <1>6, <1>7

\* The text that was saved, if there is a document and it fits.
LEMMA DidSaveKeeps ==
  ASSUME DocumentSyncAssumption, SyncInv, DidSave
  PROVE  SyncInv'
<1> DEFINE message == Head(inbox)
<1>1. /\ inbox # <<>> /\ message.kind = "save" /\ inbox' = Tail(inbox)
      /\ lines' = lines /\ eol' = eol /\ open' = open /\ draft' = draft
  BY DEF DidSave, Handles
<1>2. message \in Messages
  BY <1>1, HeadIs
<1>3. message.text \in Seq(Characters) /\ message.big \in BOOLEAN
  BY <1>1, <1>2 DEF Messages
<1>4. /\ document \in SUBSET Seq(Characters) /\ dropped \in BOOLEAN
      /\ \A source \in document :
           validateSource(source) /\ \A other \in document : other = source
  BY DEF SyncInv, Known
<1> HIDE DEF message
<1>5. ASSUME NEW before \in Stage, NEW after \in Stage,
             Synced(eol, before), Tells(eol, message, before, after)
      PROVE  /\ after.open /\ message.text = Source(eol, after.text)
             /\ validateSource(message.text) \/ message.big
             /\ document = {} => dropped
  <2>1. /\ before.open /\ after = before /\ message.text = Source(eol, after.text)
        /\ validateSource(message.text) \/ message.big
    BY <1>1, <1>5 DEF Tells
  <2>2. dropped \/ document = {Source(eol, before.text)}
    BY <1>5, <2>1 DEF Synced
  <2>3. QED
    BY <2>1, <2>2
<1>6. CASE document # {} /\ validateSource(message.text)
  <2>1. document' = {message.text} /\ dropped' = FALSE
    BY <1>6 DEF DidSave, message
  <2>2. /\ dropped' \in BOOLEAN /\ document' \in SUBSET Seq(Characters)
        /\ \A source \in document' :
             validateSource(source) /\ \A other \in document' : other = source
    BY <1>3, <1>6, <2>1
  <2>3. \A before, after \in Stage :
           Synced(eol, before) /\ Tells(eol, message, before, after) =>
             IF after.open THEN dropped' \/ document' = {Source(eol, after.text)}
             ELSE document' = {}
    BY <1>5, <2>1
  <2>4. QED
    BY ONLY DocumentSyncAssumption, SyncInv, <1>1, <2>2, <2>3, HandlingKeeps DEF message
<1>7. CASE ~(document # {} /\ validateSource(message.text))
  <2>1. document' = document /\ dropped' = (dropped \/ message.big)
    BY <1>7 DEF DidSave, Rejected, message
  <2>2. /\ dropped' \in BOOLEAN /\ document' \in SUBSET Seq(Characters)
        /\ \A source \in document' :
             validateSource(source) /\ \A other \in document' : other = source
    BY <1>3, <1>4, <2>1
  <2>3. \A before, after \in Stage :
           Synced(eol, before) /\ Tells(eol, message, before, after) =>
             IF after.open THEN dropped' \/ document' = {Source(eol, after.text)}
             ELSE document' = {}
    BY <1>5, <1>7, <2>1
  <2>4. QED
    BY ONLY DocumentSyncAssumption, SyncInv, <1>1, <2>2, <2>3, HandlingKeeps DEF message
<1>8. QED
  BY <1>6, <1>7

\* Nothing is left of a closed document.
LEMMA DidCloseKeeps ==
  ASSUME DocumentSyncAssumption, SyncInv, DidClose
  PROVE  SyncInv'
<1>1. /\ inbox # <<>> /\ Head(inbox).kind = "close" /\ inbox' = Tail(inbox)
      /\ lines' = lines /\ eol' = eol /\ open' = open /\ draft' = draft
      /\ document' = {} /\ dropped' = dropped
  BY DEF DidClose, Handles
<1>2. /\ dropped' \in BOOLEAN /\ document' \in SUBSET Seq(Characters)
      /\ \A source \in document' :
           validateSource(source) /\ \A other \in document' : other = source
  BY <1>1 DEF SyncInv, Known
<1>3. \A before, after \in Stage :
         Synced(eol, before) /\ Tells(eol, Head(inbox), before, after) =>
           IF after.open THEN dropped' \/ document' = {Source(eol, after.text)}
           ELSE document' = {}
  BY <1>1 DEF Tells
<1>4. QED
  BY ONLY DocumentSyncAssumption, SyncInv, <1>1, <1>2, <1>3, HandlingKeeps

\* The changes of a notification, of the source the server has, if it has one.
LEMMA DidChangeKeeps ==
  ASSUME DocumentSyncAssumption, SyncInv, DidChange
  PROVE  SyncInv'
<1> DEFINE message == Head(inbox)
           changes == message.changes
           updated == UNION {Change(s, changes) : s \in document}
<1>1. /\ inbox # <<>> /\ message.kind = "change" /\ inbox' = Tail(inbox)
      /\ lines' = lines /\ eol' = eol /\ open' = open /\ draft' = draft
  BY DEF DidChange, Handles
<1>2. message \in Messages
  BY <1>1, HeadIs
<1>3. changes \in Seq(Sent) /\ message.big \in BOOLEAN
  BY <1>1, <1>2 DEF Messages
<1>4. /\ document \in SUBSET Seq(Characters) /\ dropped \in BOOLEAN
      /\ \A source \in document :
           validateSource(source) /\ \A other \in document : other = source
      /\ eol \in Endings
  BY DEF SyncInv, Known
<1>5. /\ updated # {} => document' = updated /\ dropped' = (dropped /\ ~HasWhole(changes))
      /\ updated = {} => document' = document /\ dropped' = (dropped \/ message.big)
  BY DEF DidChange, Rejected
<1>6. Len(changes) \in Nat /\ DOMAIN changes = 1..Len(changes)
  BY <1>3, LenProperties
<1>7. Insertions \subseteq Texts
  BY InsertionsAre
<1> HIDE DEF message, changes
\* What the server has afterwards is one source, and fits.
<1>8. /\ updated \in SUBSET Seq(Characters)
      /\ \A source \in updated :
           validateSource(source) /\ \A other \in updated : other = source
  <2>1. ASSUME NEW a \in updated, NEW b \in updated
        PROVE  a = b /\ a \in Seq(Characters) /\ validateSource(a)
    <3>1. PICK s \in document, t \in document : a \in Change(s, changes) /\ b \in Change(t, changes)
      OBVIOUS
    <3>2. s = t /\ s \in Seq(Characters)
      BY <1>4
    <3>3. QED
      BY ONLY <1>3, <3>1, <3>2, OneChange
  <2> HIDE DEF updated
  <2>2. QED
    BY <2>1
<1>9. ASSUME NEW before \in Stage, NEW after \in Stage,
             Synced(eol, before), Tells(eol, message, before, after)
      PROVE  /\ after.open
             /\ dropped \/ document = {Source(eol, before.text)}
             /\ Follows(eol, changes, message.big, before.text, after.text)
  <2>1. /\ before.open /\ after.open
        /\ Follows(eol, changes, message.big, before.text, after.text)
    BY <1>1, <1>9 DEF Tells, changes
  <2>2. QED
    BY <1>9, <2>1 DEF Synced
<1>10. ASSUME NEW b \in Texts, NEW a \in Texts, Follows(eol, changes, message.big, b, a),
              dropped \/ document = {Source(eol, b)}
       PROVE  /\ ~dropped \/ HasWhole(changes) => updated \subseteq {Source(eol, a)}
              /\ ~dropped /\ ~message.big => updated = {Source(eol, a)}
  <2>1. ASSUME NEW s \in document
        PROVE  /\ s = Source(eol, b) \/ HasWhole(changes) =>
                    Change(s, changes) \subseteq {Source(eol, a)}
               /\ s = Source(eol, b) /\ validateSource(s) /\ ~message.big =>
                    Change(s, changes) = {Source(eol, a)}
    <3> DEFINE big == message.big
    <3>1. Follows(eol, changes, big, b, a) /\ Len(changes) \in Nat
      BY <1>6, <1>10
    <3> HIDE DEF big
    <3>2. /\ s = Source(eol, b) \/ (HasWhole(changes) /\ DOMAIN changes = 1..Len(changes)) =>
               Change(s, changes) \subseteq {Source(eol, a)}
          /\ s = Source(eol, b) /\ validateSource(s) /\ ~big =>
               Change(s, changes) = {Source(eol, a)}
      BY ONLY <1>4, <1>7, <3>1, b \in Texts, a \in Texts, AllApplied
    <3>3. QED
      BY <1>6, <3>2 DEF big
  <2>2. ~dropped \/ HasWhole(changes) => updated \subseteq {Source(eol, a)}
    <3>1. SUFFICES ASSUME ~dropped \/ HasWhole(changes), NEW x \in updated
                   PROVE  x = Source(eol, a)
      OBVIOUS
    <3>2. PICK s \in document : x \in Change(s, changes)
      OBVIOUS
    <3>3. s = Source(eol, b) \/ HasWhole(changes)
      BY <1>10, <3>1
    <3>4. QED
      BY <2>1, <3>2, <3>3
  <2>3. ~dropped /\ ~message.big => updated = {Source(eol, a)}
    <3>1. SUFFICES ASSUME ~dropped, ~message.big
                   PROVE  updated = {Source(eol, a)}
      OBVIOUS
    <3>2. document = {Source(eol, b)}
      BY <1>10, <3>1
    <3>3. Change(Source(eol, b), changes) = {Source(eol, a)}
      BY <1>4, <2>1, <3>1, <3>2
    <3>4. QED
      BY ONLY <3>2, <3>3
  <2>4. QED
    BY <2>2, <2>3
<1> HIDE DEF updated
<1>11. /\ dropped' \in BOOLEAN /\ document' \in SUBSET Seq(Characters)
       /\ \A source \in document' :
            validateSource(source) /\ \A other \in document' : other = source
  BY <1>3, <1>4, <1>5, <1>8
<1>12. ASSUME NEW before \in Stage, NEW after \in Stage,
              Synced(eol, before), Tells(eol, message, before, after)
       PROVE  after.open /\ (dropped' \/ document' = {Source(eol, after.text)})
  <2> DEFINE b == before.text
             a == after.text
  <2>1. b \in Texts /\ a \in Texts
    BY DEF Stage
  <2>2. /\ after.open /\ (dropped \/ document = {Source(eol, b)})
        /\ Follows(eol, changes, message.big, b, a)
    BY <1>9, <1>12
  <2> HIDE DEF a, b
  <2>3. /\ ~dropped \/ HasWhole(changes) => updated \subseteq {Source(eol, a)}
        /\ ~dropped /\ ~message.big => updated = {Source(eol, a)}
    BY <1>10, <2>1, <2>2
  <2>4. dropped' \/ document' = {Source(eol, a)}
    <3>1. CASE updated # {}
      BY <1>5, <2>3, <3>1
    <3>2. CASE updated = {}
      BY <1>4, <1>3, <1>5, <2>3, <3>2
    <3>3. QED
      BY <3>1, <3>2
  <2>5. QED
    BY <2>2, <2>4 DEF a
<1>13. \A before, after \in Stage :
          Synced(eol, before) /\ Tells(eol, message, before, after) =>
            IF after.open THEN dropped' \/ document' = {Source(eol, after.text)}
            ELSE document' = {}
  BY <1>12
<1>14. QED
  BY ONLY DocumentSyncAssumption, SyncInv, <1>1, <1>11, <1>13, HandlingKeeps DEF message

-----------------------------------------------------------------------------
(* The invariants.                                                         *)

\* At first nothing is open, and nothing is on its way.
LEMMA SyncInit == ASSUME DocumentSyncAssumption, Init
                  PROVE  SyncInv
<1> DEFINE stages == [k \in 0..0 |-> [open |-> FALSE, text |-> << <<>> >>]]
<1>1. << <<>> >> \in Texts
  <2>1. <<>> \in Line
    BY EmptySeq DEF Line
  <2>2. << <<>> >> \in Seq(Line)
    BY <2>1
  <2>3. << <<>> >> # <<>>
    OBVIOUS
  <2>4. QED
    BY <2>2, <2>3 DEF Texts
<1>2. /\ lines = << <<>> >> /\ eol \in Endings /\ open = FALSE /\ draft = Empty
      /\ inbox = <<>> /\ document = {} /\ dropped = FALSE
      /\ draft.changes = <<>> /\ draft.big = FALSE
  BY DEF Init, Endings, Empty
<1>3. Len(inbox) = 0 /\ Len(draft.changes) = 0 /\ inbox \in Seq(Messages)
      /\ draft.changes \in Seq(Sent)
  BY <1>2, EmptySeq
<1>4. draft \in [changes : Seq(Sent), big : BOOLEAN]
  BY <1>2, EmptySeq DEF Empty
<1>5. 0 <= MaxChanges /\ 0 <= MaxInbox
  BY DEF DocumentSyncAssumption
<1>6. Known
  BY <1>1, <1>2, <1>3, <1>4, <1>5 DEF Known
<1>7. stages[0] = [open |-> FALSE, text |-> lines] /\ stages \in [0..0 -> Stage]
  BY <1>1, <1>2 DEF Stage
<1>8. Follows(eol, draft.changes, draft.big, lines, lines)
  BY <1>1, <1>2, NoneFollow
<1> HIDE DEF stages
<1>9. Led(stages)
  BY <1>2, <1>3, <1>7, <1>8, SMTT(30) DEF Led, Synced
<1>10. QED
  BY <1>6, <1>9 DEF SyncInv

\* Each action.
LEMMA SyncStep == ASSUME DocumentSyncAssumption, SyncInv, [Next]_vars
                  PROVE  SyncInv'
<1>1. CASE UNCHANGED vars
  <2>1. /\ lines' = lines /\ eol' = eol /\ open' = open /\ draft' = draft
        /\ inbox' = inbox /\ document' = document /\ dropped' = dropped
    BY <1>1 DEF vars
  <2>2. Known'
    BY <2>1 DEF SyncInv, Known, validateSource
  <2>3. PICK stages : Led(stages)
    BY DEF SyncInv
  <2>4. Led(stages)'
    BY <2>1, <2>3 DEF Led, Synced
  <2>5. QED
    BY <2>2, <2>4 DEF SyncInv
<1>2. CASE Next
  <2>1. CASE Opens \/ Type \/ Replaces \/ SendsChanges \/ Saves \/ Closes
    BY <2>1, OpensKeeps, TypeKeeps, ReplacesKeeps, SendsChangesKeeps, SavesKeeps, ClosesKeeps
  <2>2. CASE DidOpen \/ DidChange \/ DidSave \/ DidClose
    BY <2>2, DidOpenKeeps, DidChangeKeeps, DidSaveKeeps, DidCloseKeeps
  <2>3. QED
    BY <1>2, <2>1, <2>2 DEF Next
<1>3. QED
  BY <1>1, <1>2

\* With nothing on its way and no draft, what the server knows is what the
\* editor has.
LEMMA KnownIsSynced == SyncInv => InSync
<1> SUFFICES ASSUME SyncInv, inbox = <<>>, draft = Empty, ~dropped
             PROVE  document = IF open THEN {Joined(lines)} ELSE {}
  BY DEF InSync
<1>1. PICK stages : Led(stages)
  BY DEF SyncInv
<1>2. Len(inbox) = 0
  BY EmptySeq
<1>3. /\ Synced(eol, stages[0]) /\ stages[0].open = open
      /\ Follows(eol, draft.changes, draft.big, stages[0].text, lines)
  BY <1>1, <1>2 DEF Led
<1> DEFINE last == stages[0]
<1>4. last.text = lines
  <2>1. Follows(eol, draft.changes, draft.big, last.text, lines)
    BY <1>3
  <2> HIDE DEF last
  <2>2. QED
    BY <2>1, NoDraft
<1>5. lines \in Texts /\ eol \in Endings /\ open \in BOOLEAN
  BY DEF SyncInv, Known
<1>6. Joined(lines) = Source(eol, lines)
  BY <1>5, Whole
<1>7. QED
  BY <1>3, <1>4, <1>5, <1>6 DEF Synced

\* Positions and points of what the server has.
LEMMA SourcesAgree == ASSUME DocumentSyncAssumption, SyncInv
                      PROVE  PositionsAgree
<1> SUFFICES ASSUME NEW source \in document, NEW start \in 0..Len(source)
             PROVE  /\ ~InLineEnding(source, start) =>
                         ByteOffset(source, PositionAt(source, start)) = {start}
                    /\ \A insert \in Insertions, end \in start..Len(source) :
                         replacementEndPoint(pointForOffset(source, start), Joined(insert)) =
                           pointForOffset(Spliced(source, start, end, Joined(insert)),
                                          start + Len(Joined(insert)))
  BY DEF PositionsAgree
<1>1. source \in Seq(Characters) /\ eol \in Endings
  BY DEF SyncInv, Known
<1>2. ~InLineEnding(source, start) => ByteOffset(source, PositionAt(source, start)) = {start}
  BY <1>1, PositionMeansOffset
<1>3. ASSUME NEW insert \in Insertions, NEW end \in start..Len(source)
      PROVE  replacementEndPoint(pointForOffset(source, start), Joined(insert)) =
               pointForOffset(Spliced(source, start, end, Joined(insert)),
                              start + Len(Joined(insert)))
  <2>1. Joined(insert) \in Seq(Characters)
    BY <1>1, InsertionsAre, Whole
  <2>2. QED
    BY <1>1, <2>1, ReplacementEnds
<1>4. QED
  BY <1>2, <1>3

\* What the invariant says of the types.
LEMMA KnownIsTyped == SyncInv => TypeOK
<1> SUFFICES ASSUME SyncInv
             PROVE  TypeOK
  OBVIOUS
<1>1. /\ lines \in Texts /\ eol \in Endings /\ open \in BOOLEAN /\ dropped \in BOOLEAN
      /\ Len(draft.changes) <= MaxChanges /\ Len(inbox) <= MaxInbox
      /\ document \in SUBSET Seq(Characters)
      /\ \A source \in document : validateSource(source) /\ \A other \in document : other = source
  BY DEF SyncInv, Known
<1>2. Cardinality(document) <= 1
  <2>1. CASE document = {}
    BY <2>1, FS_EmptySet
  <2>2. CASE document # {}
    <3>1. PICK source \in document : TRUE
      BY <2>2
    <3>2. \A other \in document : other = source
      BY <1>1
    <3>3. document = {source}
      BY <3>2
    <3>4. Cardinality(document) = 1
      BY ONLY <3>3, FS_Singleton
    <3>5. QED
      BY <3>4
  <2>3. QED
    BY <2>1, <2>2
<1>3. QED
  BY <1>1, <1>2 DEF TypeOK, Texts, Line, Endings, validateSource

\* The inductive invariant: from what the server knows, the notifications on
\* their way and the draft lead to what the editor has.
THEOREM DocumentInvariant ==
  ASSUME DocumentSyncAssumption
  PROVE  Spec => []SyncInv
<1>1. Init => SyncInv
  BY SyncInit
<1>2. SyncInv /\ [Next]_vars => SyncInv'
  BY SyncStep
<1>3. QED
  BY <1>1, <1>2, PTL DEF Spec

\* Types; the server never keeps a source beyond the limit, nor two of one
\* document.
THEOREM DocumentTypes ==
  ASSUME DocumentSyncAssumption
  PROVE  Spec => []TypeOK
BY DocumentInvariant, KnownIsTyped, PTL
=============================================================================
