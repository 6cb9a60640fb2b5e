---- MODULE WordsProofs ----
(***************************************************************************)
(* Proofs about KeywordEntityParserUtils, for every text: where its words  *)
(* stand, and that the index range of an n-gram is where its words are.    *)
(***************************************************************************)
EXTENDS KeywordEntityParserUtils, FiniteSetTheorems, WellFoundedInduction, SequenceTheorems, TLAPS

--------------------------------------------------------------------------
(* Numbers in order. *)

\* A set of numbers that is not empty has a least one: induction, as far as it can
\* be cited here.
LEMMA Least ==
  ASSUME NEW S \in SUBSET Nat, S # {}
  PROVE  \E n \in S : \A m \in S : n <= m
<1>. DEFINE R == OpToRel(<, Nat)
<1>1. IsWellFoundedOn(R, Nat)
  BY NatLessThanWellFounded
<1>2. \A x, y \in Nat : x < y => <<x, y>> \in R
  BY DEF OpToRel
<1>. HIDE DEF R
<1>3. PICK n \in S : \A y \in S : ~(<<y, n>> \in R)
  BY <1>1, WFMin
<1>4. \A m \in S : ~(m < n)
  BY <1>2, <1>3
<1>5. \A m \in S : n <= m
  BY <1>4
<1>. QED BY <1>5

\* Induction as far as it can be cited here: a set of numbers up to m that holds 0
\* and, with a number, the next one, holds them all.
LEMMA UpTo ==
  ASSUME NEW m \in Nat, NEW P \in SUBSET Nat, 0 \in P,
         \A n \in 0..(m - 1) : n \in P => n + 1 \in P
  PROVE  \A n \in 0..m : n \in P
<1>. DEFINE S == {n \in 0..m : n \notin P}
<1>1. SUFFICES ASSUME S # {} PROVE FALSE
  OBVIOUS
<1>2. S \in SUBSET Nat
  OBVIOUS
<1>3. \E n \in S : \A k \in S : n <= k
  <2>. HIDE DEF S
  <2>. QED BY <1>1, <1>2, Least
<1>4. PICK n \in S : \A k \in S : n <= k
  BY <1>3
<1>5. n \in 1..m /\ n - 1 \in 0..(m - 1) /\ n - 1 \notin S
  BY <1>4
<1>. QED BY <1>4, <1>5

\* The numbers of a set up to one of them.
Below(S, p) == {q \in S : q <= p}

\* There are as many of them as numbers, or fewer.
LEMMA BelowIsFinite ==
  ASSUME NEW S \in SUBSET Nat, IsFiniteSet(S), NEW p
  PROVE  /\ IsFiniteSet(Below(S, p)) /\ Cardinality(Below(S, p)) \in Nat
         /\ Cardinality(S) \in Nat /\ Cardinality(Below(S, p)) <= Cardinality(S)
         /\ Cardinality(Below(S, p)) = Cardinality(S) => Below(S, p) = S
<1>1. Below(S, p) \in SUBSET S
  BY DEF Below
<1>. QED BY <1>1, FS_Subset, FS_CardinalityType

\* Of each number up to that of all, there is one up to which there are as many.
LEMMA SomeKth ==
  ASSUME NEW S \in SUBSET Nat, IsFiniteSet(S), NEW k \in 1..Cardinality(S)
  PROVE  \E p \in S : Cardinality(Below(S, p)) = k
<1>. DEFINE N == Cardinality(S)
            P == {n \in Nat : n > 0 /\ n <= N => \E p \in S : Cardinality(Below(S, p)) = n}
<1>1. N \in Nat
  BY FS_CardinalityType
<1>2. 0 \in P
  OBVIOUS
<1>3. ASSUME NEW n \in 0..(N - 1), n \in P PROVE n + 1 \in P
  <2>1. \E p \in S : Cardinality(Below(S, p)) = n + 1
    <3>1. CASE n = 0
      <4>1. S # {}
        BY <1>1, <1>3, FS_EmptySet
      <4>2. PICK p \in S : \A q \in S : p <= q
        BY <4>1, Least
      <4>3. Below(S, p) = {} \cup {p}
        <5>1. \A q \in S : q <= p => q = p
          <6>. TAKE q \in S
          <6>1. q \in Nat /\ p \in Nat /\ p <= q
            BY <4>2
          <6>. QED BY <6>1
        <5>2. p \in Nat /\ p <= p
          OBVIOUS
        <5>. QED BY <5>1, <5>2 DEF Below
      <4>4. Cardinality({} \cup {p}) = Cardinality({}) + 1
        BY FS_AddElement, FS_EmptySet
      <4>. QED BY <3>1, <4>3, <4>4, FS_EmptySet
    <3>2. CASE n # 0
      <4>1. PICK p \in S : Cardinality(Below(S, p)) = n
        BY <1>1, <1>3, <3>2
      <4>. DEFINE T == {q \in S : q > p}
      <4>2. T # {}
        <5>1. SUFFICES ASSUME T = {} PROVE FALSE
          OBVIOUS
        <5>2. \A q \in S : q <= p
          BY <5>1
        <5>3. Below(S, p) = S
          BY <5>2 DEF Below
        <5>. QED BY <1>1, <1>3, <4>1, <5>3
      <4>3. \E r \in T : \A q \in T : r <= q
        <5>1. T \in SUBSET Nat
          OBVIOUS
        <5>. HIDE DEF T
        <5>. QED BY <4>2, <5>1, Least
      <4>4. PICK r \in T : \A q \in T : r <= q
        BY <4>3
      <4>5. r \in S /\ r > p /\ r \notin Below(S, p) /\ r \in Nat /\ p \in Nat
        BY <4>4 DEF Below
      <4>6. Below(S, r) = Below(S, p) \cup {r}
        <5>1. \A q \in S : q <= r <=> q <= p \/ q = r
          <6>. TAKE q \in S
          <6>1. q \in Nat /\ (q > p => r <= q)
            BY <4>4
          <6>. QED BY <4>5, <6>1
        <5>. QED BY <4>5, <5>1 DEF Below
      <4>7. Cardinality(Below(S, p) \cup {r}) = Cardinality(Below(S, p)) + 1
        BY <4>5, BelowIsFinite, FS_AddElement
      <4>. QED BY <4>1, <4>5, <4>6, <4>7
    <3>. QED BY <3>1, <3>2
  <2>. QED BY <2>1
<1>4. k \in P
  <2>. HIDE DEF P
  <2>1. P \in SUBSET Nat
    BY DEF P
  <2>2. \A n \in 0..N : n \in P
    BY <1>1, <1>2, <1>3, <2>1, UpTo
  <2>. QED BY <2>2
<1>. QED BY <1>4

\* The numbers of a set, in order and each once.
LEMMA SortedIsSorted ==
  ASSUME NEW S \in SUBSET Nat, IsFiniteSet(S)
  PROVE  /\ Cardinality(S) \in Nat /\ Sorted(S) \in [1..Cardinality(S) -> S]
         /\ Sorted(S) \in Seq(S) /\ Len(Sorted(S)) = Cardinality(S)
         /\ DOMAIN Sorted(S) = 1..Cardinality(S)
         /\ \A j, k \in 1..Cardinality(S) : j < k => Sorted(S)[j] < Sorted(S)[k]
         /\ \A p \in S : \E k \in 1..Cardinality(S) : Sorted(S)[k] = p
<1>. DEFINE N == Cardinality(S)
            f == Sorted(S)
<1>1. N \in Nat
  BY FS_CardinalityType
<1>2. ASSUME NEW k \in 1..N PROVE f[k] \in S /\ Cardinality(Below(S, f[k])) = k
  <2>1. \E p \in S : Cardinality(Below(S, p)) = k
    BY SomeKth
  <2>2. f[k] = CHOOSE p \in S : Cardinality(Below(S, p)) = k
    BY DEF Sorted, Below
  <2>. QED BY <2>1, <2>2
<1>3. f \in [1..N -> S]
  <2>1. f = [k \in 1..N |-> f[k]]
    BY DEF Sorted
  <2>. HIDE DEF f
  <2>. QED BY <1>2, <2>1
<1>. HIDE DEF f
<1>4. f \in Seq(S) /\ Len(f) = N /\ DOMAIN f = 1..N
  BY <1>1, <1>3
<1>5. ASSUME NEW p \in S, NEW q \in S, p <= q
      PROVE  Cardinality(Below(S, p)) <= Cardinality(Below(S, q))
  <2>1. Below(S, p) \in SUBSET Below(S, q)
    <3>1. p \in Nat /\ q \in Nat
      OBVIOUS
    <3>2. \A r \in S : r \in Nat
      OBVIOUS
    <3>3. \A r \in S : r <= p => r <= q
      BY <1>5, <3>1, <3>2
    <3>. QED BY <3>3 DEF Below
  <2>. QED BY <2>1, BelowIsFinite, FS_Subset
<1>6. ASSUME NEW j \in 1..N, NEW k \in 1..N, j < k PROVE f[j] < f[k]
  <2>1. f[j] \in S /\ f[k] \in S /\ f[j] \in Nat /\ f[k] \in Nat
    BY <1>2
  <2>2. Cardinality(Below(S, f[j])) = j /\ Cardinality(Below(S, f[k])) = k
    BY <1>2
  <2>3. ~(f[k] <= f[j])
    <3>1. SUFFICES ASSUME f[k] <= f[j] PROVE FALSE
      OBVIOUS
    <3>2. k <= j
      BY <1>5, <2>1, <2>2, <3>1
    <3>. QED BY <1>6, <3>2
  <2>. QED BY <2>1, <2>3
<1>7. ASSUME NEW p \in S PROVE \E k \in 1..N : f[k] = p
  <2>. DEFINE k == Cardinality(Below(S, p))
  <2>1. p \in Below(S, p) /\ k \in Nat /\ k <= N
    BY BelowIsFinite DEF Below
  <2>2. k \in 1..N
    <3>1. k # 0
      BY <2>1, BelowIsFinite, FS_EmptySet
    <3>. QED BY <1>1, <2>1, <3>1
  <2>3. f[k] \in S /\ Cardinality(Below(S, f[k])) = k
    BY <1>2, <2>2
  <2>4. f[k] \in Nat /\ p \in Nat
    BY <2>3
  <2>5. f[k] = p
    <3>1. CASE f[k] < p
      <4>1. Below(S, f[k]) \in SUBSET Below(S, p)
        <5>1. \A r \in S : r \in Nat
          OBVIOUS
        <5>2. \A r \in S : r <= f[k] => r <= p
          BY <2>4, <3>1, <5>1
        <5>. QED BY <5>2 DEF Below
      <4>2. Below(S, f[k]) = Below(S, p)
        BY <2>3, <4>1, BelowIsFinite, FS_Subset
      <4>3. p <= f[k]
        BY <2>1, <4>2 DEF Below
      <4>. QED BY <2>4, <3>1, <4>3
    <3>2. CASE p < f[k]
      <4>1. Below(S, p) \in SUBSET Below(S, f[k])
        <5>1. \A r \in S : r \in Nat
          OBVIOUS
        <5>2. \A r \in S : r <= p => r <= f[k]
          BY <2>4, <3>2, <5>1
        <5>. QED BY <5>2 DEF Below
      <4>2. Below(S, f[k]) = Below(S, p)
        BY <2>3, <4>1, BelowIsFinite, FS_Subset
      <4>3. f[k] \in Below(S, f[k])
        BY <2>3, <2>4 DEF Below
      <4>4. f[k] <= p
        BY <4>2, <4>3 DEF Below
      <4>. QED BY <2>4, <3>2, <4>4
    <3>. QED BY <2>4, <3>1, <3>2
  <2>. QED BY <2>2, <2>5
<1>. QED BY <1>1, <1>3, <1>4, <1>6, <1>7 DEF f

--------------------------------------------------------------------------
(* The words of a text. *)

\* A word starts at the start of the text, or behind a separator.
LEMMA StartsAreNumbers ==
  ASSUME NEW C, NEW x \in Seq(C)
  PROVE  /\ Len(x) \in Nat /\ DOMAIN x = 1..Len(x)
         /\ WordStarts(x) \in SUBSET Nat /\ IsFiniteSet(WordStarts(x))
         /\ \A p \in WordStarts(x) : p \in 0..(Len(x) - 1) /\ x[p + 1] # Blank
                                     /\ (p > 0 => x[p] = Blank)
<1>1. Len(x) \in Nat /\ DOMAIN x = 1..Len(x)
  BY LenProperties
<1>2. WordStarts(x) \in SUBSET (0..(Len(x) - 1))
  BY DEF WordStarts
<1>3. IsFiniteSet(0..(Len(x) - 1))
  BY <1>1, FS_Interval
<1>4. IsFiniteSet(WordStarts(x))
  BY <1>2, <1>3, FS_Subset
<1>5. WordStarts(x) \in SUBSET Nat
  BY <1>1, <1>2
<1>6. \A p \in WordStarts(x) : p \in 0..(Len(x) - 1) /\ x[p + 1] # Blank
                                     /\ (p > 0 => x[p] = Blank)
  BY DEF WordStarts
<1>. QED BY <1>1, <1>4, <1>5, <1>6

\* The word that starts at p ends at e.
WordEnds(x, p, e) ==
  /\ e \in p..(Len(x) - 1)
  /\ \A q \in p..e : x[q + 1] # Blank
  /\ e + 1 < Len(x) => x[e + 2] = Blank

\* A word goes up to the next character that splits words, or to the end.
LEMMA WordIs ==
  ASSUME NEW C, NEW x \in Seq(C), NEW p \in WordStarts(x)
  PROVE  \E e \in p..(Len(x) - 1) :
           /\ WordEnds(x, p, e)
           /\ WordAt(x, p) = SubSeq(x, p + 1, e + 1)
           /\ WordAt(x, p) \in Seq(C) /\ Len(WordAt(x, p)) = e - p + 1
           /\ \A k \in 1..(e - p + 1) : WordAt(x, p)[k] = x[p + k]
<1>1. Len(x) \in Nat /\ p \in 0..(Len(x) - 1) /\ p \in Nat /\ x[p + 1] # Blank
  BY StartsAreNumbers
<1>. DEFINE B    == {q \in p..(Len(x) - 1) : q + 1 < Len(x) => x[q + 2] = Blank}
            ends == {q \in p..(Len(x) - 1) :
                       x[q + 1] # Blank /\ (q + 1 < Len(x) => x[q + 2] = Blank)}
<1>2. \E b \in B : \A q \in B : b <= q
  <2>1. Len(x) - 1 \in B
    BY <1>1
  <2>2. B \in SUBSET Nat
    BY <1>1
  <2>. HIDE DEF B
  <2>. QED BY <2>1, <2>2, Least
<1>3. PICK b \in B : \A q \in B : b <= q
  BY <1>2
<1>4. b \in p..(Len(x) - 1) /\ b \in Nat /\ (b + 1 < Len(x) => x[b + 2] = Blank)
  BY <1>1, <1>3
<1>5. ASSUME NEW q \in p..b PROVE x[q + 1] # Blank
  <2>1. CASE q = p
    BY <1>1, <2>1
  <2>2. CASE q # p
    <3>1. q - 1 \in p..(Len(x) - 1) /\ ~(b <= q - 1) /\ (q - 1) + 1 < Len(x) /\ (q - 1) + 2 = q + 1
      BY <1>1, <1>4, <2>2
    <3>2. q - 1 \notin B
      <4>. HIDE DEF B
      <4>. QED BY <1>3, <3>1
    <3>. QED BY <3>1, <3>2
  <2>. QED BY <2>1, <2>2
<1>6. b \in ends /\ \A q \in ends : b <= q
  <2>1. b \in p..b
    BY <1>1, <1>4
  <2>2. b \in ends
    BY <1>4, <1>5, <2>1
  <2>3. \A q \in ends : q \in B
    OBVIOUS
  <2>. HIDE DEF B, ends
  <2>. QED BY <1>3, <2>2, <2>3
<1>7. Min(ends) = b
  <2>1. \A q \in ends : q \in Nat
    BY <1>1
  <2>. HIDE DEF ends, B
  <2>2. \E y \in ends : \A q \in ends : y <= q
    BY <1>6
  <2>3. Min(ends) \in ends /\ \A q \in ends : Min(ends) <= q
    BY <2>2 DEF Min
  <2>4. Min(ends) \in Nat /\ Min(ends) <= b /\ b <= Min(ends)
    BY <1>6, <2>1, <2>3
  <2>. QED BY <1>4, <2>4
<1>8. WordAt(x, p) = SubSeq(x, p + 1, b + 1)
  <2>1. WordAt(x, p) = SubSeq(x, p + 1, Min(ends) + 1)
    BY DEF WordAt
  <2>. HIDE DEF ends, B
  <2>. QED BY <1>7, <2>1
<1>9. WordEnds(x, p, b)
  BY <1>4, <1>5 DEF WordEnds
<1>. HIDE DEF B, ends
<1>10. p + 1 \in 1..Len(x) /\ b + 1 \in 1..Len(x) /\ p + 1 <= b + 1
       /\ (b + 1) - (p + 1) + 1 = b - p + 1
       /\ \A k \in 1..(b - p + 1) : (p + 1) + k - 1 = p + k
  BY <1>1, <1>4
<1>11. \A k \in (p + 1)..(b + 1) : x[k] \in C
  BY <1>10, ElementOfSeq, <1>1
<1>12. /\ SubSeq(x, p + 1, b + 1) \in Seq(C) /\ Len(SubSeq(x, p + 1, b + 1)) = b - p + 1
       /\ \A k \in 1..(b - p + 1) : SubSeq(x, p + 1, b + 1)[k] = x[p + k]
  <2>1. /\ SubSeq(x, p + 1, b + 1) \in Seq(C)
        /\ Len(SubSeq(x, p + 1, b + 1)) = IF p + 1 <= b + 1 THEN (b + 1) - (p + 1) + 1 ELSE 0
        /\ \A k \in 1..((b + 1) - (p + 1) + 1) :
             SubSeq(x, p + 1, b + 1)[k] = x[(p + 1) + k - 1]
    BY <1>10, <1>11, SubSeqProperties
  <2>. QED BY <1>10, <2>1
<1>. QED BY <1>4, <1>8, <1>9, <1>12

\* A separator in front makes an empty first word.
Starts(x)  == Sorted(WordStarts(x))
Leading(x) == IF x # <<>> /\ x[1] = Blank /\ WordStarts(x) # {} THEN 1 ELSE 0

\* The words of a text, where they start.
LEMMA WordsAre ==
  ASSUME NEW C, NEW x \in Seq(C), x # <<>>
  PROVE  /\ Leading(x) \in {0, 1} /\ Cardinality(WordStarts(x)) \in Nat
         /\ textTokanization(x) \in Seq(Seq(C))
         /\ Len(textTokanization(x)) = Leading(x) + Cardinality(WordStarts(x))
         /\ Leading(x) = 1 => textTokanization(x)[1] = <<>> /\ x[1] = Blank
         /\ \A k \in 1..Cardinality(WordStarts(x)) :
              /\ Starts(x)[k] \in WordStarts(x)
              /\ textTokanization(x)[Leading(x) + k] = WordAt(x, Starts(x)[k])
<1>. DEFINE n == Cardinality(WordStarts(x))
            words == [m \in DOMAIN Starts(x) |-> WordAt(x, Starts(x)[m])]
<1>1. /\ n \in Nat /\ DOMAIN Starts(x) = 1..n
      /\ \A k \in 1..n : Starts(x)[k] \in WordStarts(x)
  BY StartsAreNumbers, SortedIsSorted DEF Starts
<1>2. \A k \in 1..n : WordAt(x, Starts(x)[k]) \in Seq(C)
  BY <1>1, WordIs
<1>3. words \in Seq(Seq(C)) /\ Len(words) = n /\ \A k \in 1..n : words[k] = WordAt(x, Starts(x)[k])
  BY <1>1, <1>2
<1>4. textTokanization(x) = IF x[1] = Blank /\ words # <<>> THEN << <<>> >> \o words ELSE words
  BY DEF textTokanization, Starts
<1>. HIDE DEF words
<1>5. words # <<>> <=> WordStarts(x) # {}
  <2>1. words # <<>> <=> n # 0
    BY <1>1, <1>3
  <2>2. n = 0 <=> WordStarts(x) = {}
    BY StartsAreNumbers, FS_EmptySet
  <2>. QED BY <2>1, <2>2
<1>6. CASE Leading(x) = 1
  <2>1. textTokanization(x) = << <<>> >> \o words /\ x[1] = Blank
    BY <1>4, <1>5, <1>6 DEF Leading
  <2>2. << <<>> >> \in Seq(Seq(C)) /\ Len(<< <<>> >>) = 1 /\ << <<>> >>[1] = <<>>
    <3>1. <<>> \in Seq(C)
      OBVIOUS
    <3>. QED BY <3>1
  <2>3. /\ << <<>> >> \o words \in Seq(Seq(C)) /\ Len(<< <<>> >> \o words) = 1 + n
        /\ \A m \in 1..(1 + n) :
             (<< <<>> >> \o words)[m] = IF m <= 1 THEN << <<>> >>[m] ELSE words[m - 1]
    BY <1>1, <1>3, <2>2, ConcatProperties
  <2>4. (<< <<>> >> \o words)[1] = <<>>
    BY <1>1, <2>2, <2>3
  <2>5. \A k \in 1..n : (<< <<>> >> \o words)[1 + k] = words[k]
    <3>. TAKE k \in 1..n
    <3>1. 1 + k \in 1..(1 + n) /\ ~(1 + k <= 1) /\ (1 + k) - 1 = k
      BY <1>1
    <3>. QED BY <2>3, <3>1
  <2>. QED BY <1>1, <1>3, <1>6, <2>1, <2>3, <2>4, <2>5
<1>7. CASE Leading(x) = 0
  <2>1. textTokanization(x) = words
    BY <1>4, <1>5, <1>7 DEF Leading
  <2>2. Leading(x) + n = n /\ \A k \in 1..n : Leading(x) + k = k
    BY <1>1, <1>7
  <2>. HIDE DEF n
  <2>3. Len(words) = Leading(x) + n /\ \A k \in 1..n : words[Leading(x) + k] = WordAt(x, Starts(x)[k])
    BY <1>3, <2>2
  <2>. QED BY <1>1, <1>3, <1>7, <2>1, <2>3 DEF n
<1>. QED BY <1>6, <1>7 DEF Leading

\* The words of a text are apart: there is a separator between two of them.
LEMMA WordsAreApart ==
  ASSUME NEW C, NEW x \in Seq(C), NEW p \in WordStarts(x), NEW q \in WordStarts(x), p < q,
         NEW e, WordEnds(x, p, e)
  PROVE  e + 1 < q /\ x[q] = Blank /\ x[e + 2] = Blank
<1>1. /\ Len(x) \in Nat /\ p \in Nat /\ q \in Nat /\ q < Len(x) /\ q > 0 /\ x[q] = Blank
  BY StartsAreNumbers
<1>2. e \in p..(Len(x) - 1) /\ e \in Nat
  BY <1>1 DEF WordEnds
<1>3. ~(q - 1 \in p..e)
  <2>1. SUFFICES ASSUME q - 1 \in p..e PROVE FALSE
    OBVIOUS
  <2>2. x[(q - 1) + 1] # Blank
    BY <2>1 DEF WordEnds
  <2>. QED BY <1>1, <2>2
<1>4. e + 1 < q /\ e + 1 < Len(x)
  BY <1>1, <1>2, <1>3
<1>. QED BY <1>1, <1>4 DEF WordEnds

\* A sequence of numbers below n that grows has at most n of them.
LEMMA GrowingIsShort ==
  ASSUME NEW m \in Nat, NEW n \in Nat, NEW h \in [1..m -> 0..(n - 1)],
         \A j, k \in 1..m : j < k => h[j] < h[k]
  PROVE  m <= n
<1>. DEFINE P == {k \in Nat : k < m => k <= h[k + 1]}
<1>1. \A k \in 1..m : h[k] \in 0..(n - 1) /\ h[k] \in Nat
  OBVIOUS
<1>2. CASE m = 0
  BY <1>2
<1>3. CASE m # 0
  <2>1. 0 \in P
    <3>1. 1 \in 1..m /\ 0 + 1 = 1
      BY <1>3
    <3>. QED BY <1>1, <3>1
  <2>2. \A k \in 0..(m - 1) : k \in P => k + 1 \in P
    <3>. SUFFICES ASSUME NEW k \in 0..(m - 1), k \in P, k + 1 < m PROVE k + 1 <= h[(k + 1) + 1]
      OBVIOUS
    <3>1. k + 1 \in 1..m /\ (k + 1) + 1 \in 1..m /\ k + 1 < (k + 1) + 1 /\ k < m /\ k \in Nat
      OBVIOUS
    <3>2. k <= h[k + 1]
      BY <3>1
    <3>3. h[k + 1] < h[(k + 1) + 1]
      BY <3>1
    <3>4. h[k + 1] \in Nat /\ h[(k + 1) + 1] \in Nat
      BY <1>1, <3>1
    <3>. QED BY <3>1, <3>2, <3>3, <3>4
  <2>3. P \in SUBSET Nat
    OBVIOUS
  <2>. HIDE DEF P
  <2>4. \A k \in 0..m : k \in P
    BY <2>1, <2>2, <2>3, UpTo
  <2>5. m - 1 \in P /\ m - 1 < m /\ (m - 1) + 1 = m /\ m \in 1..m
    BY <1>3, <2>4
  <2>6. m - 1 <= h[m]
    BY <2>5 DEF P
  <2>7. h[m] \in 0..(n - 1)
    BY <1>1, <2>5
  <2>. QED BY <2>6, <2>7
<1>. QED BY <1>2, <1>3

\* The numbers from 1 to n are in order.
LEMMA SortedUpTo ==
  ASSUME NEW n \in Nat
  PROVE  Sorted(1..n) = [k \in 1..n |-> k]
<1>1. Cardinality(1..n) = n
  BY FS_Interval
<1>2. ASSUME NEW p \in 1..n PROVE Cardinality({q \in 1..n : q <= p}) = p
  <2>1. {q \in 1..n : q <= p} = 1..p
    OBVIOUS
  <2>2. Cardinality(1..p) = p
    BY FS_Interval
  <2>. QED BY <2>1, <2>2
<1>3. ASSUME NEW k \in 1..n
      PROVE  (CHOOSE p \in 1..n : Cardinality({q \in 1..n : q <= p}) = k) = k
  <2>. DEFINE Q(p) == Cardinality({q \in 1..n : q <= p}) = k
              c    == CHOOSE p \in 1..n : Q(p)
  <2>1. k \in 1..n /\ Q(k)
    BY <1>2
  <2>2. c \in 1..n /\ Q(c)
    <3>. HIDE DEF Q
    <3>. QED BY <2>1
  <2>3. Cardinality({q \in 1..n : q <= c}) = c
    <3>1. c \in 1..n
      BY <2>2
    <3>. HIDE DEF c
    <3>. QED BY <1>2, <3>1
  <2>. QED BY <2>2, <2>3
<1>. QED BY <1>1, <1>3 DEF Sorted

\* Where the words are: there is a separator between two of them.
WordPlaces(h, x, words) ==
  /\ h \in [1..Len(words) -> 1..Len(x)]
  /\ \A k \in 1..Len(words) : /\ k > 1 => words[k] # <<>>
                              /\ words[k] # <<>> => words[k][1] = x[h[k]]
  /\ \A j, k \in 1..Len(words) :
       j < k => \E b \in 1..Len(x) : h[j] <= b /\ b < h[k] /\ x[b] = Blank

\* Each word has its place: its first character there, and a separator behind it.
LEMMA WordsHavePlaces ==
  ASSUME NEW C, NEW x \in Seq(C), x # <<>>
  PROVE  \E h : WordPlaces(h, x, textTokanization(x))
<1>. DEFINE c == Cardinality(WordStarts(x))
            l == Leading(x)
            s == Starts(x)
            w == textTokanization(x)
            h == [k \in 1..(l + c) |-> IF k <= l THEN 1 ELSE s[k - l] + 1]
<1>1. /\ l \in {0, 1} /\ c \in Nat /\ w \in Seq(Seq(C)) /\ Len(w) = l + c
      /\ l = 1 => w[1] = <<>> /\ x[1] = Blank
      /\ \A k \in 1..c : s[k] \in WordStarts(x) /\ w[l + k] = WordAt(x, s[k])
  BY WordsAre
<1>2. /\ Len(x) \in Nat /\ DOMAIN x = 1..Len(x) /\ 1 \in 1..Len(x)
      /\ WordStarts(x) \in SUBSET Nat /\ IsFiniteSet(WordStarts(x))
      /\ \A p \in WordStarts(x) : p \in 0..(Len(x) - 1) /\ x[p + 1] # Blank /\ (p > 0 => x[p] = Blank)
  <2>1. /\ Len(x) \in Nat /\ DOMAIN x = 1..Len(x)
        /\ WordStarts(x) \in SUBSET Nat /\ IsFiniteSet(WordStarts(x))
        /\ \A p \in WordStarts(x) : p \in 0..(Len(x) - 1) /\ x[p + 1] # Blank /\ (p > 0 => x[p] = Blank)
    BY StartsAreNumbers
  <2>2. Len(x) # 0
    BY EmptySeq
  <2>. QED BY <2>1, <2>2
<1>3. \A j, k \in 1..c : j < k => s[j] < s[k]
  BY <1>2, SortedIsSorted DEF Starts
<1>4. ASSUME NEW k \in 1..c
      PROVE  /\ w[l + k] # <<>> /\ w[l + k][1] = x[s[k] + 1]
             /\ s[k] \in Nat /\ s[k] + 1 \in 1..Len(x) /\ \E e : WordEnds(x, s[k], e)
  <2>1. s[k] \in WordStarts(x) /\ w[l + k] = WordAt(x, s[k])
    BY <1>1
  <2>. HIDE DEF s, w, l, c
  <2>2. PICK p \in WordStarts(x) : p = s[k]
    BY <2>1
  <2>3. PICK e \in p..(Len(x) - 1) :
          /\ WordEnds(x, p, e) /\ WordAt(x, p) \in Seq(C) /\ Len(WordAt(x, p)) = e - p + 1
          /\ \A j \in 1..(e - p + 1) : WordAt(x, p)[j] = x[p + j]
    BY WordIs
  <2>4. p \in Nat /\ p + 1 \in 1..Len(x)
    BY <1>2
  <2>5. e - p + 1 >= 1 /\ 1 \in 1..(e - p + 1)
    BY <2>4
  <2>6. WordAt(x, p) # <<>>
    <3>1. Len(WordAt(x, p)) # 0
      BY <2>3, <2>5
    <3>. QED BY <3>1
  <2>. QED BY <2>1, <2>2, <2>3, <2>4, <2>5, <2>6
<1>. HIDE DEF c, l, s, w
<1>5. \A k \in 1..(l + c) : k > l => k - l \in 1..c /\ l + (k - l) = k
  BY <1>1
<1>6. h \in [1..(l + c) -> 1..Len(x)]
  <2>1. ASSUME NEW k \in 1..(l + c), k > l PROVE s[k - l] + 1 \in 1..Len(x)
    <3>1. k - l \in 1..c
      BY <1>5, <2>1
    <3>. QED BY <1>4, <3>1
  <2>2. \A k \in 1..(l + c) : ~(k <= l) => k > l
    BY <1>1
  <2>3. \A k \in 1..(l + c) : (IF k <= l THEN 1 ELSE s[k - l] + 1) \in 1..Len(x)
    BY <1>2, <2>1, <2>2
  <2>. QED BY <2>3
<1>7. \A k \in 1..(l + c) : h[k] = IF k <= l THEN 1 ELSE s[k - l] + 1
  OBVIOUS
<1>. HIDE DEF h
<1>8. ASSUME NEW k \in 1..(l + c)
      PROVE  (k > 1 => w[k] # <<>>) /\ (w[k] # <<>> => w[k][1] = x[h[k]])
  <2>1. CASE k <= l
    <3>1. k = 1 /\ l = 1
      BY <1>1, <2>1
    <3>. QED BY <1>1, <3>1
  <2>2. CASE ~(k <= l)
    <3>1. k - l \in 1..c /\ l + (k - l) = k
      BY <1>1, <1>5, <2>2
    <3>2. w[k] # <<>> /\ w[k][1] = x[s[k - l] + 1]
      BY <1>4, <3>1
    <3>. QED BY <1>7, <2>2, <3>2
  <2>. QED BY <2>1, <2>2
<1>9. ASSUME NEW j \in 1..(l + c), NEW k \in 1..(l + c), j < k
      PROVE  \E b \in 1..Len(x) : h[j] <= b /\ b < h[k] /\ x[b] = Blank
  <2>1. ~(k <= l) /\ k - l \in 1..c
    BY <1>1, <1>9
  <2>2. h[k] = s[k - l] + 1 /\ s[k - l] \in WordStarts(x) /\ s[k - l] \in Nat
    BY <1>1, <1>4, <1>7, <2>1
  <2>3. CASE j <= l
    <3>1. l = 1 /\ h[j] = 1 /\ x[1] = Blank
      BY <1>1, <1>7, <2>3
    <3>2. s[k - l] # 0
      <4>1. x[s[k - l] + 1] # Blank
        BY <1>2, <2>2
      <4>. QED BY <3>1, <4>1
    <3>. QED BY <1>2, <2>2, <3>1, <3>2
  <2>4. CASE ~(j <= l)
    <3>1. j - l \in 1..c /\ j - l < k - l
      BY <1>1, <1>9, <2>4
    <3>2. h[j] = s[j - l] + 1 /\ s[j - l] \in WordStarts(x) /\ s[j - l] \in Nat
      BY <1>1, <1>4, <1>7, <2>4, <3>1
    <3>3. s[j - l] < s[k - l]
      BY <1>3, <2>1, <3>1
    <3>4. x[s[k - l]] = Blank /\ s[k - l] \in 0..(Len(x) - 1)
      BY <1>2, <2>2, <3>2, <3>3
    <3>5. s[k - l] \in 1..Len(x)
      BY <1>2, <3>2, <3>3, <3>4
    <3>. QED BY <2>2, <3>2, <3>3, <3>4, <3>5
  <2>. QED BY <2>3, <2>4
<1>10. WordPlaces(h, x, w)
  BY <1>1, <1>6, <1>8, <1>9 DEF WordPlaces
<1>. QED BY <1>10 DEF w

--------------------------------------------------------------------------
(* Turns and sequences. *)

\* f is what becomes of v by turns, the t-th of which is F[t].
Turns(f, v, F, m) == f = [t \in 0..m |-> IF t = 0 THEN v ELSE F[t][f[t - 1]]]

\* There is one, of any number of turns, within the set the turns stay in.
LEMMA SomeTurns ==
  ASSUME NEW V, NEW v \in V, NEW m \in Nat, NEW F \in [1..m -> [V -> V]]
  PROVE  \E f \in [0..m -> V] : Turns(f, v, F, m)
<1>. DEFINE P == {n \in Nat : n <= m => \E f \in [0..n -> V] : Turns(f, v, F, n)}
<1>1. 0 \in P
  <2>1. [n \in 0..0 |-> v] \in [0..0 -> V] /\ Turns([n \in 0..0 |-> v], v, F, 0)
    BY DEF Turns
  <2>. QED BY <2>1
<1>2. ASSUME NEW n \in 0..(m - 1), n \in P PROVE n + 1 \in P
  <2>1. PICK f \in [0..n -> V] : Turns(f, v, F, n)
    BY <1>2
  <2>. DEFINE g == [t \in 0..(n + 1) |-> IF t = n + 1 THEN F[n + 1][f[n]] ELSE f[t]]
  <2>2. \A t \in 0..n : f[t] = IF t = 0 THEN v ELSE F[t][f[t - 1]]
    BY <2>1 DEF Turns
  <2>3. (\A t \in 0..n : g[t] = f[t]) /\ g[n + 1] = F[n + 1][f[n]]
    OBVIOUS
  <2>4. F[n + 1][f[n]] \in V
    <3>1. n + 1 \in 1..m /\ n \in 0..n
      OBVIOUS
    <3>. QED BY <3>1
  <2>5. g \in [0..(n + 1) -> V]
    BY <2>4
  <2>. HIDE DEF g
  <2>6. ASSUME NEW t \in 0..(n + 1)
        PROVE  g[t] = IF t = 0 THEN v ELSE F[t][g[t - 1]]
    <3>1. CASE t = n + 1
      <4>1. t # 0 /\ t - 1 = n /\ g[n] = f[n]
        BY <2>3, <3>1
      <4>. QED BY <2>3, <3>1, <4>1
    <3>2. CASE t \in 0..n
      <4>1. t # 0 => t - 1 \in 0..n
        BY <3>2
      <4>2. t # 0 => g[t - 1] = f[t - 1]
        BY <2>3, <4>1
      <4>. QED BY <2>2, <2>3, <3>2, <4>2
    <3>. QED BY <3>1, <3>2
  <2>7. Turns(g, v, F, n + 1)
    <3>1. g = [t \in 0..(n + 1) |-> g[t]]
      BY <2>5
    <3>. QED BY <2>6, <3>1 DEF Turns
  <2>. QED BY <2>5, <2>7
<1>3. m \in P
  <2>. HIDE DEF P
  <2>1. P \in SUBSET Nat
    BY DEF P
  <2>2. \A n \in 0..m : n \in P
    BY <1>1, <1>2, <2>1, UpTo
  <2>. QED BY <2>2
<1>. QED BY <1>3

\* FlattenSeq is what becomes of the empty sequence by turns, each of which adds a
\* sequence behind.
LEMMA FlattenIs ==
  ASSUME NEW S, NEW n \in Nat, NEW s \in [1..n -> Seq(S)], NEW f \in [0..n -> Seq(S)],
         f[0] = <<>>, \A p \in 1..n : f[p] = f[p - 1] \o s[p]
  PROVE  FlattenSeq(s) = f[n]
<1>1. s \in Seq(Seq(S)) /\ Len(s) = n
  OBVIOUS
<1>2. CASE n = 0
  <2>1. s = <<>>
    BY <1>1, <1>2
  <2>. QED BY <1>1, <1>2, <2>1 DEF FlattenSeq
<1>3. CASE n # 0
  <2>. DEFINE Is(g) == g = [p \in 1..n |-> IF p = 1 THEN s[p] ELSE g[p - 1] \o s[p]]
              g0 == [p \in 1..n |-> f[p]]
              g1 == CHOOSE g : Is(g)
  <2>1. f[1] = s[1]
    <3>1. 1 \in 1..n /\ 1 - 1 = 0
      BY <1>3
    <3>2. f[1] = f[1 - 1] \o s[1]
      BY <3>1
    <3>3. s[1] \in Seq(S) /\ f[1] = <<>> \o s[1]
      BY <3>1, <3>2
    <3>. QED BY <3>3
  <2>2. Is(g0)
    <3>1. ASSUME NEW p \in 1..n
          PROVE  f[p] = IF p = 1 THEN s[p] ELSE g0[p - 1] \o s[p]
      <4>1. CASE p = 1
        BY <2>1, <4>1
      <4>2. CASE p # 1
        <5>1. p - 1 \in 1..n
          BY <4>2
        <5>. QED BY <4>2, <5>1
      <4>. QED BY <4>1, <4>2
    <3>. QED BY <3>1
  <2>3. Is(g1)
    <3>. HIDE DEF Is, g0
    <3>. QED BY <2>2
  <2>4. \A p \in 1..n : g1[p] = IF p = 1 THEN s[p] ELSE g1[p - 1] \o s[p]
    <3>. HIDE DEF g1
    <3>. QED BY <2>3
  <2>5. FlattenSeq(s) = g1[n]
    BY <1>1, <1>3 DEF FlattenSeq
  <2>. HIDE DEF g1, Is, g0
  <2>. DEFINE P == {p \in Nat : p \in 1..n => g1[p] = f[p]}
  <2>6. 0 \in P
    OBVIOUS
  <2>7. ASSUME NEW p \in 0..(n - 1), p \in P PROVE p + 1 \in P
    <3>1. p + 1 \in 1..n /\ (p + 1) - 1 = p /\ p + 1 \in Nat
      OBVIOUS
    <3>2. f[p + 1] = f[p] \o s[p + 1]
      BY <3>1
    <3>3. g1[p + 1] = IF p + 1 = 1 THEN s[p + 1] ELSE g1[p] \o s[p + 1]
      BY <2>4, <3>1
    <3>4. CASE p = 0
      <4>1. p + 1 = 1
        BY <3>4
      <4>2. g1[p + 1] = s[p + 1] /\ f[p + 1] = s[p + 1]
        BY <2>1, <3>3, <4>1
      <4>3. g1[p + 1] = f[p + 1]
        BY <4>2
      <4>. QED BY <3>1, <4>3
    <3>5. CASE p # 0
      <4>1. g1[p] = f[p]
        BY <2>7, <3>5
      <4>2. p + 1 # 1
        BY <3>5
      <4>3. g1[p + 1] = f[p + 1]
        BY <3>2, <3>3, <4>1, <4>2
      <4>. QED BY <3>1, <4>3
    <3>. QED BY <3>4, <3>5
  <2>8. n \in P
    <3>. HIDE DEF P
    <3>1. P \in SUBSET Nat
      BY DEF P
    <3>2. \A p \in 0..n : p \in P
      BY <2>6, <2>7, <3>1, UpTo
    <3>. QED BY <3>2
  <2>. QED BY <1>3, <2>5, <2>8
<1>. QED BY <1>2, <1>3

\* One sequence more: it comes behind the others.
LEMMA FlattenLast ==
  ASSUME NEW S, NEW n \in Nat, NEW s \in [1..(n + 1) -> Seq(S)], NEW s0 \in [1..n -> Seq(S)],
         \A p \in 1..n : s0[p] = s[p]
  PROVE  /\ FlattenSeq(s) = FlattenSeq(s0) \o s[n + 1]
         /\ FlattenSeq(s0) \in Seq(S)
<1>. DEFINE F == [p \in 1..(n + 1) |-> [v \in Seq(S) |-> v \o s[p]]]
<1>1. F \in [1..(n + 1) -> [Seq(S) -> Seq(S)]]
  <2>1. ASSUME NEW p \in 1..(n + 1), NEW v \in Seq(S) PROVE v \o s[p] \in Seq(S)
    <3>1. s[p] \in Seq(S)
      OBVIOUS
    <3>. QED BY <3>1
  <2>. QED BY <2>1
<1>2. PICK f \in [0..(n + 1) -> Seq(S)] : Turns(f, <<>>, F, n + 1)
  <2>. HIDE DEF F
  <2>1. <<>> \in Seq(S) /\ n + 1 \in Nat
    OBVIOUS
  <2>. QED BY <1>1, <2>1, SomeTurns
<1>3. f[0] = <<>> /\ \A p \in 1..(n + 1) : f[p] = f[p - 1] \o s[p]
  <2>1. \A p \in 0..(n + 1) : f[p] = IF p = 0 THEN <<>> ELSE F[p][f[p - 1]]
    <3>. HIDE DEF F
    <3>. QED BY <1>2 DEF Turns
  <2>2. ASSUME NEW p \in 1..(n + 1) PROVE f[p] = f[p - 1] \o s[p]
    <3>1. p \in 0..(n + 1) /\ p # 0 /\ f[p - 1] \in Seq(S)
      OBVIOUS
    <3>2. F[p][f[p - 1]] = f[p - 1] \o s[p]
      BY <3>1
    <3>. HIDE DEF F
    <3>. QED BY <2>1, <3>1, <3>2
  <2>. HIDE DEF F
  <2>. QED BY <2>1, <2>2
<1>. HIDE DEF F
<1>4. FlattenSeq(s) = f[n + 1]
  <2>1. n + 1 \in Nat
    OBVIOUS
  <2>. QED BY <1>3, <2>1, FlattenIs
<1>. DEFINE f0 == [p \in 0..n |-> f[p]]
<1>5. FlattenSeq(s0) = f[n] /\ f[n] \in Seq(S)
  <2>1. f0 \in [0..n -> Seq(S)] /\ f0[0] = <<>> /\ f0[n] = f[n] /\ f[n] \in Seq(S)
    BY <1>3
  <2>2. ASSUME NEW p \in 1..n PROVE f0[p] = f0[p - 1] \o s0[p]
    <3>1. p \in 1..(n + 1) /\ p \in 0..n /\ p - 1 \in 0..n
      OBVIOUS
    <3>2. f0[p] = f[p] /\ f0[p - 1] = f[p - 1]
      BY <3>1
    <3>. QED BY <1>3, <3>1, <3>2
  <2>. HIDE DEF f0
  <2>3. FlattenSeq(s0) = f0[n]
    BY <2>1, <2>2, FlattenIs
  <2>. QED BY <2>1, <2>3
<1>6. f[n + 1] = f[n] \o s[n + 1]
  <2>1. n + 1 \in 1..(n + 1) /\ (n + 1) - 1 = n
    OBVIOUS
  <2>. QED BY <1>3, <2>1
<1>. QED BY <1>4, <1>5, <1>6

--------------------------------------------------------------------------
(* Where a word is found. *)

\* The word stands at p in the text.
StandsAt(x, word, p) ==
  p + Len(word) <= Len(x) /\ \A j \in 1..Len(word) : x[p + j] = word[j]

\* That is what String.indexOf compares.
LEMMA StandsIs ==
  ASSUME NEW C, NEW x \in Seq(C), NEW word \in Seq(C), NEW p \in Nat, p + Len(word) <= Len(x)
  PROVE  SubSeq(x, p + 1, p + Len(word)) = word <=> StandsAt(x, word, p)
<1>. DEFINE l == Len(word)
            s == SubSeq(x, p + 1, p + l)
<1>1. Len(x) \in Nat /\ l \in Nat
  BY LenProperties
<1>2. \A k \in (p + 1)..(p + l) : x[k] \in C
  <2>1. \A k \in (p + 1)..(p + l) : k \in 1..Len(x)
    BY <1>1
  <2>. HIDE DEF l
  <2>. QED BY <2>1, ElementOfSeq
<1>3. p + 1 \in Int /\ p + l \in Int /\ (p + l) - (p + 1) + 1 = l /\ ~(p + 1 <= p + l) => l = 0
  BY <1>1
<1>4. /\ s \in Seq(C) /\ Len(s) = l
      /\ \A j \in 1..l : s[j] = x[p + j]
  <2>. HIDE DEF l
  <2>1. /\ s \in Seq(C)
        /\ Len(s) = IF p + 1 <= p + l THEN (p + l) - (p + 1) + 1 ELSE 0
        /\ \A j \in 1..((p + l) - (p + 1) + 1) : s[j] = x[(p + 1) + j - 1]
    <3>1. p + 1 \in Int /\ p + l \in Int
      BY <1>1
    <3>. QED BY <1>2, <3>1, SubSeqProperties
  <2>2. Len(s) = l
    BY <1>1, <1>3, <2>1
  <2>3. (p + l) - (p + 1) + 1 = l /\ \A j \in 1..l : (p + 1) + j - 1 = p + j
    BY <1>1
  <2>. QED BY <2>1, <2>2, <2>3
<1>. HIDE DEF s
<1>5. s = word <=> \A j \in 1..l : s[j] = word[j]
  BY <1>4, SeqEqual
<1>. QED BY <1>4, <1>5 DEF StandsAt, s

\* A word that stands somewhere from the given place on is found, there or in front.
LEMMA IndexIs ==
  ASSUME NEW C, NEW x \in Seq(C), NEW word \in Seq(C), NEW from \in Int
  PROVE  /\ indexOf(x, word, from) \in Int
         /\ \A p \in Nat : from <= p /\ StandsAt(x, word, p) =>
              /\ indexOf(x, word, from) \in 0..p /\ from <= indexOf(x, word, from)
              /\ StandsAt(x, word, indexOf(x, word, from))
<1>. DEFINE found == {p \in from..(Len(x) - Len(word)) :
                        p >= 0 /\ SubSeq(x, p + 1, p + Len(word)) = word}
<1>1. Len(x) \in Nat /\ Len(word) \in Nat
  BY LenProperties
<1>2. found \in SUBSET Nat
  BY <1>1
<1>3. \A p \in Nat : p \in found <=> from <= p /\ StandsAt(x, word, p)
  <2>. TAKE p \in Nat
  <2>1. p \in found <=> from <= p /\ p + Len(word) <= Len(x) /\ SubSeq(x, p + 1, p + Len(word)) = word
    BY <1>1
  <2>2. CASE p + Len(word) <= Len(x)
    BY <2>1, <2>2, StandsIs
  <2>3. CASE ~(p + Len(word) <= Len(x))
    BY <2>1, <2>3 DEF StandsAt
  <2>. QED BY <2>2, <2>3
<1>4. indexOf(x, word, from) = IF found = {} THEN -1 ELSE Min(found)
  BY DEF indexOf
<1>. HIDE DEF found
<1>5. found # {} => Min(found) \in found /\ \A q \in found : Min(found) <= q
  <2>1. found # {} => \E y \in found : \A q \in found : y <= q
    BY <1>2, Least
  <2>. QED BY <2>1 DEF Min
<1>6. indexOf(x, word, from) \in Int
  <2>1. CASE found = {}
    BY <1>4, <2>1
  <2>2. CASE found # {}
    <3>1. Min(found) \in Nat
      BY <1>2, <1>5, <2>2
    <3>. QED BY <1>4, <2>2, <3>1
  <2>. QED BY <2>1, <2>2
<1>7. ASSUME NEW p \in Nat, from <= p, StandsAt(x, word, p)
      PROVE  /\ indexOf(x, word, from) \in 0..p /\ from <= indexOf(x, word, from)
             /\ StandsAt(x, word, indexOf(x, word, from))
  <2>1. p \in found
    BY <1>3, <1>7
  <2>2. indexOf(x, word, from) = Min(found) /\ Min(found) \in found /\ Min(found) <= p
    BY <1>4, <1>5, <2>1
  <2>3. Min(found) \in Nat
    BY <1>2, <2>2
  <2>. QED BY <1>3, <2>2, <2>3
<1>. QED BY <1>6, <1>7

--------------------------------------------------------------------------
\* The words stand in the text one after the other, with nothing but separators between.
Sited(x, words, at) ==
  /\ \A k \in 1..Len(words) :
       /\ at[k] \in Nat /\ StandsAt(x, words[k], at[k])
       /\ \A j \in 1..Len(words[k]) : words[k][j] # Blank
       /\ k > 1 => words[k] # <<>>
       /\ k > 1 => /\ at[k - 1] + Len(words[k - 1]) <= at[k]
                   /\ \A q \in (at[k - 1] + Len(words[k - 1]))..(at[k] - 1) : x[q + 1] = Blank
       /\ words[k] # <<>> /\ at[k] + Len(words[k]) < Len(x) => x[at[k] + Len(words[k]) + 1] = Blank
  /\ Len(words) > 0 => at[1] = 0

\* From a place where the k-th word is looked for: between it and the word there are
\* separators only, or the last letter of the word before.
LooksFrom(x, words, at, k, from) ==
  /\ from \in Int /\ from <= at[k]
  /\ \A q \in 0..(at[k] - 1) :
       from <= q => \/ x[q + 1] = Blank
                    \/ k > 1 /\ words[k - 1] # <<>> /\ x[q + 1] = Last(words[k - 1]) /\ x[q + 2] = Blank

\* As Slips, of any words.
Repeats(words, k) ==
  k > 1 /\ Len(words[k]) = 1 /\ words[k - 1] # <<>> /\ Last(words[k - 1]) = words[k][1]

\* Looked for from there, the word is found where it stands, unless it is one letter
\* that ends the word before; and the next word is looked for from such a place again.
LEMMA Found ==
  ASSUME NEW C, NEW x \in Seq(C), NEW words \in Seq(Seq(C)), NEW at, Sited(x, words, at),
         NEW k \in 1..Len(words), NEW from, LooksFrom(x, words, at, k, from),
         NEW a, a = indexOf(x, words[k], from)
  PROVE  /\ a \in 0..at[k] /\ (~Repeats(words, k) => a = at[k])
         /\ k < Len(words) => LooksFrom(x, words, at, k + 1, a + Len(words[k]) - 1)
<1>. DEFINE l == Len(words[k])
<1>1. /\ Len(x) \in Nat /\ Len(words) \in Nat /\ k \in Nat /\ words[k] \in Seq(C) /\ l \in Nat
      /\ k > 1 => words[k - 1] \in Seq(C)
  <2>1. Len(x) \in Nat /\ Len(words) \in Nat /\ words[k] \in Seq(C)
    BY LenProperties, ElementOfSeq
  <2>2. k > 1 => words[k - 1] \in Seq(C)
    <3>1. k > 1 => k - 1 \in 1..Len(words)
      BY <2>1
    <3>. QED BY <3>1, ElementOfSeq
  <2>. QED BY <2>1, <2>2, LenProperties
<1>2. /\ at[k] \in Nat /\ StandsAt(x, words[k], at[k])
      /\ \A j \in 1..l : words[k][j] # Blank
      /\ k > 1 => words[k] # <<>>
      /\ words[k] # <<>> /\ at[k] + l < Len(x) => x[at[k] + l + 1] = Blank
  BY DEF Sited
<1>3. from \in Int /\ from <= at[k]
  BY DEF LooksFrom
<1>4. a \in 0..at[k] /\ from <= a /\ StandsAt(x, words[k], a)
  BY <1>1, <1>2, <1>3, IndexIs
<1>5. at[k] + l <= Len(x) /\ a + l <= Len(x) /\ \A j \in 1..l : x[a + j] = words[k][j]
  BY <1>2, <1>4 DEF StandsAt
<1>6. l = 0 <=> words[k] = <<>>
  BY <1>1, EmptySeq
<1>7. ASSUME a # at[k]
      PROVE  Repeats(words, k) /\ l = 1 /\ x[a + 1] = words[k][1]
  <2>1. a \in 0..(at[k] - 1) /\ a < at[k] /\ at[k] > 0
    BY <1>2, <1>4, <1>7
  <2>2. k # 1
    <3>1. SUFFICES ASSUME k = 1 PROVE FALSE
      OBVIOUS
    <3>2. at[1] = 0
      BY <1>1 DEF Sited
    <3>. QED BY <2>1, <3>1, <3>2
  <2>3. k > 1 /\ words[k] # <<>> /\ l >= 1 /\ 1 \in 1..l
    BY <1>1, <1>2, <1>6, <2>2
  <2>4. x[a + 1] = words[k][1] /\ x[a + 1] # Blank
    BY <1>2, <1>5, <2>3
  <2>5. words[k - 1] # <<>> /\ x[a + 1] = Last(words[k - 1]) /\ x[a + 2] = Blank
    BY <1>4, <2>1, <2>4 DEF LooksFrom
  <2>6. l = 1
    <3>1. SUFFICES ASSUME l # 1 PROVE FALSE
      OBVIOUS
    <3>2. 2 \in 1..l
      <4>. HIDE DEF l
      <4>. QED BY <1>1, <2>3, <3>1
    <3>. QED BY <1>2, <1>5, <2>5, <3>2
  <2>. QED BY <2>3, <2>4, <2>5, <2>6 DEF Repeats
<1>8. ASSUME k < Len(words)
      PROVE  LooksFrom(x, words, at, k + 1, a + l - 1)
  <2>1. k + 1 \in 1..Len(words) /\ k + 1 > 1 /\ (k + 1) - 1 = k /\ k + 1 \in Nat
    BY <1>1, <1>8
  <2>2. at[k + 1] \in Nat /\ at[k] + l <= at[k + 1]
        /\ \A q \in (at[k] + l)..(at[k + 1] - 1) : x[q + 1] = Blank
    BY <2>1 DEF Sited
  <2>3. a + l - 1 \in Int /\ a + l - 1 <= at[k + 1] /\ a \in Nat
    <3>1. a \in Nat /\ a <= at[k] /\ at[k] \in Nat /\ l \in Nat
      BY <1>1, <1>2, <1>4
    <3>2. at[k + 1] \in Nat /\ at[k] + l <= at[k + 1]
      BY <2>2
    <3>. HIDE DEF l
    <3>3. a + l <= at[k + 1]
      BY <3>1, <3>2
    <3>4. a + l - 1 \in Int /\ a + l - 1 <= at[k + 1]
      BY <3>1, <3>2, <3>3
    <3>. QED BY <3>1, <3>4
  <2>4. ASSUME NEW q \in 0..(at[k + 1] - 1), a + l - 1 <= q, x[q + 1] # Blank
        PROVE  words[k] # <<>> /\ x[q + 1] = Last(words[k]) /\ x[q + 2] = Blank
    <3>1. q \in Nat /\ q < at[k + 1] /\ ~(at[k] + l <= q)
      BY <2>2, <2>4, <1>1, <1>2
    <3>2. q < at[k] + l
      BY <1>1, <1>2, <3>1
    \* behind the end of the word there is a separator
    <3>3. words[k] # <<>> => x[at[k] + l + 1] = Blank
      <4>1. words[k + 1] # <<>> /\ StandsAt(x, words[k + 1], at[k + 1]) /\ words[k + 1] \in Seq(C)
        BY <2>1, ElementOfSeq DEF Sited
      <4>2. Len(words[k + 1]) \in Nat \ {0} /\ at[k + 1] + Len(words[k + 1]) <= Len(x)
        BY <4>1, EmptySeq DEF StandsAt
      <4>3. at[k] + l < Len(x)
        <5>1. at[k] + l <= at[k + 1] /\ at[k] \in Nat /\ at[k + 1] \in Nat /\ l \in Nat
          BY <1>1, <1>2, <2>2
        <5>2. at[k + 1] < Len(x)
          BY <1>1, <4>2, <5>1
        <5>. HIDE DEF l
        <5>. QED BY <1>1, <5>1, <5>2
      <4>. QED BY <1>2, <4>3
    <3>4. CASE a = at[k]
      <4>1. l >= 1 /\ q = at[k] + l - 1
        <5>1. at[k] \in Nat /\ l \in Nat /\ q \in Nat /\ at[k] + l - 1 <= q /\ q < at[k] + l
          BY <1>1, <1>2, <2>4, <3>1, <3>2, <3>4
        <5>2. q = at[k] + l - 1
          <6>. HIDE DEF l
          <6>1. \A m, n \in Int : m - 1 <= n /\ n < m => n = m - 1
            OBVIOUS
          <6>2. PICK m \in Int : m = at[k] + l
            BY <5>1
          <6>3. q \in Int /\ m - 1 <= q /\ q < m
            BY <5>1, <6>2
          <6>4. q = m - 1
            BY <6>1, <6>3
          <6>. QED BY <5>1, <6>2, <6>4
        <5>3. l # 0
          <6>1. SUFFICES ASSUME l = 0 PROVE FALSE
            OBVIOUS
          <6>2. k = 1 /\ at[1] = 0
            BY <1>1, <1>2, <1>6, <6>1 DEF Sited
          <6>3. q = 0 + 0 - 1
            BY <5>2, <6>1, <6>2
          <6>. QED BY <5>1, <6>3
        <5>. QED BY <5>1, <5>2, <5>3
      <4>2. words[k] # <<>> /\ l \in 1..l /\ q + 1 = at[k] + l /\ q + 2 = at[k] + l + 1
        BY <1>1, <1>2, <1>6, <4>1
      <4>3. x[at[k] + l] = words[k][l]
        BY <1>5, <3>4, <4>2
      <4>. QED BY <3>3, <4>2, <4>3 DEF Last
    <3>5. CASE a # at[k]
      <4>1. Repeats(words, k) /\ l = 1 /\ words[k] # <<>>
        BY <1>6, <1>7, <3>5
      <4>2. Last(words[k]) = words[k][1] /\ Last(words[k - 1]) = words[k][1]
        BY <4>1 DEF Last, Repeats
      <4>3. CASE q = at[k]
        <5>1. 1 \in 1..l /\ at[k] + l + 1 = q + 2
          BY <4>1, <4>3, <1>2
        <5>2. x[at[k] + 1] = words[k][1]
          BY <1>2, <5>1 DEF StandsAt
        <5>. QED BY <3>3, <4>1, <4>2, <4>3, <5>1, <5>2
      <4>4. CASE q # at[k]
        <5>1. q \in 0..(at[k] - 1) /\ from <= q
          BY <1>2, <1>3, <1>4, <2>3, <2>4, <3>1, <3>2, <4>1, <4>4
        <5>2. x[q + 1] = Last(words[k - 1]) /\ x[q + 2] = Blank
          BY <2>4, <5>1 DEF LooksFrom
        <5>. QED BY <4>1, <4>2, <5>2
      <4>. QED BY <4>3, <4>4
    <3>. QED BY <3>4, <3>5
  <2>. QED BY <2>1, <2>3, <2>4 DEF LooksFrom
<1>. QED BY <1>4, <1>7, <1>8

--------------------------------------------------------------------------
(* The words of a text, each looked for behind the one before. *)

\* Where a word is found, and where the next one is looked for from.
RangeOf(x, word, from) ==
  [start |-> indexOf(x, word, from), stop |-> indexOf(x, word, from) + Len(word) - 1]

IndexRange == [start : Int, stop : Int]

LEMMA RangeIs ==
  ASSUME NEW C, NEW x \in Seq(C), NEW word \in Seq(C), NEW from \in Int
  PROVE  RangeOf(x, word, from) \in IndexRange
<1>1. indexOf(x, word, from) \in Int /\ Len(word) \in Nat
  BY IndexIs, LenProperties
<1>. QED BY <1>1 DEF RangeOf, IndexRange

\* The words i to j are looked for, each from the end of the one before.
InTurn(x, words, from, i, j, r) ==
  \A k \in i..j : r[k] = RangeOf(x, words[k], IF k = i THEN from ELSE r[k - 1].stop)

\* The ranges of the words i to j, each looked for from the end of the one before.
LEMMA RangesAre ==
  ASSUME NEW C, NEW x \in Seq(C), NEW words \in Seq(Seq(C)), NEW from \in Int,
         NEW i \in 1..Len(words), NEW j \in i..Len(words),
         NEW r, r = generateNGramIndexRanges(x, from, words, i, j)
  PROVE  InTurn(x, words, from, i, j, r)
<1>. DEFINE Is(g) == g = [k \in i..j |->
                            LET start == indexOf(x, words[k], IF k = i THEN from ELSE g[k - 1].stop)
                            IN  [start |-> start, stop |-> start + Len(words[k]) - 1]]
            F == [t \in 1..(j - i + 1) |-> [v \in IndexRange |-> RangeOf(x, words[i + t - 1], v.stop)]]
            v0 == [start |-> 0, stop |-> from]
<1>1. Len(words) \in Nat /\ i \in Nat /\ j \in Nat /\ i <= j /\ j <= Len(words) /\ i >= 1 /\ j - i + 1 \in Nat
  BY LenProperties
<1>2. \A k \in i..j : words[k] \in Seq(C)
  BY <1>1, ElementOfSeq
<1>3. F \in [1..(j - i + 1) -> [IndexRange -> IndexRange]]
  <2>1. ASSUME NEW t \in 1..(j - i + 1), NEW v \in IndexRange
        PROVE  RangeOf(x, words[i + t - 1], v.stop) \in IndexRange
    <3>1. i + t - 1 \in i..j
      BY <1>1
    <3>2. words[i + t - 1] \in Seq(C) /\ v.stop \in Int
      BY <1>2, <3>1 DEF IndexRange
    <3>. QED BY <3>2, RangeIs
  <2>. QED BY <2>1
<1>4. v0 \in IndexRange
  BY DEF IndexRange
<1>5. PICK f \in [0..(j - i + 1) -> IndexRange] : Turns(f, v0, F, j - i + 1)
  <2>. HIDE DEF F, v0
  <2>. QED BY <1>1, <1>3, <1>4, SomeTurns
<1>6. \A t \in 0..(j - i + 1) : f[t] = IF t = 0 THEN v0 ELSE F[t][f[t - 1]]
  <2>. HIDE DEF F, v0
  <2>. QED BY <1>5 DEF Turns
<1>7. ASSUME NEW k \in i..j
      PROVE  f[k - i + 1] = RangeOf(x, words[k], IF k = i THEN from ELSE f[(k - 1) - i + 1].stop)
  <2>. DEFINE t == k - i + 1
  <2>1. t \in 1..(j - i + 1) /\ t \in 0..(j - i + 1) /\ t # 0 /\ t - 1 \in 0..(j - i + 1) /\ i + t - 1 = k
        /\ t - 1 = (k - 1) - i + 1 /\ (k = i <=> t - 1 = 0)
    BY <1>1
  <2>2. f[t] = F[t][f[t - 1]]
    <3>. HIDE DEF t, F
    <3>. QED BY <1>6, <2>1
  <2>3. f[t - 1] \in IndexRange
    BY <2>1, <1>5
  <2>4. F[t][f[t - 1]] = RangeOf(x, words[k], f[t - 1].stop)
    <3>. HIDE DEF t
    <3>. QED BY <2>1, <2>3
  <2>5. k = i => f[t - 1].stop = from
    <3>1. k = i => f[t - 1] = v0
      <4>. HIDE DEF t, F, v0
      <4>. QED BY <1>6, <2>1
    <3>. QED BY <3>1
  <2>6. f[t] = RangeOf(x, words[k], IF k = i THEN from ELSE f[t - 1].stop)
    BY <2>2, <2>4, <2>5
  <2>. QED BY <2>1, <2>6
<1>. HIDE DEF F, v0
<1>. DEFINE g0 == [k \in i..j |-> f[k - i + 1]]
<1>8. Is(g0)
  <2>1. ASSUME NEW k \in i..j
        PROVE  g0[k] = LET start == indexOf(x, words[k], IF k = i THEN from ELSE g0[k - 1].stop)
                       IN  [start |-> start, stop |-> start + Len(words[k]) - 1]
    <3>1. k # i => k - 1 \in i..j
      BY <1>1
    <3>2. k # i => g0[k - 1] = f[(k - 1) - i + 1]
      BY <3>1
    <3>3. g0[k] = f[k - i + 1]
      OBVIOUS
    <3>. HIDE DEF g0
    <3>4. g0[k] = RangeOf(x, words[k], IF k = i THEN from ELSE g0[k - 1].stop)
      BY <1>7, <3>2, <3>3
    <3>. QED BY <3>4 DEF RangeOf
  <2>2. g0 = [k \in i..j |-> g0[k]]
    OBVIOUS
  <2>. HIDE DEF g0
  <2>. QED BY <2>1, <2>2
<1>. DEFINE g1 == CHOOSE g : Is(g)
<1>9. r = g1
  BY DEF generateNGramIndexRanges
<1>10. Is(g1)
  <2>. HIDE DEF Is, g0
  <2>. QED BY <1>8
<1>. HIDE DEF g1
<1>11. Is(r)
  <2>. HIDE DEF Is
  <2>. QED BY <1>9, <1>10
<1>12. ASSUME NEW k \in i..j
       PROVE  r[k] = LET start == indexOf(x, words[k], IF k = i THEN from ELSE r[k - 1].stop)
                     IN  [start |-> start, stop |-> start + Len(words[k]) - 1]
  <2>. DEFINE e == [m \in i..j |->
                      LET start == indexOf(x, words[m], IF m = i THEN from ELSE r[m - 1].stop)
                      IN  [start |-> start, stop |-> start + Len(words[m]) - 1]]
  <2>1. r = e
    BY <1>11
  <2>2. e[k] = LET start == indexOf(x, words[k], IF k = i THEN from ELSE r[k - 1].stop)
               IN  [start |-> start, stop |-> start + Len(words[k]) - 1]
    OBVIOUS
  <2>3. r[k] = e[k]
    <3>. HIDE DEF e
    <3>. QED BY <2>1
  <2>. QED BY <2>2, <2>3
<1>. QED BY <1>12 DEF RangeOf, InTurn

\* The range begins where the k-th word stands or is in front, and ends so.
AtWord(words, at, k, range) ==
  /\ range \in IndexRange
  /\ range.start \in 0..at[k] /\ (~Repeats(words, k) => range.start = at[k])
  /\ range.stop = range.start + Len(words[k]) - 1

\* So are the ranges of words that follow each other.
LEMMA RangesAreAtWords ==
  ASSUME NEW C, NEW x \in Seq(C), NEW words \in Seq(Seq(C)), NEW at, Sited(x, words, at),
         NEW i \in 1..Len(words), NEW j \in i..Len(words), NEW from, LooksFrom(x, words, at, i, from),
         NEW r, r = generateNGramIndexRanges(x, from, words, i, j)
  PROVE  \A k \in i..j : /\ AtWord(words, at, k, r[k])
                         /\ k < Len(words) => LooksFrom(x, words, at, k + 1, r[k].stop)
<1>. DEFINE Here(k) == /\ AtWord(words, at, k, r[k])
                       /\ k < Len(words) => LooksFrom(x, words, at, k + 1, r[k].stop)
            P == {n \in Nat : i + n <= j => Here(i + n)}
<1>1. Len(words) \in Nat /\ i \in Nat /\ j \in Nat /\ i <= j /\ j <= Len(words) /\ i >= 1 /\ j - i \in Nat
  BY LenProperties
<1>2. from \in Int
  BY DEF LooksFrom
<1>3. \A k \in i..j : r[k] = RangeOf(x, words[k], IF k = i THEN from ELSE r[k - 1].stop)
  <2>1. InTurn(x, words, from, i, j, r)
    BY <1>2, RangesAre
  <2>. QED BY <2>1 DEF InTurn
<1>4. ASSUME NEW k \in i..j, NEW here, LooksFrom(x, words, at, k, here), r[k] = RangeOf(x, words[k], here)
      PROVE  Here(k)
  <2>1. k \in 1..Len(words)
    BY <1>1
  <2>2. words[k] \in Seq(C) /\ here \in Int
    BY <1>4, <2>1, ElementOfSeq DEF LooksFrom
  <2>3. r[k] \in IndexRange
    BY <1>4, <2>2, RangeIs
  <2>4. r[k].start = indexOf(x, words[k], here) /\ r[k].stop = r[k].start + Len(words[k]) - 1
    BY <1>4 DEF RangeOf
  <2>5. /\ r[k].start \in 0..at[k] /\ (~Repeats(words, k) => r[k].start = at[k])
        /\ k < Len(words) => LooksFrom(x, words, at, k + 1, r[k].start + Len(words[k]) - 1)
    BY <1>4, <2>1, <2>4, Found
  <2>. QED BY <2>3, <2>4, <2>5 DEF AtWord
<1>5. 0 \in P
  <2>1. i \in i..j /\ i + 0 = i
    BY <1>1
  <2>2. r[i] = RangeOf(x, words[i], from)
    BY <1>3, <2>1
  <2>. HIDE DEF Here
  <2>3. Here(i)
    BY <1>4, <2>1, <2>2
  <2>. QED BY <2>1, <2>3
<1>6. ASSUME NEW n \in 0..(j - i - 1), n \in P PROVE n + 1 \in P
  <2>1. n \in Nat /\ i + n \in i..j /\ i + n <= j /\ i + n < Len(words) /\ i + (n + 1) = (i + n) + 1
        /\ (i + n) + 1 \in i..j /\ (i + n) + 1 # i /\ ((i + n) + 1) - 1 = i + n
    BY <1>1
  <2>2. Here(i + n)
    <3>. HIDE DEF Here
    <3>. QED BY <1>6, <2>1
  <2>3. LooksFrom(x, words, at, (i + n) + 1, r[i + n].stop)
    BY <2>1, <2>2
  <2>4. r[(i + n) + 1] = RangeOf(x, words[(i + n) + 1], r[i + n].stop)
    BY <1>3, <2>1
  <2>. HIDE DEF Here
  <2>5. Here((i + n) + 1)
    BY <1>4, <2>1, <2>3, <2>4
  <2>. QED BY <2>1, <2>5
<1>7. ASSUME NEW k \in i..j PROVE Here(k)
  <2>. HIDE DEF Here
  <2>1. P \in SUBSET Nat
    OBVIOUS
  <2>2. k - i \in 0..(j - i) /\ i + (k - i) = k /\ k <= j /\ (j - i) - 1 = j - i - 1
    BY <1>1
  <2>3. k - i \in P
    <3>. HIDE DEF P
    <3>. QED BY <1>1, <1>5, <1>6, <2>1, <2>2, UpTo
  <2>. QED BY <2>2, <2>3
<1>. QED BY <1>7

--------------------------------------------------------------------------
(* The n-grams of a text are its words. *)

\* The n-grams of one length are looked for from such places too: g gives them.
NextStarts(x, words, g) ==
  g = [i \in 1..Len(words) |->
         IF i = 1 THEN 0 ELSE generateNGramIndexRanges(x, g[i - 1], words, i - 1, i - 1)[i - 1].stop]

LEMMA SomeNextStarts ==
  ASSUME NEW C, NEW x \in Seq(C), NEW words \in Seq(Seq(C)), words # <<>>
  PROVE  \E g : NextStarts(x, words, g)
<1>. DEFINE m == Len(words) - 1
            F == [t \in 1..m |-> [v \in Int |-> generateNGramIndexRanges(x, v, words, t, t)[t].stop]]
<1>1. Len(words) \in Nat /\ m \in Nat /\ m + 1 = Len(words)
  BY EmptySeq
<1>2. ASSUME NEW t \in 1..m, NEW v \in Int
      PROVE  generateNGramIndexRanges(x, v, words, t, t)[t].stop \in Int
  <2>1. t \in 1..Len(words) /\ t \in t..Len(words) /\ t \in t..t
    BY <1>1
  <2>2. InTurn(x, words, v, t, t, generateNGramIndexRanges(x, v, words, t, t))
    BY <2>1, RangesAre
  <2>3. generateNGramIndexRanges(x, v, words, t, t)[t] = RangeOf(x, words[t], v)
    BY <2>1, <2>2 DEF InTurn
  <2>4. RangeOf(x, words[t], v) \in IndexRange
    BY <2>1, ElementOfSeq, RangeIs
  <2>. QED BY <2>3, <2>4 DEF IndexRange
<1>3. F \in [1..m -> [Int -> Int]]
  <2>. HIDE DEF m
  <2>. QED BY <1>2
<1>4. PICK f \in [0..m -> Int] : Turns(f, 0, F, m)
  <2>. HIDE DEF F, m
  <2>1. 0 \in Int
    OBVIOUS
  <2>. QED BY <1>1, <1>3, <2>1, SomeTurns
<1>5. \A t \in 0..m : f[t] = IF t = 0 THEN 0 ELSE F[t][f[t - 1]]
  <2>. HIDE DEF F, m
  <2>. QED BY <1>4 DEF Turns
<1>. DEFINE g == [i \in 1..Len(words) |-> f[i - 1]]
<1>6. ASSUME NEW i \in 1..Len(words)
      PROVE  g[i] = IF i = 1 THEN 0
                    ELSE generateNGramIndexRanges(x, g[i - 1], words, i - 1, i - 1)[i - 1].stop
  <2>1. i - 1 \in 0..m /\ g[i] = f[i - 1]
    BY <1>1
  <2>2. CASE i = 1
    <3>. HIDE DEF F
    <3>. QED BY <1>5, <2>1, <2>2
  <2>3. CASE i # 1
    <3>1. i - 1 \in 1..Len(words) /\ i - 1 \in 1..m /\ (i - 1) - 1 \in 0..m /\ i - 1 # 0
      BY <1>1, <2>3
    <3>2. g[i - 1] = f[(i - 1) - 1] /\ f[(i - 1) - 1] \in Int
      BY <1>4, <3>1
    <3>3. f[i - 1] = F[i - 1][f[(i - 1) - 1]]
      <4>. HIDE DEF F, g
      <4>. QED BY <1>5, <2>1, <3>1
    <3>4. F[i - 1][f[(i - 1) - 1]] =
            generateNGramIndexRanges(x, f[(i - 1) - 1], words, i - 1, i - 1)[i - 1].stop
      <4>. HIDE DEF m, g
      <4>. QED BY <3>1, <3>2
    <3>. HIDE DEF F, g, m
    <3>. QED BY <2>1, <2>3, <3>2, <3>3, <3>4
  <2>. QED BY <2>2, <2>3
<1>7. g = [i \in 1..Len(words) |-> g[i]]
  OBVIOUS
<1>8. NextStarts(x, words, g)
  <2>. HIDE DEF g
  <2>. QED BY <1>6, <1>7 DEF NextStarts
<1>. QED BY <1>8

LEMMA NextStartsLook ==
  ASSUME NEW C, NEW x \in Seq(C), NEW words \in Seq(Seq(C)), NEW at, Sited(x, words, at),
         NEW g, NextStarts(x, words, g)
  PROVE  \A i \in 1..Len(words) : LooksFrom(x, words, at, i, g[i])
<1>. DEFINE P == {n \in Nat : n + 1 <= Len(words) => LooksFrom(x, words, at, n + 1, g[n + 1])}
<1>1. Len(words) \in Nat
  BY LenProperties
<1>2. \A i \in 1..Len(words) :
        g[i] = IF i = 1 THEN 0
               ELSE generateNGramIndexRanges(x, g[i - 1], words, i - 1, i - 1)[i - 1].stop
  <2>. DEFINE e == [i \in 1..Len(words) |->
                      IF i = 1 THEN 0
                      ELSE generateNGramIndexRanges(x, g[i - 1], words, i - 1, i - 1)[i - 1].stop]
  <2>1. g = e
    BY DEF NextStarts
  <2>2. \A i \in 1..Len(words) :
          e[i] = IF i = 1 THEN 0
                 ELSE generateNGramIndexRanges(x, g[i - 1], words, i - 1, i - 1)[i - 1].stop
    OBVIOUS
  <2>. HIDE DEF e
  <2>. QED BY <2>1, <2>2
<1>3. 0 \in P
  <2>. SUFFICES ASSUME 1 <= Len(words) PROVE LooksFrom(x, words, at, 1, g[1])
    OBVIOUS
  <2>1. 1 \in 1..Len(words) /\ Len(words) > 0
    BY <1>1
  <2>2. g[1] = 0 /\ at[1] = 0
    BY <1>2, <2>1 DEF Sited
  <2>. QED BY <2>2 DEF LooksFrom
<1>4. ASSUME NEW n \in 0..(Len(words) - 1), n \in P PROVE n + 1 \in P
  <2>. SUFFICES ASSUME (n + 1) + 1 <= Len(words)
                PROVE  LooksFrom(x, words, at, (n + 1) + 1, g[(n + 1) + 1])
    OBVIOUS
  <2>1. /\ n + 1 \in 1..Len(words) /\ n + 1 \in (n + 1)..Len(words) /\ n + 1 <= Len(words)
        /\ (n + 1) + 1 \in 1..Len(words) /\ (n + 1) + 1 # 1 /\ ((n + 1) + 1) - 1 = n + 1
        /\ n + 1 \in (n + 1)..(n + 1) /\ n + 1 < Len(words)
    BY <1>1
  <2>2. LooksFrom(x, words, at, n + 1, g[n + 1])
    BY <1>4, <2>1
  <2>. DEFINE r == generateNGramIndexRanges(x, g[n + 1], words, n + 1, n + 1)
  <2>3. g[(n + 1) + 1] = r[n + 1].stop
    BY <1>2, <2>1
  <2>4. LooksFrom(x, words, at, (n + 1) + 1, r[n + 1].stop)
    BY <2>1, <2>2, RangesAreAtWords
  <2>. QED BY <2>3, <2>4
<1>5. ASSUME NEW i \in 1..Len(words) PROVE LooksFrom(x, words, at, i, g[i])
  <2>1. P \in SUBSET Nat
    OBVIOUS
  <2>2. i - 1 \in 0..Len(words) /\ (i - 1) + 1 = i /\ i <= Len(words)
    BY <1>1
  <2>3. i - 1 \in P
    <3>. HIDE DEF P
    <3>. QED BY <1>1, <1>3, <1>4, <2>1, <2>2, UpTo
  <2>. QED BY <2>2, <2>3
<1>. QED BY <1>5

\* The value of the n-gram g is its words; its range begins at the first and ends at the
\* last of them, or where these are found in front.
AtWords(words, at, g) ==
  /\ g.first \in 1..Len(words) /\ g.last \in g.first..Len(words)
  /\ g.value = concat(words, g.first, g.last)
  /\ g.start \in 0..at[g.first] /\ (~Repeats(words, g.first) => g.start = at[g.first])
  /\ g.stop \in Int /\ g.stop >= Len(words[g.last]) - 1
  /\ g.stop <= at[g.last] + Len(words[g.last]) - 1
  /\ ~Repeats(words, g.last) => g.stop = at[g.last] + Len(words[g.last]) - 1

LEMMA GramAtWords ==
  ASSUME NEW C, NEW x \in Seq(C), NEW words \in Seq(Seq(C)), NEW at, Sited(x, words, at),
         NEW n \in Nat \ {0}
  PROVE  /\ igrams(x, words, n) = [i \in NGramStarts(words, n) |-> igrams(x, words, n)[i]]
         /\ \A i \in NGramStarts(words, n) :
              LET g == igrams(x, words, n)[i]
              IN  AtWords(words, at, g) /\ g.first = i /\ g.last = i + n - 1
<1>. DEFINE g1 == CHOOSE g : NextStarts(x, words, g)
            Gram(i) == LET range == generateNGramIndexRanges(x, g1[i], words, i, i + n - 1)
                       IN  [value |-> concat(words, i, i + n - 1), first |-> i, last |-> i + n - 1,
                            start |-> range[i].start, stop |-> range[i + n - 1].stop]
<1>1. igrams(x, words, n) = [i \in NGramStarts(words, n) |-> Gram(i)]
  BY DEF igrams, NextStarts
<1>2. Len(words) \in Nat
  BY LenProperties
<1>3. ASSUME NEW i \in NGramStarts(words, n)
      PROVE  AtWords(words, at, Gram(i)) /\ Gram(i).first = i /\ Gram(i).last = i + n - 1
  <2>. DEFINE j == i + n - 1
              r == generateNGramIndexRanges(x, g1[i], words, i, j)
  <2>1. /\ i \in 1..Len(words) /\ j \in i..Len(words) /\ i \in i..j /\ j \in i..j /\ j \in 1..Len(words)
        /\ i \in Nat /\ j \in Nat
    BY <1>2 DEF NGramStarts
  <2>2. words # <<>>
    BY <2>1
  <2>3. NextStarts(x, words, g1)
    BY <2>2, SomeNextStarts
  <2>4. LooksFrom(x, words, at, i, g1[i])
    <3>. HIDE DEF g1
    <3>. QED BY <2>1, <2>3, NextStartsLook
  <2>. HIDE DEF g1
  <2>5. AtWord(words, at, i, r[i]) /\ AtWord(words, at, j, r[j])
    <3>. HIDE DEF j
    <3>. QED BY <2>1, <2>4, RangesAreAtWords
  <2>6. Gram(i) = [value |-> concat(words, i, j), first |-> i, last |-> j,
                   start |-> r[i].start, stop |-> r[j].stop]
    OBVIOUS
  <2>7. /\ Gram(i).first = i /\ Gram(i).last = j /\ Gram(i).value = concat(words, i, j)
        /\ Gram(i).start = r[i].start /\ Gram(i).stop = r[j].stop
    BY <2>6
  <2>. HIDE DEF Gram, r, j
  <2>8. /\ at[i] \in Nat /\ at[j] \in Nat /\ Len(words[j]) \in Nat
    BY <2>1, ElementOfSeq, LenProperties DEF Sited
  <2>9. /\ r[j].stop \in Int /\ r[j].stop >= Len(words[j]) - 1
        /\ r[j].stop <= at[j] + Len(words[j]) - 1
        /\ ~Repeats(words, j) => r[j].stop = at[j] + Len(words[j]) - 1
    <3>1. /\ r[j].start \in 0..at[j] /\ (~Repeats(words, j) => r[j].start = at[j])
          /\ r[j].stop = r[j].start + Len(words[j]) - 1
      BY <2>5 DEF AtWord
    <3>. QED BY <2>8, <3>1
  <2>10. r[i].start \in 0..at[i] /\ (~Repeats(words, i) => r[i].start = at[i])
    BY <2>5 DEF AtWord
  <2>11. AtWords(words, at, Gram(i))
    BY <2>1, <2>7, <2>9, <2>10 DEF AtWords
  <2>. QED BY <2>7, <2>11 DEF j
<1>. HIDE DEF Gram
<1>4. \A i \in NGramStarts(words, n) : igrams(x, words, n)[i] = Gram(i)
  BY <1>1
<1>. QED BY <1>1, <1>3, <1>4

--------------------------------------------------------------------------
(* The words of a text are behind one another, with separators between. *)

\* Behind the end of a word there are separators only, up to the next word or the end.
LEMMA NothingBetween ==
  ASSUME NEW C, NEW x \in Seq(C), NEW b \in Nat, NEW e \in Nat, e <= Len(x),
         b > 0 => x[b] = Blank \/ (b < e => x[b + 1] = Blank),
         \A p \in WordStarts(x) : ~(b <= p /\ p < e)
  PROVE  \A q \in b..(e - 1) : x[q + 1] = Blank
<1>. DEFINE P == {n \in Nat : b + n < e => x[b + n + 1] = Blank}
<1>1. Len(x) \in Nat
  BY LenProperties
<1>2. ASSUME NEW q \in Nat, b <= q, q < e, q > 0 => x[q] = Blank PROVE x[q + 1] = Blank
  <2>1. q \notin WordStarts(x) /\ q \in 0..(Len(x) - 1)
    BY <1>1, <1>2
  <2>. QED BY <1>2, <2>1 DEF WordStarts
<1>3. 0 \in P
  <2>. SUFFICES ASSUME b < e PROVE x[b + 1] = Blank
    OBVIOUS
  <2>1. b <= b
    OBVIOUS
  <2>. QED BY <1>2, <2>1
<1>4. ASSUME NEW n \in 0..(e - b - 1), n \in P PROVE n + 1 \in P
  <2>. SUFFICES ASSUME b + (n + 1) < e PROVE x[b + (n + 1) + 1] = Blank
    OBVIOUS
  <2>. DEFINE q == b + (n + 1)
  <2>1. n \in Nat /\ b + n < e /\ b + n + 1 = q /\ q \in Nat /\ b <= q /\ q < e
    OBVIOUS
  <2>2. x[q] = Blank
    <3>1. x[b + n + 1] = Blank
      BY <1>4, <2>1
    <3>. QED BY <2>1, <3>1
  <2>. HIDE DEF q
  <2>3. x[q + 1] = Blank
    BY <1>2, <2>1, <2>2
  <2>4. b + (n + 1) + 1 = q + 1
    BY DEF q
  <2>. QED BY <2>3, <2>4
<1>5. ASSUME NEW q \in b..(e - 1) PROVE x[q + 1] = Blank
  <2>1. P \in SUBSET Nat
    OBVIOUS
  <2>2. e - b \in Nat /\ q - b \in 0..(e - b) /\ b + (q - b) = q /\ q < e /\ (e - b) - 1 = e - b - 1
        /\ b + (q - b) + 1 = q + 1
    OBVIOUS
  <2>3. q - b \in P
    <3>. HIDE DEF P
    <3>. QED BY <1>3, <1>4, <2>1, <2>2, UpTo
  <2>4. b + (q - b) < e => x[b + (q - b) + 1] = Blank
    BY <2>3
  <2>. QED BY <2>2, <2>4
<1>. QED BY <1>5

\* Where the words of a text begin.
Begins(x) == [k \in 1..Len(textTokanization(x)) |-> WordBegin(x, k)]

LEMMA BeginsAre ==
  ASSUME NEW C, NEW x \in Seq(C)
  PROVE  LET words == textTokanization(x)
             n == Cardinality(WordStarts(x))
             l == Len(words) - n
         IN  /\ words \in Seq(Seq(C)) /\ Len(words) \in Nat /\ n \in Nat /\ l \in {0, 1}
             /\ l = 1 => words[1] = <<>>
             /\ l = 0 /\ n > 0 => x[1] # Blank
             /\ \A k \in 1..Len(words) : k <= l => Begins(x)[k] = 0
             /\ \A k \in 1..n : /\ Starts(x)[k] \in WordStarts(x)
                                /\ l + k \in 1..Len(words)
                                /\ words[l + k] = WordAt(x, Starts(x)[k])
                                /\ Begins(x)[l + k] = Starts(x)[k]
<1>. DEFINE words == textTokanization(x)
            n == Cardinality(WordStarts(x))
            l == Len(words) - n
<1>1. /\ n \in Nat /\ Len(Starts(x)) = n
      /\ WordStarts(x) \in SUBSET Nat /\ IsFiniteSet(WordStarts(x))
  BY StartsAreNumbers, SortedIsSorted DEF Starts
<1>2. \A k : WordBegin(x, k) = IF k <= l THEN 0 ELSE Starts(x)[k - l]
  BY <1>1 DEF WordBegin, Starts
<1>3. /\ words \in Seq(Seq(C)) /\ l \in {0, 1} /\ (l = 1 => words[1] = <<>>)
      /\ l = 0 /\ n > 0 => x[1] # Blank
      /\ \A k \in 1..n : Starts(x)[k] \in WordStarts(x) /\ words[l + k] = WordAt(x, Starts(x)[k])
  <2>1. CASE x = <<>>
    <3>1. words = << <<>> >>
      BY <2>1 DEF textTokanization
    <3>2. WordStarts(x) = {}
      BY <2>1 DEF WordStarts
    <3>3. n = 0
      BY <3>2, FS_EmptySet
    <3>4. <<>> \in Seq(C) /\ << <<>> >> \in Seq(Seq(C)) /\ Len(<< <<>> >>) = 1 /\ << <<>> >>[1] = <<>>
      <4>1. <<>> \in Seq(C)
        OBVIOUS
      <4>. QED BY <4>1
    <3>5. l = 1 /\ words[1] = <<>> /\ words \in Seq(Seq(C))
      BY <3>1, <3>3, <3>4
    <3>. HIDE DEF words, n, l
    <3>. QED BY <3>3, <3>5
  <2>2. CASE x # <<>>
    <3>1. /\ Leading(x) \in {0, 1}
          /\ words \in Seq(Seq(C)) /\ Len(words) = Leading(x) + n
          /\ Leading(x) = 1 => words[1] = <<>>
          /\ \A k \in 1..n : Starts(x)[k] \in WordStarts(x) /\ words[Leading(x) + k] = WordAt(x, Starts(x)[k])
      BY <2>2, WordsAre
    <3>2. l = Leading(x)
      <4>. HIDE DEF words, n
      <4>. QED BY <1>1, <3>1
    <3>3. n > 0 => WordStarts(x) # {}
      <4>1. SUFFICES ASSUME WordStarts(x) = {} PROVE n = 0
        OBVIOUS
      <4>. QED BY <4>1, FS_EmptySet
    <3>4. l = 0 /\ n > 0 => x[1] # Blank
      <4>. HIDE DEF l, n
      <4>. QED BY <2>2, <3>2, <3>3 DEF Leading
    <3>. HIDE DEF words, n, l
    <3>. QED BY <3>1, <3>2, <3>4
  <2>. QED BY <2>1, <2>2
<1>4. Len(words) \in Nat /\ Len(words) = l + n
  <2>. HIDE DEF words, n
  <2>. QED BY <1>1, <1>3, LenProperties
<1>5. \A k \in 1..Len(words) : Begins(x)[k] = WordBegin(x, k)
  BY DEF Begins
<1>. HIDE DEF words, n, l
<1>6. ASSUME NEW k \in 1..n
      PROVE  l + k \in 1..Len(words) /\ Begins(x)[l + k] = Starts(x)[k]
  <2>1. l + k \in 1..Len(words) /\ ~(l + k <= l) /\ (l + k) - l = k
    BY <1>1, <1>3, <1>4
  <2>. QED BY <1>2, <1>5, <2>1
<1>7. \A k \in 1..Len(words) : k <= l => Begins(x)[k] = 0
  BY <1>2, <1>5
<1>. QED BY <1>1, <1>3, <1>4, <1>6, <1>7 DEF words, n, l

LEMMA WordsAreSited ==
  ASSUME NEW C, NEW x \in Seq(C)
  PROVE  /\ textTokanization(x) \in Seq(Seq(C))
         /\ Sited(x, textTokanization(x), Begins(x))
<1>. DEFINE words == textTokanization(x)
            at == Begins(x)
            s == Starts(x)
            n == Cardinality(WordStarts(x))
            l == Len(words) - n
<1>1. /\ words \in Seq(Seq(C)) /\ Len(words) \in Nat /\ n \in Nat /\ l \in {0, 1}
      /\ l = 1 => words[1] = <<>>
      /\ l = 0 /\ n > 0 => x[1] # Blank
      /\ \A k \in 1..Len(words) : k <= l => at[k] = 0
      /\ \A k \in 1..n : /\ s[k] \in WordStarts(x)
                         /\ l + k \in 1..Len(words)
                         /\ words[l + k] = WordAt(x, s[k])
                         /\ at[l + k] = s[k]
  BY BeginsAre
<1>2. /\ Len(x) \in Nat /\ WordStarts(x) \in SUBSET Nat /\ IsFiniteSet(WordStarts(x))
      /\ \A p \in WordStarts(x) : p \in 0..(Len(x) - 1) /\ x[p + 1] # Blank /\ (p > 0 => x[p] = Blank)
  BY StartsAreNumbers
<1>3. /\ \A j, k \in 1..n : j < k => s[j] < s[k]
      /\ \A p \in WordStarts(x) : \E k \in 1..n : s[k] = p
  BY <1>2, SortedIsSorted DEF Starts
<1>4. Len(words) = l + n
  BY <1>1
<1>. HIDE DEF words, at, s, n, l
<1>5. \A k \in 1..Len(words) : k > l => k - l \in 1..n /\ l + (k - l) = k
  BY <1>1, <1>4
\* Where a word ends.
<1>. DEFINE Ends(k, e) == /\ WordEnds(x, s[k], e) /\ e \in Nat /\ s[k] \in Nat
                          /\ words[l + k] \in Seq(C) /\ Len(words[l + k]) = e - s[k] + 1
                          /\ \A j \in 1..(e - s[k] + 1) : words[l + k][j] = x[s[k] + j]
<1>6. ASSUME NEW k \in 1..n PROVE \E e : Ends(k, e)
  <2>1. s[k] \in WordStarts(x) /\ words[l + k] = WordAt(x, s[k]) /\ s[k] \in Nat
    BY <1>1, <1>2
  <2>2. PICK p \in WordStarts(x) : p = s[k]
    BY <2>1
  <2>3. PICK e \in p..(Len(x) - 1) :
          /\ WordEnds(x, p, e) /\ WordAt(x, p) \in Seq(C) /\ Len(WordAt(x, p)) = e - p + 1
          /\ \A j \in 1..(e - p + 1) : WordAt(x, p)[j] = x[p + j]
    BY WordIs
  <2>4. e \in Nat
    BY <1>2, <2>1, <2>2
  <2>. QED BY <2>1, <2>2, <2>3, <2>4
<1>7. ASSUME NEW k \in 1..n
      PROVE  /\ at[l + k] \in Nat /\ StandsAt(x, words[l + k], at[l + k])
             /\ \A j \in 1..Len(words[l + k]) : words[l + k][j] # Blank
             /\ words[l + k] # <<>>
             /\ at[l + k] + Len(words[l + k]) < Len(x) => x[at[l + k] + Len(words[l + k]) + 1] = Blank
  <2>1. PICK e : Ends(k, e)
    BY <1>6
  <2>2. at[l + k] = s[k]
    BY <1>1
  <2>. DEFINE p == s[k]
              w == words[l + k]
  <2>3. /\ p \in Nat /\ e \in p..(Len(x) - 1) /\ e \in Nat /\ Len(w) = e - p + 1
        /\ \A q \in p..e : x[q + 1] # Blank
        /\ e + 1 < Len(x) => x[e + 2] = Blank
        /\ \A j \in 1..(e - p + 1) : w[j] = x[p + j]
    BY <2>1 DEF WordEnds
  <2>. HIDE DEF p, w
  <2>4. p + Len(w) = e + 1 /\ p + Len(w) <= Len(x) /\ Len(w) # 0 /\ p + Len(w) + 1 = e + 2
    BY <1>2, <2>3
  <2>5. StandsAt(x, w, p)
    BY <2>3, <2>4 DEF StandsAt
  <2>6. ASSUME NEW j \in 1..Len(w) PROVE w[j] # Blank
    <3>1. p + j - 1 \in p..e /\ (p + j - 1) + 1 = p + j /\ j \in 1..(e - p + 1)
      BY <2>3
    <3>. QED BY <2>3, <3>1
  <2>7. w # <<>>
    BY <2>4
  <2>. QED BY <2>2, <2>3, <2>4, <2>5, <2>6, <2>7 DEF p, w
<1>8. ASSUME NEW k \in 1..n, l + k > 1
      PROVE  /\ at[l + k - 1] + Len(words[l + k - 1]) <= at[l + k]
             /\ \A q \in (at[l + k - 1] + Len(words[l + k - 1]))..(at[l + k] - 1) : x[q + 1] = Blank
  <2>1. s[k] \in WordStarts(x) /\ s[k] \in Nat /\ s[k] <= Len(x) /\ at[l + k] = s[k]
    BY <1>1, <1>2
  <2>2. CASE k = 1
    <3>1. l = 1 /\ l + k - 1 = 1 /\ 1 \in 1..Len(words)
      BY <1>1, <1>4, <1>8, <2>2
    <3>2. at[1] = 0 /\ words[1] = <<>>
      BY <1>1, <3>1
    <3>3. at[l + k - 1] + Len(words[l + k - 1]) = 0
      BY <3>1, <3>2
    <3>4. \A p \in WordStarts(x) : ~(0 <= p /\ p < s[k])
      <4>. SUFFICES ASSUME NEW p \in WordStarts(x), p < s[k] PROVE FALSE
        OBVIOUS
      <4>1. PICK m \in 1..n : s[m] = p
        BY <1>3
      <4>2. m = 1 \/ 1 < m
        OBVIOUS
      <4>3. s[m] \in Nat /\ (1 < m => s[k] < s[m])
        BY <1>1, <1>2, <1>3, <2>2
      <4>. QED BY <2>1, <2>2, <4>1, <4>2, <4>3
    <3>5. \A q \in 0..(s[k] - 1) : x[q + 1] = Blank
      <4>1. 0 > 0 => x[0] = Blank \/ (0 < s[k] => x[0 + 1] = Blank)
        OBVIOUS
      <4>. QED BY <2>1, <3>4, <4>1, NothingBetween
    <3>. QED BY <2>1, <3>3, <3>5
  <2>3. CASE k # 1
    <3>. DEFINE i == k - 1
    <3>1. i \in 1..n /\ i < k /\ l + k - 1 = l + i /\ \A m \in 1..n : m <= i \/ k <= m
      BY <1>1, <2>3
    <3>. HIDE DEF i
    <3>2. s[i] \in WordStarts(x) /\ at[l + i] = s[i] /\ s[i] < s[k] /\ s[i] \in Nat
      BY <1>1, <1>2, <1>3, <3>1
    <3>3. PICK e : Ends(i, e)
      BY <1>6, <3>1
    <3>4. e + 1 < s[k] /\ x[e + 2] = Blank
      BY <2>1, <3>2, <3>3, WordsAreApart
    <3>5. e \in Nat /\ e + 1 \in Nat /\ at[l + i] + Len(words[l + i]) = e + 1 /\ (e + 1) + 1 = e + 2
          /\ s[i] <= e
      <4>1. e \in Nat /\ Len(words[l + i]) = e - s[i] + 1 /\ e \in s[i]..(Len(x) - 1)
        BY <3>3 DEF WordEnds
      <4>. QED BY <3>2, <4>1
    <3>6. \A p \in WordStarts(x) : ~(e + 1 <= p /\ p < s[k])
      <4>. SUFFICES ASSUME NEW p \in WordStarts(x), e + 1 <= p, p < s[k] PROVE FALSE
        OBVIOUS
      <4>1. PICK m \in 1..n : s[m] = p
        BY <1>3
      <4>2. p \in Nat
        BY <1>2
      <4>3. CASE m <= i
        <5>1. s[m] <= s[i]
          <6>1. m = i \/ m < i
            BY <3>1, <4>3
          <6>2. s[m] \in Nat
            BY <4>1, <4>2
          <6>. QED BY <1>3, <3>1, <3>2, <6>1, <6>2
        <5>. QED BY <3>2, <3>5, <4>1, <4>2, <5>1
      <4>4. CASE k <= m
        <5>1. s[k] <= s[m]
          <6>1. m = k \/ k < m
            BY <4>4
          <6>2. s[m] \in Nat
            BY <4>1, <4>2
          <6>. QED BY <1>3, <2>1, <6>1, <6>2
        <5>. QED BY <2>1, <4>1, <4>2, <5>1
      <4>. QED BY <3>1, <4>3, <4>4
    <3>7. \A q \in (e + 1)..(s[k] - 1) : x[q + 1] = Blank
      BY <2>1, <3>4, <3>5, <3>6, NothingBetween
    <3>. QED BY <2>1, <3>1, <3>4, <3>5, <3>7
  <2>. QED BY <2>2, <2>3
<1>9. ASSUME NEW k \in 1..Len(words)
      PROVE  /\ at[k] \in Nat /\ StandsAt(x, words[k], at[k])
             /\ \A j \in 1..Len(words[k]) : words[k][j] # Blank
             /\ k > 1 => words[k] # <<>>
             /\ k > 1 => /\ at[k - 1] + Len(words[k - 1]) <= at[k]
                         /\ \A q \in (at[k - 1] + Len(words[k - 1]))..(at[k] - 1) : x[q + 1] = Blank
             /\ words[k] # <<>> /\ at[k] + Len(words[k]) < Len(x) => x[at[k] + Len(words[k]) + 1] = Blank
  <2>1. CASE k <= l
    <3>1. k = 1 /\ at[k] = 0 /\ words[k] = <<>>
      BY <1>1, <2>1
    <3>2. Len(words[k]) = 0 /\ 0 + 0 <= Len(x)
      BY <1>2, <3>1
    <3>3. StandsAt(x, words[k], at[k])
      BY <3>1, <3>2 DEF StandsAt
    <3>. QED BY <3>1, <3>2, <3>3
  <2>2. CASE k > l
    <3>1. PICK m \in 1..n : l + m = k
      BY <1>5, <2>2
    <3>2. k - 1 = l + m - 1
      BY <1>1, <3>1
    <3>. QED BY <1>7, <1>8, <3>1, <3>2
  <2>. QED BY <1>1, <2>1, <2>2
<1>10. Len(words) > 0 => at[1] = 0
  <2>. SUFFICES ASSUME Len(words) > 0 PROVE at[1] = 0
    OBVIOUS
  <2>0. 1 \in 1..Len(words)
    BY <1>1
  <2>1. CASE l = 1
    BY <1>1, <2>0, <2>1
  <2>2. CASE l = 0
    <3>1. n > 0 /\ 1 \in 1..n /\ l + 1 = 1
      BY <1>1, <1>4, <2>2
    <3>2. s[1] \in WordStarts(x) /\ at[1] = s[1] /\ x[1] # Blank
      BY <1>1, <2>2, <3>1
    <3>3. 0 \in WordStarts(x)
      <4>1. 0 \in 0..(Len(x) - 1)
        BY <1>2, <3>2
      <4>. QED BY <3>2, <4>1 DEF WordStarts
    <3>4. PICK m \in 1..n : s[m] = 0
      BY <1>3, <3>3
    <3>5. m = 1 \/ 1 < m
      OBVIOUS
    <3>6. ~(1 < m)
      <4>1. s[1] \in Nat
        BY <1>2, <3>2
      <4>. QED BY <1>3, <3>1, <3>4, <4>1
    <3>. QED BY <3>2, <3>4, <3>5, <3>6
  <2>. QED BY <1>1, <2>1, <2>2
<1>11. Sited(x, words, at)
  BY <1>9, <1>10 DEF Sited
<1>. QED BY <1>1, <1>11 DEF words, at

--------------------------------------------------------------------------
(* The n-grams of all lengths. *)

\* Of no n-grams, and of those of one length more.
LEMMA NGramsMore ==
  ASSUME NEW C, NEW x \in Seq(C), NEW n \in Nat, NEW S,
         \A m \in 1..(n + 1) : igrams(x, textTokanization(x), m) \in Seq(S)
  PROVE  /\ generateNGrams(x, n) \in Seq(S)
         /\ generateNGrams(x, n + 1) = generateNGrams(x, n) \o igrams(x, textTokanization(x), n + 1)
<1>. DEFINE words == textTokanization(x)
            s0 == [m \in 1..n |-> igrams(x, words, m)]
            s  == [m \in 1..(n + 1) |-> igrams(x, words, m)]
<1>1. generateNGrams(x, n) = FlattenSeq(s0) /\ generateNGrams(x, n + 1) = FlattenSeq(s)
  BY DEF generateNGrams
<1>2. s \in [1..(n + 1) -> Seq(S)] /\ s0 \in [1..n -> Seq(S)] /\ \A p \in 1..n : s0[p] = s[p]
  <2>1. \A m \in 1..n : m \in 1..(n + 1)
    OBVIOUS
  <2>. QED BY <2>1
<1>3. s[n + 1] = igrams(x, words, n + 1)
  OBVIOUS
<1>. HIDE DEF s, s0, words
<1>4. FlattenSeq(s) = FlattenSeq(s0) \o s[n + 1] /\ FlattenSeq(s0) \in Seq(S)
  BY <1>2, FlattenLast
<1>. QED BY <1>1, <1>3, <1>4 DEF words

\* How many words an n-gram has, less one.
MoreWords(g) == g.last - g.first

\* The n-grams of up to n words.
Grams(x, n) ==
  UNION {{igrams(x, textTokanization(x), m)[i] : i \in NGramStarts(textTokanization(x), m)} : m \in 1..n}

\* The n-grams of one length are lists of some words, at these.
LEMMA IgramsAre ==
  ASSUME NEW C, NEW x \in Seq(C), NEW n \in Nat, NEW m \in 1..n
  PROVE  LET words == textTokanization(x)
             gs == igrams(x, words, m)
         IN  /\ gs \in Seq(Grams(x, n)) /\ Len(gs) \in Nat
             /\ \A i \in 1..Len(gs) : AtWords(words, Begins(x), gs[i]) /\ MoreWords(gs[i]) = m - 1
<1>. DEFINE words == textTokanization(x)
            at == Begins(x)
            gs == igrams(x, words, m)
            c == IF m > Len(words) THEN 0 ELSE Len(words) - m + 1
<1>1. words \in Seq(Seq(C)) /\ Sited(x, words, at) /\ Len(words) \in Nat
  BY WordsAreSited, LenProperties
<1>2. \A i \in NGramStarts(words, m) : gs[i] \in Grams(x, n)
  BY DEF Grams
<1>. HIDE DEF words, at
<1>3. /\ gs = [i \in NGramStarts(words, m) |-> gs[i]]
      /\ \A i \in NGramStarts(words, m) :
           AtWords(words, at, gs[i]) /\ gs[i].first = i /\ gs[i].last = i + m - 1
  BY <1>1, GramAtWords
<1>4. NGramStarts(words, m) = 1..c /\ c \in Nat
  BY <1>1 DEF NGramStarts
<1>. HIDE DEF gs, c
<1>5. gs \in [1..c -> Grams(x, n)]
  BY <1>2, <1>3, <1>4
<1>6. gs \in Seq(Grams(x, n)) /\ Len(gs) = c
  BY <1>4, <1>5
<1>7. ASSUME NEW i \in 1..c PROVE MoreWords(gs[i]) = m - 1
  <2>1. gs[i].first = i /\ gs[i].last = i + m - 1 /\ i \in Int
    BY <1>3, <1>4
  <2>. QED BY <2>1 DEF MoreWords
<1>. QED BY <1>3, <1>4, <1>6, <1>7 DEF gs, words, at

\* The n-grams of a text: each range is at its words, and short ones come first.
LEMMA NGramsAre ==
  ASSUME NEW C, NEW x \in Seq(C), NEW n \in Nat
  PROVE  LET ngrams == generateNGrams(x, n)
         IN  /\ Len(ngrams) \in Nat
             /\ \A k \in 1..Len(ngrams) : /\ AtWords(textTokanization(x), Begins(x), ngrams[k])
                                           /\ MoreWords(ngrams[k]) \in 0..(n - 1)
             /\ \A j, k \in 1..Len(ngrams) : j < k => MoreWords(ngrams[j]) <= MoreWords(ngrams[k])
<1>. DEFINE words == textTokanization(x)
            at == Begins(x)
            S == Grams(x, n + 1)
<1>1. words \in Seq(Seq(C)) /\ Sited(x, words, at) /\ Len(words) \in Nat
  BY WordsAreSited, LenProperties
<1>2. ASSUME NEW m \in 1..(n + 1)
      PROVE  /\ igrams(x, words, m) \in Seq(S)
             /\ \A i \in 1..Len(igrams(x, words, m)) :
                  AtWords(words, at, igrams(x, words, m)[i]) /\ MoreWords(igrams(x, words, m)[i]) = m - 1
  BY IgramsAre
<1>. HIDE DEF words, at, S
<1>. DEFINE Right(m) ==
       /\ generateNGrams(x, m) \in Seq(S)
       /\ \A k \in 1..Len(generateNGrams(x, m)) :
            AtWords(words, at, generateNGrams(x, m)[k]) /\ MoreWords(generateNGrams(x, m)[k]) \in 0..(m - 1)
       /\ \A j, k \in 1..Len(generateNGrams(x, m)) :
            j < k => MoreWords(generateNGrams(x, m)[j]) <= MoreWords(generateNGrams(x, m)[k])
     P == {m \in Nat : m <= n => Right(m)}
<1>3. ASSUME NEW m \in 0..n
      PROVE  /\ generateNGrams(x, m) \in Seq(S)
             /\ generateNGrams(x, m + 1) = generateNGrams(x, m) \o igrams(x, words, m + 1)
  <2>1. \A p \in 1..(m + 1) : p \in 1..(n + 1)
    OBVIOUS
  <2>. QED BY <1>2, <2>1, NGramsMore DEF words
<1>4. 0 \in P
  <2>1. generateNGrams(x, 0) = <<>>
    <3>1. [m \in 1..0 |-> igrams(x, words, m)] = <<>>
      OBVIOUS
    <3>2. generateNGrams(x, 0) = FlattenSeq(<<>>)
      BY <3>1 DEF generateNGrams, words
    <3>. QED BY <3>2 DEF FlattenSeq
  <2>2. Len(generateNGrams(x, 0)) = 0 /\ generateNGrams(x, 0) \in Seq(S)
    <3>1. Len(<<>>) = 0 /\ <<>> \in Seq(S)
      BY EmptySeq
    <3>. QED BY <2>1, <3>1
  <2>3. Right(0)
    BY <2>2
  <2>. HIDE DEF Right
  <2>. QED BY <2>3
<1>5. ASSUME NEW m \in 0..(n - 1), m \in P PROVE m + 1 \in P
  <2>. DEFINE old == generateNGrams(x, m)
              new == igrams(x, words, m + 1)
              all == generateNGrams(x, m + 1)
              a == Len(old)
  <2>1. m \in Nat /\ m <= n /\ m \in 0..n /\ m + 1 \in 1..(n + 1) /\ m + 1 \in Nat
    OBVIOUS
  <2>2. Right(m)
    <3>. HIDE DEF Right
    <3>. QED BY <1>5, <2>1
  <2>3. /\ old \in Seq(S) /\ a \in Nat
        /\ \A k \in 1..a : AtWords(words, at, old[k]) /\ MoreWords(old[k]) \in 0..(m - 1)
        /\ \A j, k \in 1..a : j < k => MoreWords(old[j]) <= MoreWords(old[k])
    BY <2>2, LenProperties
  <2>4. /\ new \in Seq(S) /\ Len(new) \in Nat
        /\ \A i \in 1..Len(new) : AtWords(words, at, new[i]) /\ MoreWords(new[i]) = (m + 1) - 1
    BY <1>2, <2>1, LenProperties
  <2>5. all = old \o new
    BY <1>3, <2>1
  <2>. HIDE DEF old, new, all, a
  <2>6. /\ all \in Seq(S) /\ Len(all) = a + Len(new)
        /\ \A k \in 1..(a + Len(new)) : all[k] = IF k <= a THEN old[k] ELSE new[k - a]
    BY <2>3, <2>4, <2>5, ConcatProperties DEF a
  <2>7. ASSUME NEW k \in 1..Len(all)
        PROVE  /\ AtWords(words, at, all[k]) /\ MoreWords(all[k]) \in 0..m
               /\ k <= a => all[k] = old[k]
               /\ ~(k <= a) => MoreWords(all[k]) = m
    <3>1. CASE k <= a
      <4>1. k \in 1..a /\ all[k] = old[k]
        BY <2>3, <2>6, <3>1
      <4>2. MoreWords(old[k]) \in 0..(m - 1) /\ AtWords(words, at, old[k])
        BY <2>3, <4>1
      <4>3. MoreWords(all[k]) \in 0..m
        BY <2>1, <4>1, <4>2
      <4>. QED BY <3>1, <4>1, <4>2, <4>3
    <3>2. CASE ~(k <= a)
      <4>1. k - a \in 1..Len(new) /\ all[k] = new[k - a]
        BY <2>3, <2>4, <2>6, <3>2
      <4>2. MoreWords(all[k]) = m /\ AtWords(words, at, all[k])
        BY <2>1, <2>4, <4>1
      <4>. QED BY <2>1, <3>2, <4>2
    <3>. QED BY <3>1, <3>2
  <2>8. ASSUME NEW j \in 1..Len(all), NEW k \in 1..Len(all), j < k
        PROVE  MoreWords(all[j]) <= MoreWords(all[k])
    <3>1. CASE k <= a
      <4>1. j \in 1..a /\ k \in 1..a /\ j <= a
        BY <2>3, <2>6, <2>8, <3>1
      <4>. QED BY <2>3, <2>7, <2>8, <3>1, <4>1
    <3>2. CASE ~(k <= a)
      <4>1. MoreWords(all[k]) = m /\ MoreWords(all[j]) \in 0..m
        BY <2>7, <3>2
      <4>. QED BY <4>1
    <3>. QED BY <3>1, <3>2
  <2>9. Right(m + 1)
    <3>1. (m + 1) - 1 = m
      BY <2>1
    <3>. QED BY <2>6, <2>7, <2>8, <3>1 DEF all
  <2>. HIDE DEF Right
  <2>. QED BY <2>1, <2>9
<1>6. Right(n)
  <2>1. n \in P
    <3>1. P \in SUBSET Nat
      OBVIOUS
    <3>2. n \in 0..n
      OBVIOUS
    <3>. HIDE DEF P
    <3>. QED BY <1>4, <1>5, <3>1, <3>2, UpTo
  <2>2. n <= n
    OBVIOUS
  <2>. HIDE DEF Right
  <2>. QED BY <2>1, <2>2
<1>7. Len(generateNGrams(x, n)) \in Nat
  BY <1>6, LenProperties
<1>. QED BY <1>6, <1>7 DEF words, at

\* Of every text, the index range of an n-gram fits its words.
THEOREM RangesFit ==
  ASSUME NEW C, NEW x \in Seq(C), NEW n \in Nat, NEW k \in 1..Len(generateNGrams(x, n))
  PROVE  RangeFits(x, generateNGrams(x, n)[k])
<1>. DEFINE words == textTokanization(x)
            g == generateNGrams(x, n)[k]
<1>1. AtWords(words, Begins(x), g)
  BY NGramsAre
<1>2. words \in Seq(Seq(C)) /\ Sited(x, words, Begins(x)) /\ Len(words) \in Nat
  BY WordsAreSited, LenProperties
<1>. HIDE DEF words, g
<1>3. \A i \in 1..Len(words) : Begins(x)[i] = WordBegin(x, i) /\ (Slips(x, i) <=> Repeats(words, i))
  BY DEF Begins, Slips, Repeats, words
<1>4. /\ g.first \in 1..Len(words) /\ g.last \in 1..Len(words)
  BY <1>1, <1>2 DEF AtWords
<1>5. WordEnd(x, g.last) = WordBegin(x, g.last) + Len(words[g.last]) - 1
  BY DEF WordEnd, words
<1>6. WordBegin(x, g.last) \in Nat /\ Len(words[g.last]) \in Nat
  BY <1>2, <1>3, <1>4, ElementOfSeq, LenProperties DEF Sited
<1>7. ASSUME Slips(x, g.last) PROVE g.stop \in 0..WordEnd(x, g.last)
  <2>1. Len(words[g.last]) = 1
    BY <1>3, <1>4, <1>7 DEF Repeats
  <2>2. g.stop \in Int /\ g.stop >= 1 - 1 /\ g.stop <= WordBegin(x, g.last) + 1 - 1
    BY <1>1, <1>3, <1>4, <2>1 DEF AtWords
  <2>. QED BY <1>5, <1>6, <2>1, <2>2
<1>8. ~Slips(x, g.last) => g.stop = WordEnd(x, g.last)
  BY <1>1, <1>3, <1>4, <1>5 DEF AtWords
<1>9. /\ Slips(x, g.first) => g.start \in 0..WordBegin(x, g.first)
      /\ ~Slips(x, g.first) => g.start = WordBegin(x, g.first)
  BY <1>1, <1>3, <1>4 DEF AtWords
<1>. QED BY <1>7, <1>8, <1>9 DEF RangeFits, g

--------------------------------------------------------------------------
(* Where longer n-grams are, and which values tell where their words are. *)

\* A word behind a separator.
LEMMA SpacedIs ==
  ASSUME NEW C, Blank \in C, NEW word \in Seq(C)
  PROVE  LET spaced == <<Blank>> \o word
         IN  /\ spaced \in Seq(C) /\ Len(spaced) = Len(word) + 1 /\ spaced[1] = Blank
             /\ \A k \in 1..Len(word) : spaced[k + 1] = word[k]
<1>. DEFINE b == <<Blank>>
<1>1. b \in Seq(C) /\ Len(b) = 1 /\ b[1] = Blank
  OBVIOUS
<1>2. Len(word) \in Nat
  BY LenProperties
<1>. HIDE DEF b
<1>3. /\ b \o word \in Seq(C) /\ Len(b \o word) = Len(b) + Len(word)
      /\ \A p \in 1..(Len(b) + Len(word)) :
           (b \o word)[p] = IF p <= Len(b) THEN b[p] ELSE word[p - Len(b)]
  BY <1>1, ConcatProperties
<1>4. (b \o word)[1] = Blank
  BY <1>1, <1>2, <1>3
<1>5. ASSUME NEW k \in 1..Len(word) PROVE (b \o word)[k + 1] = word[k]
  <2>1. k + 1 \in 1..(1 + Len(word)) /\ ~(k + 1 <= 1) /\ (k + 1) - 1 = k
    BY <1>2
  <2>. QED BY <1>1, <1>3, <2>1
<1>. QED BY <1>1, <1>2, <1>3, <1>4, <1>5 DEF b

\* One word more: a separator and the word come behind.
LEMMA ConcatIs ==
  ASSUME NEW C, NEW words \in Seq(Seq(C)), Blank \in C, NEW i \in 1..Len(words), NEW j \in i..Len(words)
  PROVE  /\ concat(words, i, j) \in Seq(C)
         /\ i = j => concat(words, i, j) = words[i]
         /\ i < j => concat(words, i, j) = concat(words, i, j - 1) \o (<<Blank>> \o words[j])
<1>. DEFINE n == j - i
            s(m) == [k \in 1..m |-> IF k = 1 THEN words[i] ELSE <<Blank>> \o words[i + k - 1]]
<1>1. /\ Len(words) \in Nat /\ i \in Nat /\ j \in Nat /\ n \in Nat /\ j <= Len(words)
      /\ \A k \in 1..Len(words) : words[k] \in Seq(C)
  BY LenProperties, ElementOfSeq
<1>2. ASSUME NEW m \in 0..(n + 1) PROVE s(m) \in [1..m -> Seq(C)]
  <2>1. ASSUME NEW k \in 1..m, k # 1 PROVE <<Blank>> \o words[i + k - 1] \in Seq(C)
    <3>1. i + k - 1 \in 1..Len(words)
      BY <1>1
    <3>2. <<Blank>> \in Seq(C) /\ words[i + k - 1] \in Seq(C)
      BY <1>1, <3>1
    <3>. QED BY <3>2
  <2>2. words[i] \in Seq(C)
    BY <1>1
  <2>. QED BY <2>1, <2>2
<1>3. /\ concat(words, i, j) = FlattenSeq(s(n + 1))
      /\ n > 0 => concat(words, i, j - 1) = FlattenSeq(s(n))
  BY <1>1 DEF concat
<1>4. /\ FlattenSeq(s(n + 1)) = FlattenSeq(s(n)) \o s(n + 1)[n + 1]
      /\ FlattenSeq(s(n)) \in Seq(C)
  <2>1. s(n + 1) \in [1..(n + 1) -> Seq(C)] /\ s(n) \in [1..n -> Seq(C)]
    BY <1>1, <1>2
  <2>2. \A p \in 1..n : s(n)[p] = s(n + 1)[p]
    BY <1>1
  <2>. HIDE DEF s, n
  <2>. QED BY <1>1, <2>1, <2>2, FlattenLast
<1>5. s(n + 1)[n + 1] = IF i = j THEN words[i] ELSE <<Blank>> \o words[j]
  BY <1>1
<1>6. s(n + 1)[n + 1] \in Seq(C)
  BY <1>1, <1>2
<1>7. concat(words, i, j) \in Seq(C)
  <2>. HIDE DEF s, n
  <2>. QED BY <1>3, <1>4, <1>6, ConcatProperties
<1>8. ASSUME i = j PROVE concat(words, i, j) = words[i]
  <2>1. n = 0 /\ s(0) = <<>>
    BY <1>1, <1>8
  <2>2. FlattenSeq(s(n)) = <<>>
    BY <2>1 DEF FlattenSeq
  <2>3. words[i] \in Seq(C)
    BY <1>1
  <2>. HIDE DEF s, n
  <2>. QED BY <1>3, <1>4, <1>5, <1>8, <2>2, <2>3, ConcatEmptySeq
<1>9. ASSUME i < j PROVE concat(words, i, j) = concat(words, i, j - 1) \o (<<Blank>> \o words[j])
  <2>1. n > 0 /\ i # j
    BY <1>1, <1>9
  <2>. HIDE DEF s, n
  <2>. QED BY <1>3, <1>4, <1>5, <2>1
<1>. QED BY <1>7, <1>8, <1>9

\* A value begins with its first word, and a separator behind it if it has more than one,
\* and ends with its last.
HasEnds(v, words, i, j) ==
  /\ i = j => v = words[i]
  /\ i < j => Len(v) > Len(words[i]) /\ v[Len(words[i]) + 1] = Blank
  /\ words[j] # <<>> => Len(v) > 0 /\ v[Len(v)] = Last(words[j])

LEMMA ConcatEnds ==
  ASSUME NEW C, NEW words \in Seq(Seq(C)), Blank \in C, NEW i \in 1..Len(words), NEW j \in i..Len(words)
  PROVE  HasEnds(concat(words, i, j), words, i, j) /\ concat(words, i, j) \in Seq(C)
<1>. DEFINE w(m) == concat(words, i, i + m)
            l == Len(words[i])
            Ends(m) == /\ Len(w(m)) >= l + (IF 0 < m THEN 1 ELSE 0)
                       /\ 0 < m => w(m)[l + 1] = Blank
                       /\ words[i + m] # <<>> => Len(w(m)) > 0 /\ w(m)[Len(w(m))] = Last(words[i + m])
            n == j - i
            P == {m \in Nat : m <= n => Ends(m)}
<1>1. /\ Len(words) \in Nat /\ i \in Nat /\ j \in Nat /\ n \in Nat /\ j <= Len(words)
      /\ \A k \in 1..Len(words) : words[k] \in Seq(C) /\ Len(words[k]) \in Nat
      /\ l \in Nat
  BY LenProperties, ElementOfSeq
<1>2. ASSUME NEW m \in 0..n
      PROVE  /\ w(m) \in Seq(C) /\ Len(w(m)) \in Nat
             /\ m = 0 => w(m) = words[i]
             /\ m > 0 => w(m) = w(m - 1) \o (<<Blank>> \o words[i + m])
  <2>1. i + m \in i..Len(words) /\ (m = 0 <=> i = i + m) /\ (m > 0 <=> i < i + m) /\ i + m - 1 = i + (m - 1)
    BY <1>1
  <2>2. w(m) \in Seq(C) /\ (m = 0 => w(m) = words[i])
        /\ (m > 0 => w(m) = w(m - 1) \o (<<Blank>> \o words[i + m]))
    <3>. DEFINE p == i + m
    <3>1. p \in i..Len(words) /\ (m = 0 <=> i = p) /\ (m > 0 <=> i < p)
      BY <2>1
    <3>2. concat(words, i, p - 1) = w(m - 1) /\ concat(words, i, p) = w(m)
      BY <2>1
    <3>. HIDE DEF p, w
    <3>3. /\ concat(words, i, p) \in Seq(C)
          /\ i = p => concat(words, i, p) = words[i]
          /\ i < p => concat(words, i, p) = concat(words, i, p - 1) \o (<<Blank>> \o words[p])
      BY <3>1, ConcatIs
    <3>. QED BY <3>1, <3>2, <3>3 DEF p
  <2>. HIDE DEF w
  <2>. QED BY <2>2, LenProperties
<1>3. 0 \in P
  <2>1. 0 \in 0..n /\ i + 0 = i
    BY <1>1
  <2>2. w(0) = words[i]
    BY <1>2, <2>1
  <2>3. words[i] \in Seq(C)
    BY <1>1
  <2>. HIDE DEF w
  <2>4. words[i] # <<>> => Len(words[i]) > 0
    BY <1>1, <2>3, EmptySeq
  <2>5. Ends(0)
    BY <1>1, <2>1, <2>2, <2>4 DEF Last
  <2>. QED BY <2>5
<1>4. ASSUME NEW m \in 0..(n - 1), m \in P PROVE m + 1 \in P
  <2>. DEFINE old == w(m)
              word == words[i + (m + 1)]
              new == <<Blank>> \o word
              all == w(m + 1)
  <2>1. /\ m \in Nat /\ m \in 0..n /\ m + 1 \in 0..n /\ m + 1 > 0 /\ (m + 1) - 1 = m /\ m <= n /\ m + 1 \in Nat
        /\ i + (m + 1) \in 1..Len(words)
    BY <1>1
  <2>2. Len(old) >= l + (IF 0 < m THEN 1 ELSE 0) /\ (0 < m => old[l + 1] = Blank)
    BY <1>4, <2>1
  <2>3. /\ old \in Seq(C) /\ Len(old) \in Nat /\ all = old \o new /\ (m = 0 => old = words[i])
    BY <1>2, <2>1
  <2>4. word \in Seq(C) /\ Len(word) \in Nat
    BY <1>1, <2>1
  <2>5. /\ new \in Seq(C) /\ Len(new) = Len(word) + 1 /\ new[1] = Blank
        /\ \A k \in 1..Len(word) : new[k + 1] = word[k]
    <3>. HIDE DEF word
    <3>. QED BY <2>4, SpacedIs
  <2>. HIDE DEF old, new, all, word
  <2>6. /\ Len(all) = Len(old) + Len(word) + 1
        /\ \A k \in 1..Len(old) : all[k] = old[k]
        /\ \A k \in 1..(Len(word) + 1) : all[Len(old) + k] = new[k]
    <3>1. /\ Len(all) = Len(old) + Len(new)
          /\ \A k \in 1..(Len(old) + Len(new)) :
               all[k] = IF k <= Len(old) THEN old[k] ELSE new[k - Len(old)]
      BY <2>3, <2>5, ConcatProperties
    <3>. QED BY <2>3, <2>4, <2>5, <3>1
  <2>7. all[l + 1] = Blank
    <3>1. CASE m = 0
      <4>1. Len(old) = l
        BY <2>3, <3>1
      <4>2. 1 \in 1..(Len(word) + 1)
        BY <2>4
      <4>. QED BY <2>5, <2>6, <4>1, <4>2
    <3>2. CASE m > 0
      <4>1. l + 1 \in 1..Len(old) /\ old[l + 1] = Blank
        BY <1>1, <2>2, <2>3, <3>2
      <4>. QED BY <2>6, <4>1
    <3>. QED BY <2>1, <3>1, <3>2
  <2>8. Len(all) >= l + 1
    <3>1. Len(old) >= l
      <4>. HIDE DEF l
      <4>1. CASE 0 < m
        BY <1>1, <2>2, <2>3, <4>1
      <4>2. CASE ~(0 < m)
        BY <1>1, <2>2, <2>3, <4>2
      <4>. QED BY <4>1, <4>2
    <3>. HIDE DEF l
    <3>. QED BY <1>1, <2>3, <2>4, <2>6, <3>1
  <2>9. ASSUME word # <<>> PROVE Len(all) > 0 /\ all[Len(all)] = Last(word)
    <3>1. Len(word) > 0
      BY <2>4, <2>9, EmptySeq
    <3>2. Len(word) \in 1..Len(word) /\ Len(word) + 1 \in 1..(Len(word) + 1)
      BY <2>4, <3>1
    <3>3. all[Len(old) + (Len(word) + 1)] = word[Len(word)]
      BY <2>5, <2>6, <3>2
    <3>4. Len(all) = Len(old) + (Len(word) + 1) /\ Len(all) > 0
      BY <2>3, <2>4, <2>6
    <3>. QED BY <3>3, <3>4 DEF Last
  <2>10. Ends(m + 1)
    BY <2>1, <2>7, <2>8, <2>9 DEF all, word
  <2>. HIDE DEF Ends
  <2>. QED BY <2>1, <2>10
<1>5. n \in P
  <2>1. P \in SUBSET Nat
    OBVIOUS
  <2>2. n \in 0..n
    BY <1>1
  <2>. HIDE DEF P, n
  <2>. QED BY <1>1, <1>3, <1>4, <2>1, <2>2, UpTo
<1>6. Ends(n)
  <2>1. n <= n
    BY <1>1
  <2>. HIDE DEF Ends, n
  <2>. QED BY <1>5, <2>1
<1>7. i + n = j /\ w(n) = concat(words, i, j) /\ (0 < n <=> i < j) /\ (n = 0 <=> i = j) /\ n \in 0..n
  BY <1>1
<1>8. w(n) \in Seq(C) /\ Len(w(n)) \in Nat /\ (i = j => w(n) = words[i])
  BY <1>2, <1>7
<1>. HIDE DEF w, n, l
<1>9. i < j => Len(w(n)) > l /\ w(n)[l + 1] = Blank
  BY <1>1, <1>6, <1>7, <1>8
<1>10. HasEnds(w(n), words, i, j)
  BY <1>6, <1>7, <1>8, <1>9 DEF HasEnds, l
<1>. QED BY <1>7, <1>8, <1>10

\* Words that a value begins and ends with, and that are found where they stand.
LEMMA FoundWords ==
  ASSUME NEW C, NEW words \in Seq(Seq(C)), NEW i \in 1..Len(words), NEW j \in i..Len(words),
         FoundInPlace(concat(words, i, j)), \A k \in 2..Len(words) : words[k] # <<>>
  PROVE  ~Repeats(words, i) /\ ~Repeats(words, j)
<1>. DEFINE D == C \cup {Blank}
            v == concat(words, i, j)
            n == Len(v)
<1>1. words \in Seq(Seq(D)) /\ Blank \in D
  <2>1. \A w \in Seq(C) : w \in Seq(D)
    OBVIOUS
  <2>2. \A k \in 1..Len(words) : words[k] \in Seq(D)
    BY <2>1, ElementOfSeq
  <2>. QED BY <2>2, LenProperties
<1>2. /\ Len(words) \in Nat /\ i \in Nat /\ j \in Nat
      /\ \A k \in 1..Len(words) : words[k] \in Seq(D) /\ Len(words[k]) \in Nat
  BY <1>1, LenProperties, ElementOfSeq
<1>. HIDE DEF D, v, n
<1>3. /\ v \in Seq(D) /\ n \in Nat
      /\ i = j => v = words[i]
      /\ i < j => n > Len(words[i]) /\ v[Len(words[i]) + 1] = Blank
  <2>1. HasEnds(v, words, i, j) /\ v \in Seq(D)
    BY <1>1, ConcatEnds DEF v
  <2>. QED BY <2>1, LenProperties DEF HasEnds, n
<1>4. n # 1 /\ (n > 1 => v[2] # Blank) /\ (n > 2 => ~(v[n - 1] = Blank /\ v[n - 2] = v[n]))
  BY DEF FoundInPlace, v, n
<1>5. Len(words[i]) # 1
  <2>. SUFFICES ASSUME Len(words[i]) = 1 PROVE FALSE
    OBVIOUS
  <2>1. CASE i = j
    BY <1>3, <1>4, <2>1 DEF n
  <2>2. CASE i < j
    BY <1>3, <1>4, <2>2
  <2>. QED BY <1>2, <2>1, <2>2
<1>6. ~Repeats(words, i)
  BY <1>5 DEF Repeats
<1>7. CASE i = j
  BY <1>6, <1>7
<1>8. CASE i < j
  <2>. SUFFICES ASSUME Repeats(words, j) PROVE FALSE
    BY <1>6
  <2>1. /\ Len(words[j]) = 1 /\ words[j - 1] # <<>> /\ Last(words[j - 1]) = words[j][1]
        /\ j - 1 \in i..Len(words) /\ j \in 1..Len(words)
    BY <1>2, <1>8 DEF Repeats
  <2>. DEFINE k == j - 1
              u == concat(words, i, k)
              new == <<Blank>> \o words[j]
              m == Len(u)
  <2>2. v = u \o new
    BY <1>1, <1>8, ConcatIs DEF v
  <2>3. k \in i..Len(words) /\ words[k] # <<>> /\ Last(words[k]) = words[j][1]
    BY <2>1
  <2>4. new \in Seq(D) /\ Len(new) = 2 /\ new[1] = Blank /\ new[2] = words[j][1]
    <3>1. words[j] \in Seq(D) /\ Len(words[j]) = 1
      BY <1>2, <2>1
    <3>. DEFINE c == words[j]
    <3>2. /\ new \in Seq(D) /\ Len(new) = Len(c) + 1 /\ new[1] = Blank
          /\ \A p \in 1..Len(c) : new[p + 1] = c[p]
      <4>. HIDE DEF c, k
      <4>1. c \in Seq(D) /\ new = <<Blank>> \o c
        BY <3>1 DEF c
      <4>. HIDE DEF new
      <4>. QED BY <1>1, <4>1, SpacedIs
    <3>3. 1 \in 1..Len(c)
      BY <3>1
    <3>. HIDE DEF new
    <3>. QED BY <3>1, <3>2, <3>3
  <2>. HIDE DEF k, u, new, m
  <2>5. u \in Seq(D) /\ m \in Nat /\ m > 0 /\ u[m] = Last(words[k])
    <3>1. u = concat(words, i, k) /\ k \in i..Len(words)
      BY <2>3 DEF u
    <3>2. HasEnds(u, words, i, k) /\ u \in Seq(D)
      BY <1>1, <3>1, ConcatEnds
    <3>. QED BY <2>3, <3>2, LenProperties DEF HasEnds, m
  <2>6. /\ n = m + 2
        /\ \A p \in 1..(m + 2) : v[p] = IF p <= m THEN u[p] ELSE new[p - m]
    <3>1. /\ Len(u \o new) = Len(u) + Len(new)
          /\ \A p \in 1..(Len(u) + Len(new)) :
               (u \o new)[p] = IF p <= Len(u) THEN u[p] ELSE new[p - Len(u)]
      BY <2>4, <2>5, ConcatProperties
    <3>. QED BY <2>2, <2>4, <3>1 DEF m, n
  <2>7. n > 2 /\ n - 1 = m + 1 /\ n - 2 = m
    BY <2>5, <2>6
  <2>8. v[m] = u[m] /\ v[m + 1] = Blank /\ v[m + 2] = words[j][1]
    BY <2>4, <2>5, <2>6
  <2>. QED BY <1>4, <2>3, <2>5, <2>6, <2>7, <2>8
<1>. QED BY <1>2, <1>7, <1>8

\* Where two words stand: the first ends in front of the other, which is not empty.
LEMMA SitedInOrder ==
  ASSUME NEW C, NEW x \in Seq(C), NEW words \in Seq(Seq(C)), NEW at, Sited(x, words, at),
         NEW j \in 1..Len(words), NEW k \in 1..Len(words), j < k
  PROVE  /\ at[j] \in Nat /\ at[k] \in Nat /\ Len(words[j]) \in Nat /\ Len(words[k]) \in Nat
         /\ words[k] # <<>> /\ Len(words[k]) > 0
         /\ at[j] + Len(words[j]) <= at[k]
<1>. DEFINE End(p) == at[p] + Len(words[p])
            n == k - j - 1
            P == {m \in Nat : m <= n => End(j) <= at[j + m + 1]}
<1>1. /\ Len(words) \in Nat /\ j \in Nat /\ k \in Nat /\ n \in Nat
      /\ \A p \in 1..Len(words) : /\ at[p] \in Nat /\ Len(words[p]) \in Nat /\ words[p] \in Seq(C)
                                  /\ p > 1 => words[p] # <<>> /\ at[p - 1] + Len(words[p - 1]) <= at[p]
  BY LenProperties, ElementOfSeq DEF Sited
<1>2. 0 \in P
  <2>1. j + 1 \in 1..Len(words) /\ (j + 1) - 1 = j /\ j + 1 > 1 /\ j + 0 + 1 = j + 1
    BY <1>1
  <2>. QED BY <1>1, <2>1
<1>3. ASSUME NEW m \in 0..(n - 1), m \in P PROVE m + 1 \in P
  <2>. DEFINE p == j + m + 1
  <2>1. /\ p \in 1..Len(words) /\ p + 1 \in 1..Len(words) /\ p + 1 > 1 /\ (p + 1) - 1 = p
        /\ j + (m + 1) + 1 = p + 1 /\ m <= n /\ m + 1 \in Nat
    BY <1>1
  <2>2. End(j) <= at[p]
    BY <1>3, <2>1
  <2>3. at[p] + Len(words[p]) <= at[p + 1]
    BY <1>1, <2>1
  <2>4. at[p] \in Nat /\ at[p + 1] \in Nat /\ Len(words[p]) \in Nat /\ End(j) \in Nat
    <3>1. at[j] \in Nat /\ Len(words[j]) \in Nat
      BY <1>1
    <3>2. End(j) \in Nat
      BY <3>1
    <3>. HIDE DEF p, End
    <3>. QED BY <1>1, <2>1, <3>2
  <2>. HIDE DEF p, End
  <2>5. End(j) <= at[p + 1]
    BY <2>2, <2>3, <2>4
  <2>. QED BY <2>1, <2>5
<1>4. n \in P
  <2>1. P \in SUBSET Nat
    OBVIOUS
  <2>2. n \in 0..n
    BY <1>1
  <2>. HIDE DEF P, n
  <2>. QED BY <1>1, <1>2, <1>3, <2>1, <2>2, UpTo
<1>5. j + n + 1 = k /\ n <= n
  BY <1>1
<1>6. words[k] # <<>> /\ k > 1
  BY <1>1
<1>7. Len(words[k]) > 0
  BY <1>1, <1>6, EmptySeq
<1>. QED BY <1>1, <1>4, <1>5, <1>6, <1>7

\* Each word begins behind the beginning of the one before, an empty one too.
LEMMA BeginsRise ==
  ASSUME NEW C, NEW x \in Seq(C),
         NEW j \in 1..Len(textTokanization(x)), NEW k \in 1..Len(textTokanization(x)), j < k
  PROVE  Begins(x)[j] < Begins(x)[k]
<1>. DEFINE words == textTokanization(x)
            at == Begins(x)
            n == Cardinality(WordStarts(x))
            l == Len(words) - n
<1>1. words \in Seq(Seq(C)) /\ Sited(x, words, at) /\ Len(words) \in Nat
  BY WordsAreSited, LenProperties
<1>2. /\ n \in Nat /\ l \in {0, 1}
      /\ l = 1 => words[1] = <<>>
      /\ \A p \in 1..Len(words) : p <= l => at[p] = 0
      /\ \A p \in 1..n : /\ Starts(x)[p] \in WordStarts(x)
                         /\ at[l + p] = Starts(x)[p]
  BY BeginsAre
<1>3. /\ at[j] \in Nat /\ at[k] \in Nat /\ Len(words[j]) \in Nat
      /\ at[j] + Len(words[j]) <= at[k]
  <2>. HIDE DEF words, at
  <2>1. j \in 1..Len(words) /\ k \in 1..Len(words)
    BY DEF words
  <2>. QED BY <1>1, <2>1, SitedInOrder
<1>4. CASE words[j] # <<>>
  <2>1. words[j] \in Seq(C) /\ Len(words[j]) > 0
    BY <1>1, <1>3, <1>4, ElementOfSeq, EmptySeq
  <2>. QED BY <1>3, <2>1
<1>5. CASE words[j] = <<>>
  <2>1. j = 1
    BY <1>1, <1>5 DEF Sited
  <2>2. x # <<>>
    <3>1. Len(words) > 1
      BY <1>1, <2>1
    <3>. QED BY <3>1 DEF textTokanization
  <2>3. l = Leading(x)
    BY <1>2, <2>2, WordsAre
  <2>4. l = 1
    <3>. SUFFICES ASSUME l = 0 PROVE FALSE
      BY <1>2
    <3>1. 1 \in 1..n
      BY <1>1, <1>2, <2>1
    <3>2. Starts(x)[1] \in WordStarts(x)
      BY <1>2, <3>1
    <3>3. words[1] = WordAt(x, Starts(x)[1])
      <4>1. words[Leading(x) + 1] = WordAt(x, Starts(x)[1])
        BY <2>2, <3>1, WordsAre
      <4>2. Leading(x) + 1 = 1
        BY <2>3
      <4>. QED BY <4>1, <4>2
    <3>4. PICK p \in WordStarts(x) : p = Starts(x)[1]
      BY <3>2
    <3>5. PICK e \in p..(Len(x) - 1) : WordEnds(x, p, e) /\ Len(WordAt(x, p)) = e - p + 1
      BY WordIs
    <3>6. p \in Nat /\ Len(x) \in Nat
      BY StartsAreNumbers
    <3>7. Len(words[1]) = 0
      BY <1>5, <2>1
    <3>. HIDE DEF words
    <3>. QED BY <3>3, <3>4, <3>5, <3>6, <3>7
  <2>5. x[1] = Blank
    BY <2>2, <2>3, <2>4, WordsAre
  <2>6. at[k] \in WordStarts(x)
    <3>1. k - l \in 1..n /\ l + (k - l) = k
      BY <1>1, <1>2, <2>1, <2>4
    <3>. QED BY <1>2, <3>1
  <2>7. at[k] # 0
    <3>1. \A p \in WordStarts(x) : x[p + 1] # Blank
      BY StartsAreNumbers
    <3>2. 0 \notin WordStarts(x)
      BY <2>5, <3>1
    <3>. QED BY <2>6, <3>2
  <2>8. at[j] = 0
    BY <1>2, <2>1, <2>4
  <2>. QED BY <1>3, <2>7, <2>8
<1>. QED BY <1>4, <1>5

\* Of two n-grams whose words are found in place, the later one lies within the earlier one
\* only if both have the same range: short n-grams come first.
THEOREM LongerIsLater ==
  ASSUME NEW C, NEW x \in Seq(C), NEW n \in Nat,
         NEW j \in 1..Len(generateNGrams(x, n)), NEW k \in 1..Len(generateNGrams(x, n)), j < k,
         FoundInPlace(generateNGrams(x, n)[j].value), FoundInPlace(generateNGrams(x, n)[k].value),
         generateNGrams(x, n)[j].start <= generateNGrams(x, n)[k].start,
         generateNGrams(x, n)[k].stop <= generateNGrams(x, n)[j].stop
  PROVE  /\ generateNGrams(x, n)[k].start <= generateNGrams(x, n)[j].start
         /\ generateNGrams(x, n)[j].stop <= generateNGrams(x, n)[k].stop
<1>. DEFINE words == textTokanization(x)
            at == Begins(x)
            End(p) == at[p] + Len(words[p]) - 1
            g == generateNGrams(x, n)[j]
            h == generateNGrams(x, n)[k]
<1>1. /\ AtWords(words, at, g) /\ AtWords(words, at, h)
      /\ MoreWords(g) <= MoreWords(h)
  BY NGramsAre
<1>2. words \in Seq(Seq(C)) /\ Sited(x, words, at) /\ Len(words) \in Nat
  BY WordsAreSited, LenProperties
<1>3. \A p, q \in 1..Len(words) : p < q => at[p] < at[q]
  BY BeginsRise
<1>. HIDE DEF words, at, g, h
<1>4. \A p \in 2..Len(words) : words[p] # <<>>
  BY <1>2 DEF Sited
<1>5. ASSUME NEW r, AtWords(words, at, r), FoundInPlace(r.value)
      PROVE  /\ r.first \in 1..Len(words) /\ r.last \in r.first..Len(words)
             /\ r.start = at[r.first] /\ r.stop = End(r.last)
  <2>1. r.first \in 1..Len(words) /\ r.last \in r.first..Len(words) /\ r.value = concat(words, r.first, r.last)
    BY <1>5 DEF AtWords
  <2>2. ~Repeats(words, r.first) /\ ~Repeats(words, r.last)
    <3>. DEFINE a == r.first
                b == r.last
    <3>1. a \in 1..Len(words) /\ b \in a..Len(words) /\ FoundInPlace(concat(words, a, b))
      BY <1>5, <2>1
    <3>. HIDE DEF a, b
    <3>2. ~Repeats(words, a) /\ ~Repeats(words, b)
      BY <1>2, <1>4, <3>1, FoundWords
    <3>. QED BY <3>2 DEF a, b
  <2>. QED BY <1>5, <2>1, <2>2 DEF AtWords
<1>6. /\ FoundInPlace(g.value) /\ FoundInPlace(h.value)
      /\ g.start <= h.start /\ h.stop <= g.stop
  BY DEF g, h
<1>. DEFINE a == g.first
            b == g.last
            c == h.first
            d == h.last
<1>7. /\ a \in 1..Len(words) /\ b \in a..Len(words) /\ g.start = at[a] /\ g.stop = End(b)
      /\ c \in 1..Len(words) /\ d \in c..Len(words) /\ h.start = at[c] /\ h.stop = End(d)
  BY <1>1, <1>5, <1>6
<1>8. b - a <= d - c
  BY <1>1 DEF MoreWords
<1>. HIDE DEF a, b, c, d
<1>9. a \in Nat /\ b \in Nat /\ c \in Nat /\ d \in Nat /\ b \in 1..Len(words) /\ d \in 1..Len(words)
  BY <1>2, <1>7
<1>10. \A p \in 1..Len(words) : at[p] \in Nat /\ Len(words[p]) \in Nat
  BY <1>2, ElementOfSeq, LenProperties DEF Sited
<1>11. ASSUME NEW p \in 1..Len(words), NEW q \in 1..Len(words), p < q PROVE End(p) < End(q)
  <2>1. at[p] + Len(words[p]) <= at[q] /\ Len(words[q]) > 0
    BY <1>2, <1>11, SitedInOrder
  <2>2. at[p] \in Nat /\ at[q] \in Nat /\ Len(words[p]) \in Nat /\ Len(words[q]) \in Nat
    BY <1>10
  <2>. DEFINE u == at[p]
              v == at[q]
              l == Len(words[p])
              m == Len(words[q])
  <2>3. End(p) = u + l - 1 /\ End(q) = v + m - 1
    OBVIOUS
  <2>. HIDE DEF u, v, l, m, End
  <2>4. u + l <= v /\ m > 0 /\ u \in Nat /\ v \in Nat /\ l \in Nat /\ m \in Nat
    BY <2>1, <2>2 DEF u, v, l, m
  <2>5. u + l - 1 < v + m - 1
    BY <2>4
  <2>. QED BY <2>3, <2>5
<1>12. at[a] <= at[c] /\ End(d) <= End(b)
  BY <1>6, <1>7
<1>13. \A p \in 1..Len(words) : End(p) \in Int
  BY <1>10
<1>. HIDE DEF End
<1>14. ~(d > b) /\ ~(c < a)
  <2>1. ~(b < d)
    BY <1>9, <1>11, <1>12, <1>13
  <2>2. ~(c < a)
    BY <1>3, <1>7, <1>10, <1>12
  <2>. QED BY <1>9, <2>1, <2>2
<1>15. a = c /\ b = d
  BY <1>8, <1>9, <1>14
<1>16. h.start <= g.start /\ g.stop <= h.stop
  BY <1>7, <1>9, <1>10, <1>13, <1>15
<1>. QED BY <1>16 DEF g, h

\* The n-grams of up to n words are the first of those of up to n + 1.
LEMMA ShorterFirst ==
  ASSUME NEW C, NEW x \in Seq(C), NEW n \in Nat
  PROVE  LET old == generateNGrams(x, n)
             all == generateNGrams(x, n + 1)
         IN  /\ Len(old) \in Nat /\ Len(all) \in Nat /\ Len(old) <= Len(all)
             /\ old = [k \in 1..Len(old) |-> all[k]]
             /\ \A k \in 1..Len(all) : MoreWords(all[k]) < n <=> k <= Len(old)
<1>. DEFINE old == generateNGrams(x, n)
            all == generateNGrams(x, n + 1)
            new == igrams(x, textTokanization(x), n + 1)
            S == Grams(x, n + 1)
            a == Len(old)
<1>1. \A m \in 1..(n + 1) : igrams(x, textTokanization(x), m) \in Seq(S)
  BY IgramsAre
<1>2. old \in Seq(S) /\ all = old \o new
  <2>. HIDE DEF S
  <2>. QED BY <1>1, NGramsMore
<1>3. new \in Seq(S) /\ \A p \in 1..Len(new) : MoreWords(new[p]) = (n + 1) - 1
  BY IgramsAre
<1>4. \A k \in 1..a : MoreWords(old[k]) \in 0..(n - 1)
  BY NGramsAre
<1>. HIDE DEF old, all, new, S
<1>5. a \in Nat /\ Len(new) \in Nat /\ DOMAIN old = 1..a /\ old = [k \in 1..a |-> old[k]]
  BY <1>2, <1>3, LenProperties
<1>6. /\ Len(all) = a + Len(new)
      /\ \A k \in 1..(a + Len(new)) : all[k] = IF k <= a THEN old[k] ELSE new[k - a]
  BY <1>2, <1>3, ConcatProperties
<1>. HIDE DEF a
<1>7. Len(all) \in Nat /\ a <= Len(all) /\ \A k \in 1..a : k \in 1..Len(all) /\ all[k] = old[k]
  BY <1>5, <1>6
<1>8. old = [k \in 1..a |-> all[k]]
  BY <1>5, <1>7
<1>9. ASSUME NEW k \in 1..Len(all) PROVE MoreWords(all[k]) < n <=> k <= a
  <2>1. CASE k <= a
    <3>1. k \in 1..a
      BY <1>5, <1>7, <2>1
    <3>2. MoreWords(all[k]) \in 0..(n - 1)
      BY <1>4, <1>7, <3>1 DEF a
    <3>. QED BY <2>1, <3>2
  <2>2. CASE ~(k <= a)
    <3>1. k - a \in 1..Len(new) /\ all[k] = new[k - a]
      BY <1>5, <1>6, <2>2
    <3>2. MoreWords(all[k]) = n
      BY <1>3, <3>1
    <3>. QED BY <2>2, <3>2
  <2>. QED BY <2>1, <2>2
<1>. QED BY <1>5, <1>7, <1>8, <1>9 DEF old, all, a
====
