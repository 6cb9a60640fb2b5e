---- MODULE FeatureIndexProofs ----
(***************************************************************************)
(* Proofs about FeatureIndex, for every corpus, every number of labels,    *)
(* every frequency and chunks of every size.                               *)
(***************************************************************************)
EXTENDS FeatureIndex, FiniteSetTheorems, WellFoundedInduction, TLAPS

\* The numbers of the dictionary and of the loops, and where the corpus is read.
Numbers ==
  /\ corpus \in Corpora /\ pos \in Nat \ {0} /\ feature \in Seq(Nat)
  /\ dic \subseteq Keys /\ id \in [Keys -> Nat] /\ maxid \in Nat /\ new_maxid \in Nat
  /\ phase \in {"building", "renumbering", "rewriting", "done"}
  /\ visited \subseteq Keys

\* The ids that follow one another from the id of a key on.
Ids(k) == id[k]..(id[k] + Width(k) - 1)

\* The ids of these keys are apart from each other, and are the first n.
Compact(S, n) ==
  /\ \A k \in S, l \in S : k # l => Ids(k) \cap Ids(l) = {}
  /\ \A i \in Int : i \in 0..(n - 1) <=> \E k \in S : i \in Ids(k)

\* The same of the ids after a step.
CompactNext(S, n) ==
  /\ \A k \in S, l \in S : k # l => Ids(k)' \cap Ids(l)' = {}
  /\ \A i \in Int : i \in 0..(n - 1) <=> \E k \in S : i \in Ids(k)'

\* The inductive invariant: of the keys shrink has visited, those that stay have
\* the first new ids.
IInv ==
  /\ Numbers
  /\ phase \in {"building", "done"} => Compact(dic, maxid)
  /\ phase \in {"renumbering", "rewriting"} => Compact(dic \cap visited, new_maxid)
  /\ phase = "building" => visited = {} /\ new_maxid = 0
  /\ phase = "rewriting" => dic \subseteq visited

--------------------------------------------------------------------------
\* A key has at least one weight.
LEMMA WidthIsPositive == \A k : Width(k) \in Nat \ {0}
<1>1. ysize \in Nat \ {0}
  BY KeysAssumption
<1>2. ysize * ysize \in Nat \ {0}
  BY <1>1
<1>. QED BY <1>1, <1>2 DEF Width

\* A pair of labels is a number below the square, and each such number is a pair.
LEMMA Pairs ==
  ASSUME NEW n \in Nat \ {0}
  PROVE  /\ \A a, b \in 0..(n - 1) : a * n + b \in 0..(n * n - 1)
         /\ \A i \in 0..(n * n - 1) : \E a, b \in 0..(n - 1) : i = a * n + b
<1>1. ASSUME NEW a \in 0..(n - 1), NEW b \in 0..(n - 1) PROVE a * n + b \in 0..(n * n - 1)
  <2>1. a * n \in Nat /\ n * n \in Nat
    OBVIOUS
  <2>2. a * n <= (n - 1) * n
    OBVIOUS
  <2>3. (n - 1) * n = n * n - n
    OBVIOUS
  <2>. QED BY <2>1, <2>2, <2>3
<1>2. ASSUME NEW i \in 0..(n * n - 1) PROVE \E a, b \in 0..(n - 1) : i = a * n + b
  <2>1. n * n \in Nat /\ i \in Nat /\ i < n * n
    OBVIOUS
  <2> DEFINE a == i \div n
             b == i % n
  <2>2. a \in Int /\ b \in 0..(n - 1) /\ i = n * a + b
    BY <2>1
  <2>. HIDE DEF a, b
  <2>3. a * n = n * a /\ a * n \in Int
    BY <2>2
  <2>4. a < n
    <3>1. SUFFICES ASSUME a >= n PROVE FALSE
      BY <2>2
    <3>2. a * n >= n * n
      BY <2>2, <3>1
    <3>. QED BY <2>1, <2>2, <2>3, <3>2
  <2>5. a >= 0
    <3>1. SUFFICES ASSUME a <= -1 PROVE FALSE
      BY <2>2
    <3>2. a * n <= -n
      BY <2>2, <3>1
    <3>. QED BY <2>1, <2>2, <2>3, <3>2
  <2>. QED BY <2>2, <2>3, <2>4, <2>5
<1>. QED BY <1>1, <1>2

\* The weights of a key follow one another.
LEMMA WeightsAreIds ==
  ASSUME id \in [Keys -> Nat], NEW k \in Keys
  PROVE  Weights(k) = Ids(k)
<1>1. ysize \in Nat \ {0} /\ id[k] \in Nat
  BY KeysAssumption
<1>2. CASE k \in Unigrams
  <2>1. Weights(k) = {id[k] + y : y \in Labels} /\ Ids(k) = id[k]..(id[k] + ysize - 1)
    BY <1>2 DEF Weights, Ids, Width
  <2>2. ASSUME NEW w \in Weights(k) PROVE w \in Ids(k)
    BY <1>1, <2>1 DEF Labels
  <2>3. ASSUME NEW w \in Ids(k) PROVE w \in Weights(k)
    <3>1. w - id[k] \in Labels /\ w = id[k] + (w - id[k])
      BY <1>1, <2>1 DEF Labels
    <3>. QED BY <2>1, <3>1
  <2>. QED BY <2>2, <2>3
<1>3. CASE k \notin Unigrams
  <2> DEFINE square == ysize * ysize
  <2>1. square \in Nat
    BY <1>1
  <2>2. Weights(k) = {id[k] + pair[1] * ysize + pair[2] : pair \in Labels \X Labels}
    BY <1>3 DEF Weights
  <2>3. Ids(k) = id[k]..(id[k] + square - 1)
    BY <1>3 DEF Ids, Width
  <2>4. /\ \A a, b \in Labels : a * ysize + b \in 0..(square - 1)
        /\ \A i \in 0..(square - 1) : \E a, b \in Labels : i = a * ysize + b
    BY <1>1, Pairs DEF Labels
  <2>. HIDE DEF square
  <2>5. ASSUME NEW w \in Weights(k) PROVE w \in Ids(k)
    <3>1. PICK a \in Labels, b \in Labels : w = id[k] + a * ysize + b
      BY <2>2
    <3>2. a * ysize + b \in 0..(square - 1)
      BY <2>4
    <3>3. a \in Int /\ b \in Int /\ a * ysize \in Int
      BY <1>1 DEF Labels
    <3>. QED BY <1>1, <2>1, <2>3, <3>1, <3>2, <3>3
  <2>6. ASSUME NEW w \in Ids(k) PROVE w \in Weights(k)
    <3>1. w \in Int /\ w - id[k] \in 0..(square - 1)
      BY <1>1, <2>1, <2>3
    <3>2. PICK a \in Labels, b \in Labels : w - id[k] = a * ysize + b
      BY <2>4, <3>1
    <3>3. a \in Int /\ b \in Int /\ a * ysize \in Int
      BY <1>1 DEF Labels
    <3>4. w = id[k] + a * ysize + b
      BY <1>1, <3>1, <3>2, <3>3
    <3>5. <<a, b>> \in Labels \X Labels
      OBVIOUS
    <3>. QED BY <2>2, <3>4, <3>5
  <2>. QED BY <2>5, <2>6
<1>. QED BY <1>2, <1>3

\* A key that gets the ids behind the first n.
LEMMA CompactGrows ==
  ASSUME Numbers, NEW S \in SUBSET Keys, NEW n \in Nat, Compact(S, n),
         NEW k \in Keys \ S, id' = [id EXCEPT ![k] = n]
  PROVE  CompactNext(S \cup {k}, n + Width(k))
<1>1. /\ id'[k] = n /\ \A l \in S : id'[l] = id[l] /\ id[l] \in Nat
  BY DEF Numbers
<1>2. \A l : Width(l) \in Nat \ {0}
  BY WidthIsPositive
<1>3. Ids(k)' = n..(n + Width(k) - 1) /\ \A l \in S : Ids(l)' = Ids(l)
  BY <1>1 DEF Ids, Width
<1>4. \A l \in S : Ids(l) \subseteq 0..(n - 1)
  BY <1>1, <1>2 DEF Compact, Ids
<1>5. (0..(n - 1)) \cap (n..(n + Width(k) - 1)) = {}
  BY <1>2
<1>6. ASSUME NEW a \in S \cup {k}, NEW b \in S \cup {k}, a # b
      PROVE  Ids(a)' \cap Ids(b)' = {}
  <2>1. CASE a = k
    BY <1>3, <1>4, <1>5, <1>6, <2>1
  <2>2. CASE b = k
    BY <1>3, <1>4, <1>5, <1>6, <2>2
  <2>3. CASE a \in S /\ b \in S
    BY <1>3, <1>6, <2>3 DEF Compact
  <2>. QED BY <2>1, <2>2, <2>3
<1>7. ASSUME NEW i \in Int
      PROVE  i \in 0..(n + Width(k) - 1) <=> i \in 0..(n - 1) \/ i \in n..(n + Width(k) - 1)
  BY <1>2
<1>8. ASSUME NEW i \in Int
      PROVE  i \in 0..(n + Width(k) - 1) <=> \E l \in S \cup {k} : i \in Ids(l)'
  <2>1. i \in 0..(n - 1) <=> \E l \in S : i \in Ids(l)'
    BY <1>3 DEF Compact
  <2>2. i \in n..(n + Width(k) - 1) <=> i \in Ids(k)'
    BY <1>3
  <2>. QED BY <1>7, <2>1, <2>2
<1>9. \A a \in S \cup {k}, b \in S \cup {k} : a # b => Ids(a)' \cap Ids(b)' = {}
  BY <1>6
<1>10. n + Width(k) - 1 = (n + Width(k)) - 1
  BY <1>2
<1>11. \A i \in Int : i \in 0..((n + Width(k)) - 1) <=> \E l \in S \cup {k} : i \in Ids(l)'
  BY <1>8, <1>10
<1>. QED BY <1>9, <1>11, Zenon DEF CompactNext

\* A step that leaves the ids of these keys alone.
LEMMA CompactStays ==
  ASSUME NEW S, NEW n, Compact(S, n), \A k \in S : id'[k] = id[k]
  PROVE  CompactNext(S, n)
<1>1. \A k \in S : Ids(k)' = Ids(k)
  BY DEF Ids, Width
<1>. QED BY <1>1 DEF Compact, CompactNext

\* The invariant after a step, of the sets of keys and the number of ids after it.
LEMMA NextIInv ==
  ASSUME Numbers',
         phase' \in {"building", "done"} => CompactNext(dic', maxid'),
         phase' \in {"renumbering", "rewriting"} =>
           CompactNext(dic' \cap visited', new_maxid'),
         phase' = "building" => visited' = {} /\ new_maxid' = 0,
         phase' = "rewriting" => dic' \subseteq visited'
  PROVE  IInv'
<1>1. CompactNext(dic', maxid') => Compact(dic, maxid)'
  BY DEF Compact, CompactNext
<1>2. CompactNext(dic' \cap visited', new_maxid') => Compact(dic \cap visited, new_maxid)'
  BY DEF Compact, CompactNext
<1>. QED BY <1>1, <1>2 DEF IInv

--------------------------------------------------------------------------
\* Nothing is in the dictionary at first.
LEMMA InitIInv == Init => IInv
<1>. SUFFICES ASSUME Init PROVE IInv
  OBVIOUS
<1>1. Numbers
  BY DEF Init, Numbers
<1>2. Compact(dic, maxid)
  BY DEF Init, Compact
<1>. QED BY <1>1, <1>2 DEF Init, IInv

\* The key that is looked up is one of the corpus.
LEMMA KeyIsKey == ASSUME Numbers, HasKey PROVE Key \in Keys
<1>1. /\ corpus \in Seq(Seq(Keys)) /\ pos \in 1..Len(corpus) /\ Len(feature) \in Nat
      /\ Len(feature) < Len(corpus[pos])
  BY PositionsAssumption DEF Numbers, HasKey, Building
<1>2. corpus[pos] \in Seq(Keys)
  BY <1>1
<1>3. Len(corpus[pos]) \in Nat
  BY <1>2
<1>4. Len(feature) + 1 \in 1..Len(corpus[pos])
  BY <1>1, <1>3
<1>. QED BY <1>2, <1>4 DEF Key

\* A new key gets the ids behind all others; the rest of building changes none.
LEMMA BuildingKeeps ==
  ASSUME IInv, NewKey \/ KnownKey \/ AddToCache PROVE IInv'
<1>1. Numbers /\ phase = "building" /\ Compact(dic, maxid) /\ visited = {} /\ new_maxid = 0
      /\ UNCHANGED <<corpus, phase, visited, new_maxid>>
  BY DEF IInv, NewKey, KnownKey, AddToCache, HasKey, Building, loops
<1>2. CASE NewKey
  <2>1. /\ Key \in Keys \ dic /\ id' = [id EXCEPT ![Key] = maxid]
        /\ dic' = dic \cup {Key} /\ maxid' = maxid + Width(Key)
        /\ feature' = Append(feature, maxid) /\ pos' = pos
    BY <1>1, <1>2, KeyIsKey DEF NewKey
  <2>2. maxid \in Nat /\ Width(Key) \in Nat /\ dic \in SUBSET Keys
    BY <1>1, WidthIsPositive DEF Numbers
  <2>. HIDE DEF Key
  <2>3. CompactNext(dic', maxid')
    BY <1>1, <2>1, <2>2, CompactGrows
  <2>4. feature' \in Seq(Nat)
    BY <1>1, <2>1, <2>2 DEF Numbers
  <2>5. Numbers'
    BY <1>1, <2>1, <2>2, <2>4 DEF Numbers
  <2>. QED BY <1>1, <2>3, <2>5, NextIInv
<1>3. CASE KnownKey
  <2>1. /\ Key \in Keys /\ UNCHANGED <<dic, id, maxid, pos>>
        /\ feature' = Append(feature, id[Key])
    BY <1>1, <1>3, KeyIsKey DEF KnownKey
  <2>. HIDE DEF Key
  <2>2. Numbers'
    BY <1>1, <2>1 DEF Numbers
  <2>3. CompactNext(dic', maxid')
    BY <1>1, <2>1, CompactStays
  <2>. QED BY <1>1, <2>2, <2>3, NextIInv
<1>4. CASE AddToCache
  <2>1. UNCHANGED <<dic, id, maxid>> /\ pos' = pos + 1 /\ feature' = <<>>
    BY <1>4 DEF AddToCache, dictionary
  <2>2. Numbers'
    BY <1>1, <2>1 DEF Numbers
  <2>3. CompactNext(dic', maxid')
    BY <1>1, <2>1, CompactStays
  <2>. QED BY <1>1, <2>2, <2>3, NextIInv
<1>. QED BY <1>2, <1>3, <1>4

\* A key that stays gets the next new ids; one that goes has none of them yet.
LEMMA RenumberingKeeps ==
  ASSUME IInv, NEW k \in Keys, Renumber(k) \/ Erase(k) PROVE IInv'
<1>1. /\ Numbers /\ phase = "renumbering" /\ Compact(dic \cap visited, new_maxid)
      /\ UNCHANGED <<corpus, pos, feature, maxid, phase>>
      /\ k \in dic /\ k \notin visited /\ visited' = visited \cup {k}
  BY DEF IInv, Renumber, Erase, Visit, position
<1>2. CASE Renumber(k)
  <2>1. /\ id' = [id EXCEPT ![k] = new_maxid] /\ dic' = dic
        /\ new_maxid' = new_maxid + Width(k)
    BY <1>2 DEF Renumber
  <2>2. new_maxid \in Nat /\ Width(k) \in Nat /\ (dic \cap visited) \in SUBSET Keys
        /\ k \in Keys \ (dic \cap visited)
    BY <1>1, WidthIsPositive DEF Numbers
  <2>3. CompactNext((dic \cap visited) \cup {k}, new_maxid + Width(k))
    BY <1>1, <2>1, <2>2, CompactGrows
  <2>4. dic' \cap visited' = (dic \cap visited) \cup {k}
    BY <1>1, <2>1
  <2>5. Numbers'
    BY <1>1, <2>1, <2>2 DEF Numbers
  <2>. QED BY <1>1, <2>1, <2>3, <2>4, <2>5, NextIInv
<1>3. CASE Erase(k)
  <2>1. dic' = dic \ {k} /\ UNCHANGED <<id, new_maxid>>
    BY <1>3 DEF Erase
  <2>2. dic' \cap visited' = dic \cap visited
    BY <1>1, <2>1
  <2>3. CompactNext(dic \cap visited, new_maxid)
    BY <1>1, <2>1, CompactStays
  <2>4. Numbers'
    BY <1>1, <2>1 DEF Numbers
  <2>. QED BY <1>1, <2>1, <2>2, <2>3, <2>4, NextIInv
<1>. QED BY <1>2, <1>3

\* The steps between the loops, and the rewriting of lists, change no id.
LEMMA OtherStepsKeep ==
  ASSUME IInv, StopBuilding \/ StopRenumbering \/ Rewrite \/ StopRewriting PROVE IInv'
<1>1. Numbers /\ UNCHANGED <<corpus, pos, feature, dic, id, visited, new_maxid>>
  BY DEF IInv, StopBuilding, StopRenumbering, Rewrite, StopRewriting,
         position, dictionary, loops
<1>2. CASE StopBuilding
  <2>1. /\ phase = "building" /\ UNCHANGED maxid /\ Compact(dic, maxid)
        /\ phase' \in {"renumbering", "done"} /\ visited = {} /\ new_maxid = 0
    BY <1>2 DEF StopBuilding, IInv
  <2>2. CompactNext(dic', maxid')
    BY <1>1, <2>1, CompactStays
  <2>3. CompactNext({}, 0)
    BY DEF CompactNext
  <2>4. Numbers'
    BY <1>1, <2>1 DEF Numbers
  <2>5. dic' \cap visited' = {} /\ new_maxid' = 0
    BY <1>1, <2>1
  <2>. QED BY <2>1, <2>2, <2>3, <2>4, <2>5, NextIInv
<1>3. CASE StopRenumbering \/ Rewrite \/ StopRewriting
  <2>1. /\ phase \in {"renumbering", "rewriting"} /\ phase' \in {"rewriting", "done"}
        /\ dic \subseteq visited /\ Compact(dic \cap visited, new_maxid)
        /\ maxid' = (IF phase' = "done" THEN new_maxid ELSE maxid)
    BY <1>3 DEF StopRenumbering, Rewrite, StopRewriting, IInv
  <2>2. CompactNext(dic' \cap visited', new_maxid')
    BY <1>1, <2>1, CompactStays
  <2>3. dic' \cap visited' = dic' /\ dic' \subseteq visited'
    BY <1>1, <2>1
  <2>4. Numbers'
    BY <1>1, <2>1 DEF Numbers
  <2>. QED BY <1>1, <2>1, <2>2, <2>3, <2>4, NextIInv
<1>. QED BY <1>2, <1>3

\* The ids in use are apart and without gaps, before and after shrink.
THEOREM Invariance == Spec => []IInv
<1>1. IInv /\ [Next]_vars => IInv'
  <2>1. ASSUME IInv, UNCHANGED vars PROVE IInv'
    <3>1. UNCHANGED <<corpus, pos, feature, dic, id, maxid, phase, visited, new_maxid>>
      BY <2>1 DEF vars, position, dictionary, loops
    <3>. QED BY <2>1, <3>1 DEF IInv, Numbers, Compact, Ids, Width
  <2>. QED BY <2>1, BuildingKeeps, RenumberingKeeps, OtherStepsKeep DEF Next
<1>. QED BY <1>1, InitIInv, PTL DEF Spec

\* For every corpus, every set of labels and every frequency, the weights calcCost
\* looks up for a key are its own, within alpha, and alpha has no others.
THEOREM WeightsAreAlwaysTheirOwn == Spec => []WeightsAreTheirOwn
<1>1. ASSUME IInv PROVE WeightsAreTheirOwn
  <2>1. SUFFICES ASSUME phase \in {"building", "done"}
        PROVE  /\ \A k, l \in dic : k # l => Weights(k) \cap Weights(l) = {}
               /\ UNION {Weights(k) : k \in dic} = 0..(maxid - 1)
    BY DEF WeightsAreTheirOwn
  <2>2. Compact(dic, maxid) /\ maxid \in Nat /\ dic \subseteq Keys /\ id \in [Keys -> Nat]
    BY <1>1, <2>1 DEF IInv, Numbers
  <2>3. \A k \in dic : Weights(k) = Ids(k)
    BY <2>2, WeightsAreIds
  <2>4. \A k, l \in dic : k # l => Weights(k) \cap Weights(l) = {}
    BY <2>2, <2>3 DEF Compact
  <2>5. \A i : i \in UNION {Weights(k) : k \in dic} <=> \E k \in dic : i \in Ids(k)
    BY <2>3
  <2>6. \A k \in dic : Ids(k) \subseteq Int
    BY DEF Ids
  <2>7. \A i : i \in 0..(maxid - 1) <=> \E k \in dic : i \in Ids(k)
    BY <2>2, <2>6 DEF Compact
  <2>. QED BY <2>4, <2>5, <2>7
<1>. QED BY <1>1, Invariance, PTL

--------------------------------------------------------------------------
\* A set of numbers has a least one.
LEMMA Least ==
  ASSUME NEW S \in SUBSET Nat, S # {}
  PROVE  \E n \in S : \A m \in S : n <= m
<1>. DEFINE R == OpToRel(<, Nat)
<1>1. IsWellFoundedOn(R, Nat)
  BY NatLessThanWellFounded
<1>2. \A x, y \in Nat : x < y => <<x, y>> \in R
  BY DEF OpToRel
<1>. HIDE DEF R
<1>3. PICK n \in S : \A y \in S : ~(<<y, n>> \in R)
  BY <1>1, WFMin
<1>4. \A m \in S : ~(m < n)
  BY <1>2, <1>3
<1>. QED BY <1>3, <1>4

\* Induction as far as it can be cited here: a set of numbers up to m that holds 0
\* and, with a number, the next one, holds m.
LEMMA UpTo ==
  ASSUME NEW m \in Nat, NEW P \in SUBSET Nat, 0 \in P,
         \A n \in 0..(m - 1) : n \in P => n + 1 \in P
  PROVE  \A n \in 0..m : n \in P
<1>. DEFINE S == {n \in 0..m : n \notin P}
<1>1. SUFFICES ASSUME S # {} PROVE FALSE
  OBVIOUS
<1>2. S \in SUBSET Nat
  OBVIOUS
<1>3. \E n \in S : \A k \in S : n <= k
  <2>. HIDE DEF S
  <2>. QED BY <1>1, <1>2, Least
<1>4. PICK n \in S : \A k \in S : n <= k
  BY <1>3
<1>5. n \in 1..m /\ n - 1 \in 0..(m - 1) /\ n - 1 \notin S
  BY <1>4
<1>. QED BY <1>4, <1>5

\* The function OnlyIn is defined by.
IsTaken(taken, list, S, m) ==
  taken = [n \in 0..m |->
             IF n = 0 THEN <<>>
             ELSE IF list[n] \in S THEN Append(taken[n - 1], list[n]) ELSE taken[n - 1]]

\* For every list there is one.
LEMMA SomeTaken ==
  ASSUME NEW m \in Nat, NEW list, NEW S
  PROVE  \E taken : IsTaken(taken, list, S, m)
<1>. DEFINE P == {n \in Nat : \E taken : IsTaken(taken, list, S, n)}
<1>1. 0 \in P
  <2>1. IsTaken([n \in 0..0 |-> <<>>], list, S, 0)
    BY DEF IsTaken
  <2>. QED BY <2>1
<1>2. ASSUME NEW n \in 0..(m - 1), n \in P PROVE n + 1 \in P
  <2>1. PICK t : IsTaken(t, list, S, n)
    BY <1>2
  <2>. DEFINE last == IF list[n + 1] \in S THEN Append(t[n], list[n + 1]) ELSE t[n]
              u == [k \in 0..(n + 1) |-> IF k = n + 1 THEN last ELSE t[k]]
  <2>2. \A k \in 0..n : t[k] = IF k = 0 THEN <<>>
                               ELSE IF list[k] \in S THEN Append(t[k - 1], list[k]) ELSE t[k - 1]
    BY <2>1 DEF IsTaken
  <2>3. \A k \in 0..n : u[k] = t[k]
    OBVIOUS
  <2>4. \A k \in 1..(n + 1) : u[k - 1] = t[k - 1]
    BY <2>3
  <2>5. u[n + 1] = last
    OBVIOUS
  <2>6. ASSUME NEW k \in 0..(n + 1)
        PROVE  u[k] = IF k = 0 THEN <<>>
                      ELSE IF list[k] \in S THEN Append(u[k - 1], list[k]) ELSE u[k - 1]
    <3>1. CASE k = n + 1
      <4>1. u[n] = t[n]
        BY <2>3
      <4>. HIDE DEF u
      <4>. QED BY <2>5, <3>1, <4>1
    <3>2. CASE k \in 0..n
      <4>. HIDE DEF u
      <4>. QED BY <2>2, <2>3, <2>4, <3>2
    <3>. QED BY <3>1, <3>2
  <2>7. IsTaken(u, list, S, n + 1)
    <3>1. u = [k \in 0..(n + 1) |-> u[k]]
      OBVIOUS
    <3>. HIDE DEF u
    <3>. QED BY <2>6, <3>1 DEF IsTaken
  <2>. QED BY <2>7
<1>3. m \in P
  <2>. HIDE DEF P
  <2>1. P \in SUBSET Nat
    BY DEF P
  <2>. QED BY <1>1, <1>2, <2>1, UpTo
<1>. QED BY <1>3

\* OnlyIn by its steps.
LEMMA OnlyInSteps ==
  ASSUME NEW list, Len(list) \in Nat, NEW S
  PROVE  \E taken : IsTaken(taken, list, S, Len(list)) /\ OnlyIn(list, S) = taken[Len(list)]
<1>. DEFINE t == CHOOSE taken : IsTaken(taken, list, S, Len(list))
<1>1. IsTaken(t, list, S, Len(list))
  BY SomeTaken
<1>2. OnlyIn(list, S) = t[Len(list)]
  BY DEF OnlyIn, IsTaken
<1>. QED BY <1>1, <1>2

\* Its value for one member more.
TakenBySteps(t, list, S, m) ==
  /\ t[0] = <<>>
  /\ \A n \in 0..(m - 1) :
       t[n + 1] = IF list[n + 1] \in S THEN Append(t[n], list[n + 1]) ELSE t[n]

\* It has that value.
LEMMA TakenSteps ==
  ASSUME NEW list, NEW S, NEW m \in Nat, NEW t, IsTaken(t, list, S, m)
  PROVE  TakenBySteps(t, list, S, m)
<1>1. ASSUME NEW k \in 0..m
      PROVE  t[k] = IF k = 0 THEN <<>>
                    ELSE IF list[k] \in S THEN Append(t[k - 1], list[k]) ELSE t[k - 1]
  BY DEF IsTaken
<1>2. ASSUME NEW n \in 0..(m - 1)
      PROVE  t[n + 1] = IF list[n + 1] \in S THEN Append(t[n], list[n + 1]) ELSE t[n]
  <2>1. n + 1 \in 0..m /\ n + 1 # 0 /\ (n + 1) - 1 = n
    OBVIOUS
  <2>2. t[n + 1] = IF list[n + 1] \in S THEN Append(t[(n + 1) - 1], list[n + 1]) ELSE t[(n + 1) - 1]
    BY <1>1, <2>1, Zenon
  <2>. QED BY <2>1, <2>2
<1>. QED BY <1>1, <1>2 DEF TakenBySteps

\* The ids of a list of keys.
IdsOf(ids, list) == [n \in 1..Len(list) |-> ids[list[n]]]

\* To take from the ids of keys those of some of the keys is to take these keys.
LEMMA OnlyInMapped ==
  ASSUME NEW K, NEW keys \in Seq(K), NEW S, NEW T, NEW g,
         \A n \in 1..Len(keys) : g[keys[n]] \in T <=> keys[n] \in S
  PROVE  /\ OnlyIn(keys, S) \in Seq(K) /\ Len(OnlyIn(keys, S)) <= Len(keys)
         /\ \A n \in 1..Len(OnlyIn(keys, S)) : OnlyIn(keys, S)[n] \in S
         /\ OnlyIn(IdsOf(g, keys), T) = IdsOf(g, OnlyIn(keys, S))
<1>. DEFINE m   == Len(keys)
            ids == IdsOf(g, keys)
<1>1. /\ m \in Nat /\ m = Len(keys) /\ ids = [n \in 1..m |-> g[keys[n]]]
      /\ \A n \in 1..m : g[keys[n]] \in T <=> keys[n] \in S
  BY DEF IdsOf
<1>. HIDE DEF m, ids
<1>2. Len(ids) = m
  BY <1>1
<1>3. PICK t : IsTaken(t, keys, S, m) /\ OnlyIn(keys, S) = t[m]
  BY <1>1, OnlyInSteps
<1>4. PICK u : IsTaken(u, ids, T, m) /\ OnlyIn(ids, T) = u[m]
  BY <1>2, <1>1, OnlyInSteps
<1>5. TakenBySteps(t, keys, S, m) /\ TakenBySteps(u, ids, T, m)
  BY <1>3, <1>4, <1>1, TakenSteps, Zenon
<1>. DEFINE Filtered(n) ==
       /\ t[n] \in Seq(K) /\ Len(t[n]) <= n /\ \A i \in 1..Len(t[n]) : t[n][i] \in S
       /\ u[n] = [i \in 1..Len(t[n]) |-> g[t[n][i]]]
            P == {n \in Nat : Filtered(n)}
<1>6. 0 \in P
  <2>1. t[0] = <<>> /\ u[0] = <<>>
    BY <1>5 DEF TakenBySteps
  <2>. QED BY <2>1
<1>7. ASSUME NEW n \in 0..(m - 1), n \in P PROVE n + 1 \in P
  <2>0. n + 1 \in 1..m /\ n + 1 \in Nat /\ keys[n + 1] \in K /\ ids[n + 1] = g[keys[n + 1]]
    BY <1>1
  <2>1. /\ t[n + 1] = IF keys[n + 1] \in S THEN Append(t[n], keys[n + 1]) ELSE t[n]
        /\ u[n + 1] = IF ids[n + 1] \in T THEN Append(u[n], ids[n + 1]) ELSE u[n]
    BY <1>5 DEF TakenBySteps
  <2>2. Filtered(n)
    BY <1>7
  <2>3. CASE keys[n + 1] \in S
    <3>1. ids[n + 1] \in T
      BY <1>1, <2>0, <2>3
    <3>2. t[n + 1] = Append(t[n], keys[n + 1]) /\ u[n + 1] = Append(u[n], g[keys[n + 1]])
      BY <2>0, <2>1, <2>3, <3>1
    <3>3. t[n + 1] \in Seq(K) /\ Len(t[n + 1]) = Len(t[n]) + 1 /\ Len(t[n]) \in Nat
          /\ (\A i \in 1..Len(t[n]) : t[n + 1][i] = t[n][i]) /\ t[n + 1][Len(t[n]) + 1] = keys[n + 1]
      BY <2>0, <2>2, <3>2
    <3>. DEFINE V == {g[k] : k \in K}
    <3>4. u[n] \in Seq(V) /\ Len(u[n]) = Len(t[n]) /\ g[keys[n + 1]] \in V
      BY <2>0, <2>2
    <3>. HIDE DEF V
    <3>5. /\ u[n + 1] \in Seq(V) /\ Len(u[n + 1]) = Len(t[n]) + 1
          /\ \A i \in 1..Len(t[n]) : u[n + 1][i] = u[n][i]
          /\ u[n + 1][Len(t[n]) + 1] = g[keys[n + 1]]
      BY <3>2, <3>4
    <3>6. ASSUME NEW i \in 1..(Len(t[n]) + 1) PROVE t[n + 1][i] \in S /\ u[n + 1][i] = g[t[n + 1][i]]
      <4>1. CASE i = Len(t[n]) + 1
        BY <2>3, <3>3, <3>5, <4>1
      <4>2. CASE i \in 1..Len(t[n])
        BY <2>2, <3>3, <3>5, <4>2
      <4>. QED BY <3>3, <4>1, <4>2
    <3>7. u[n + 1] = [i \in 1..Len(t[n + 1]) |-> u[n + 1][i]]
      BY <3>3, <3>5
    <3>8. u[n + 1] = [i \in 1..Len(t[n + 1]) |-> g[t[n + 1][i]]]
      BY <3>3, <3>6, <3>7, Zenon
    <3>9. Len(t[n + 1]) <= n + 1 /\ \A i \in 1..Len(t[n + 1]) : t[n + 1][i] \in S
      BY <2>2, <3>3, <3>6
    <3>. QED BY <2>0, <3>3, <3>8, <3>9, Zenon
  <2>4. CASE keys[n + 1] \notin S
    <3>1. ids[n + 1] \notin T
      BY <1>1, <2>0, <2>4
    <3>2. t[n + 1] = t[n] /\ u[n + 1] = u[n]
      BY <2>1, <2>4, <3>1
    <3>3. Filtered(n + 1)
      BY <2>2, <3>2
    <3>. QED BY <2>0, <3>3
  <2>. QED BY <2>3, <2>4
<1>8. m \in P
  <2>1. P \in SUBSET Nat
    OBVIOUS
  <2>. HIDE DEF P
  <2>2. \A n \in 0..m : n \in P
    BY <1>6, <1>7, <1>1, <2>1, UpTo
  <2>. QED BY <1>1, <2>2
<1>. QED BY <1>3, <1>4, <1>8, <1>1 DEF ids, IdsOf

\* What is taken is a list of the members of S, not longer.
LEMMA OnlyInShorter ==
  ASSUME NEW K, NEW keys \in Seq(K), NEW S
  PROVE  /\ OnlyIn(keys, S) \in Seq(K) /\ Len(OnlyIn(keys, S)) <= Len(keys)
         /\ \A n \in 1..Len(OnlyIn(keys, S)) : OnlyIn(keys, S)[n] \in S
<1>. DEFINE g == [k \in K |-> k]
<1>1. \A n \in 1..Len(keys) : g[keys[n]] \in S <=> keys[n] \in S
  OBVIOUS
<1>. HIDE DEF g
<1>. QED BY <1>1, OnlyInMapped

\* Nothing is taken out of a list that has members of S only.
LEMMA OnlyInAll ==
  ASSUME NEW K, NEW keys \in Seq(K), NEW m \in Nat, m = Len(keys),
         NEW S, \A n \in 1..m : keys[n] \in S
  PROVE  OnlyIn(keys, S) = keys
<1>1. PICK t : IsTaken(t, keys, S, m) /\ OnlyIn(keys, S) = t[m]
  BY OnlyInSteps
<1>6. TakenBySteps(t, keys, S, m)
  BY <1>1, TakenSteps, Zenon
<1>. DEFINE Whole(n) == t[n] \in Seq(K) /\ Len(t[n]) = n /\ \A i \in 1..n : t[n][i] = keys[i]
            P == {n \in Nat : Whole(n)}
<1>2. 0 \in P
  <2>1. t[0] = <<>>
    BY <1>6 DEF TakenBySteps
  <2>2. <<>> \in Seq(K) /\ Len(<<>>) = 0 /\ 1..0 = {}
    OBVIOUS
  <2>. QED BY <2>1, <2>2, Zenon
<1>3. ASSUME NEW n \in 0..(m - 1), n \in P PROVE n + 1 \in P
  <2>0. n + 1 \in 1..m /\ keys[n + 1] \in K /\ keys[n + 1] \in S
    OBVIOUS
  <2>1. t[n + 1] = Append(t[n], keys[n + 1])
    BY <2>0, <1>6 DEF TakenBySteps
  <2>2. Whole(n)
    BY <1>3
  <2>3. Whole(n + 1)
    BY <2>0, <2>1, <2>2
  <2>. QED BY <2>3
<1>4. m \in P
  <2>1. P \in SUBSET Nat
    OBVIOUS
  <2>. HIDE DEF P
  <2>2. \A n \in 0..m : n \in P
    BY <1>2, <1>3, <2>1, UpTo
  <2>. QED BY <2>2
<1>. QED BY <1>1, <1>4

--------------------------------------------------------------------------
\* Where an element is in the memory.
Cell == [li : Nat, pi : Nat]

\* PointsTo of a memory m.
At(m, p, ids) ==
  \A n \in 1..(Len(ids) + 1) :
    /\ [li |-> p.li, pi |-> p.pi + n - 1] \in DOMAIN m
    /\ m[[li |-> p.li, pi |-> p.pi + n - 1]] = IF n > Len(ids) THEN -1 ELSE ids[n]

\* How many cells the list of a position takes.
Taken(f) == Len(corpus[f]) + 1

\* n cells from p on end before q.
EndsBefore(p, n, q) == p.li < q.li \/ (p.li = q.li /\ p.pi + n <= q.pi)

\* The cached lists follow one another within the chunks of the free list.
Layout ==
  /\ corpus \in Corpora /\ pos \in 1..(Len(corpus) + 1)
  /\ cache \in Seq(Cell) /\ Len(cache) = pos - 1
  /\ fl \in [li : Nat, pi : 0..(size - 1), chunks : Nat]
  /\ fl = Unused \/ fl.chunks = fl.li + 1
  /\ DOMAIN mem \subseteq Cell
  /\ \A c \in DOMAIN mem : c.li < fl.chunks /\ c.pi < size
  /\ \A f \in 1..Len(cache) : EndsBefore(cache[f], Taken(f), fl)
  /\ \A f, g \in 1..Len(cache) : f < g => EndsBefore(cache[f], Taken(f), cache[g])

\* Every key of a list is in S.
KeysIn(list, S) == \A n \in 1..Len(list) : list[n] \in S

\* While ids are given: the lists are those of their keys.
Built ==
  /\ \A f \in 1..Len(cache) : KeysIn(corpus[f], dic) /\ At(mem, cache[f], IdsOf(id, corpus[f]))
  /\ pos > Len(corpus) => feature = <<>>
  /\ pos <= Len(corpus) =>
       /\ Len(feature) <= Len(corpus[pos])
       /\ \A n \in 1..Len(feature) : corpus[pos][n] \in dic /\ feature[n] = id[corpus[pos][n]]

\* While they are given anew: old are the ids before.
Renumbered(old) ==
  /\ old \in [Keys -> Nat]
  /\ \A k, l \in dic \cup visited : old[k] = old[l] => k = l
  /\ \A k \in dic \ visited : id[k] = old[k]
  /\ DOMAIN old2new = {old[k] : k \in dic \cap visited}
  /\ \A k \in dic \cap visited : old2new[old[k]] = id[k]
  /\ \A f \in (rewritten + 1)..Len(cache) : At(mem, cache[f], IdsOf(old, corpus[f]))

\* The lists that have been rewritten have the new ids of the keys that stay.
New(f) == At(mem, cache[f], IdsOf(id, OnlyIn(corpus[f], dic)))

\* The inductive invariant of the lists.
ListsIInv ==
  /\ Layout
  /\ rewritten \in 0..Len(cache)
  /\ phase = "building" => Built /\ rewritten = 0 /\ visited = {} /\ old2new = Empty
  /\ phase # "building" => pos = Len(corpus) + 1
  /\ phase \in {"renumbering", "rewriting"} =>
       /\ \A f \in 1..Len(cache) : KeysIn(corpus[f], dic \cup visited)
       /\ \E old : Renumbered(old)
       /\ \A f \in 1..rewritten : New(f)
  /\ phase = "renumbering" => rewritten = 0
  /\ phase = "done" => \A f \in 1..Len(cache) : New(f)

\* Copied of a memory m.
CopiedTo(m, p, list) ==
  [c \in DOMAIN m \cup Cells(p, Len(list) + 1) |->
     IF c \in Cells(p, Len(list) + 1) THEN Append(list, -1)[c.pi - p.pi + 1] ELSE m[c]]

\* The memory behind a copy.
LEMMA CopiesAreMade ==
  ASSUME NEW p, NEW list \in Seq(Nat)
  PROVE  Copied(p, list) = CopiedTo(mem, p, list)
<1>1. Len(Append(list, -1)) = Len(list) + 1
  <2>1. list \in Seq(Int)
    OBVIOUS
  <2>. QED BY <2>1
<1>. QED BY <1>1 DEF Copied, CopiedTo

\* PointsTo is about the memory there is.
LEMMA PointersAreAt == \A p, ids : PointsTo(p, ids) <=> At(mem, p, ids)
BY DEF PointsTo, At, Listed

\* What is copied can be read where it was copied to.
LEMMA CopiedHere ==
  ASSUME NEW m, NEW p \in Cell, NEW list \in Seq(Nat)
  PROVE  At(CopiedTo(m, p, list), p, list)
<1>. DEFINE cells == Cells(p, Len(list) + 1)
            ended == Append(list, -1)
<1>1. ASSUME NEW n \in 1..(Len(list) + 1)
      PROVE  /\ [li |-> p.li, pi |-> p.pi + n - 1] \in cells
             /\ ended[n] = IF n > Len(list) THEN -1 ELSE list[n]
             /\ (p.pi + n - 1) - p.pi + 1 = n
  <2>1. Len(list) \in Nat /\ p.li \in Nat /\ p.pi \in Nat /\ list \in Seq(Int)
    BY DEF Cell
  <2>2. n - 1 \in 0..(Len(list) + 1 - 1) /\ p.pi + (n - 1) = p.pi + n - 1
    BY <2>1
  <2>3. [li |-> p.li, pi |-> p.pi + (n - 1)] \in cells
    BY <2>2 DEF Cells
  <2>. QED BY <2>1, <2>2, <2>3
<1>. DEFINE c(n) == [li |-> p.li, pi |-> p.pi + n - 1]
<1>2. ASSUME NEW n \in 1..(Len(list) + 1)
      PROVE  c(n) \in DOMAIN CopiedTo(m, p, list) /\ CopiedTo(m, p, list)[c(n)] = ended[n]
  <2>1. c(n) \in cells /\ c(n).pi - p.pi + 1 = n
    BY <1>1
  <2>. HIDE DEF c
  <2>. QED BY <2>1 DEF CopiedTo
<1>. QED BY <1>1, <1>2 DEF At

\* What is in other cells stays there.
LEMMA CopiedElsewhere ==
  ASSUME NEW m, NEW p \in Cell, NEW list \in Seq(Nat), NEW q \in Cell, NEW ids, Len(ids) \in Nat,
         At(m, q, ids),
         EndsBefore(q, Len(ids) + 1, p) \/ EndsBefore(p, Len(list) + 1, q)
  PROVE  At(CopiedTo(m, p, list), q, ids)
<1>. DEFINE c(n) == [li |-> q.li, pi |-> q.pi + n - 1]
<1>1. ASSUME NEW n \in 1..(Len(ids) + 1), c(n) \in Cells(p, Len(list) + 1) PROVE FALSE
  <2>1. PICK j \in 0..(Len(list) + 1 - 1) : c(n) = [li |-> p.li, pi |-> p.pi + j]
    BY <1>1 DEF Cells
  <2>2. q.li = p.li /\ q.pi + n - 1 = p.pi + j
    BY <2>1
  <2>3. Len(list) \in Nat /\ Len(ids) \in Nat
        /\ p.li \in Nat /\ q.li \in Nat /\ p.pi \in Nat /\ q.pi \in Nat
    BY DEF Cell
  <2>. QED BY <2>2, <2>3 DEF EndsBefore
<1>2. ASSUME NEW n \in 1..(Len(ids) + 1)
      PROVE  c(n) \in DOMAIN CopiedTo(m, p, list) /\ CopiedTo(m, p, list)[c(n)] = m[c(n)]
  <2>1. c(n) \in DOMAIN m /\ c(n) \notin Cells(p, Len(list) + 1)
    BY <1>1 DEF At
  <2>. HIDE DEF c
  <2>. QED BY <2>1 DEF CopiedTo
<1>. QED BY <1>2 DEF At

\* The free list hands out what is behind all it has handed out, in one chunk.
LEMMA AllocGoesOn ==
  ASSUME NEW l \in [li : Nat, pi : 0..(size - 1), chunks : Nat],
         l = Unused \/ l.chunks = l.li + 1, NEW n \in Nat \ {0}, n < size
  PROVE  /\ Place(l, n) \in Cell
         /\ Alloc(l, n) \in [li : Nat, pi : 0..(size - 1), chunks : Nat]
         /\ Alloc(l, n).chunks = Alloc(l, n).li + 1 /\ Alloc(l, n).chunks >= l.chunks
         /\ \A c \in Cells(Place(l, n), n) : c \in Cell /\ c.li < Alloc(l, n).chunks /\ c.pi < size
         /\ \A q \in Cell, k \in Nat : EndsBefore(q, k, l) =>
              EndsBefore(q, k, Place(l, n)) /\ EndsBefore(q, k, Alloc(l, n))
         /\ EndsBefore(Place(l, n), n, Alloc(l, n))
<1>. DEFINE p == Place(l, n)
            a == Alloc(l, n)
<1>1. size \in Nat \ {0} /\ l.li \in Nat /\ l.pi \in 0..(size - 1) /\ l.chunks \in Nat
  BY ChunkAssumption
<1>2. /\ p \in Cell /\ p.pi + n < size
      /\ (p.li = l.li /\ p.pi = l.pi) \/ (p.li = l.li + 1 /\ p.pi = 0 /\ l.chunks = l.li + 1)
  BY <1>1 DEF Place, MoveOn, Cell, Unused
<1>3. l.chunks = l.li + 1 \/ (l.chunks = 0 /\ l.li = 0)
  BY DEF Unused
<1>4. a = [li |-> p.li, pi |-> p.pi + n,
           chunks |-> IF p.li = l.chunks THEN l.chunks + 1 ELSE l.chunks]
  BY DEF Alloc
<1>5. a.li = p.li /\ a.pi = p.pi + n /\ p.li \in Nat /\ p.pi \in Nat
      /\ a.chunks = IF p.li = l.chunks THEN l.chunks + 1 ELSE l.chunks
  BY <1>2, <1>4 DEF Cell
<1>. HIDE DEF p, a
<1>6. a.chunks = a.li + 1 /\ a.chunks >= l.chunks /\ a.chunks \in Nat
  BY <1>1, <1>2, <1>3, <1>5
<1>7. a \in [li : Nat, pi : 0..(size - 1), chunks : Nat]
  BY <1>1, <1>2, <1>4, <1>5, <1>6
<1>8. ASSUME NEW c \in Cells(p, n) PROVE c \in Cell /\ c.li < a.chunks /\ c.pi < size
  <2>1. PICK j \in 0..(n - 1) : c = [li |-> p.li, pi |-> p.pi + j]
    BY DEF Cells
  <2>2. c.li = p.li /\ c.pi = p.pi + j
    BY <2>1
  <2>3. c \in Cell
    BY <1>5, <2>1 DEF Cell
  <2>. QED BY <1>1, <1>2, <1>5, <1>6, <2>2, <2>3
<1>9. ASSUME NEW q \in Cell, NEW k \in Nat, EndsBefore(q, k, l)
      PROVE  EndsBefore(q, k, p) /\ EndsBefore(q, k, a)
  <2>1. q.li \in Nat /\ q.pi \in Nat
    BY DEF Cell
  <2>. QED BY <1>1, <1>2, <1>5, <1>9, <2>1 DEF EndsBefore
<1>10. EndsBefore(p, n, a)
  BY <1>5 DEF EndsBefore
<1>. QED BY <1>2, <1>6, <1>7, <1>8, <1>9, <1>10 DEF p, a

--------------------------------------------------------------------------
\* What the position and the lists are known to be.
LEMMA Positions ==
  ASSUME Layout
  PROVE  /\ corpus \in Seq(Seq(Keys)) /\ Len(corpus) \in Nat /\ Len(cache) \in Nat
         /\ pos \in Nat \ {0} /\ Len(cache) = pos - 1 /\ Len(cache) <= Len(corpus)
         /\ \A f \in 1..Len(corpus) : corpus[f] \in Seq(Keys) /\ Len(corpus[f]) \in Nat
                                      /\ Taken(f) \in Nat \ {0} /\ Taken(f) < size
         /\ \A f \in 1..Len(cache) : cache[f] \in Cell
<1>1. corpus \in Seq(Seq(Keys)) /\ \A f \in 1..Len(corpus) : Len(corpus[f]) + 1 < size
  BY PositionsAssumption DEF Layout
<1>2. Len(corpus) \in Nat /\ \A f \in 1..Len(corpus) : corpus[f] \in Seq(Keys)
  BY <1>1
<1>3. \A f \in 1..Len(corpus) : Len(corpus[f]) \in Nat
  BY <1>2
<1>4. cache \in Seq(Cell) /\ pos \in 1..(Len(corpus) + 1) /\ Len(cache) = pos - 1
  BY DEF Layout, Cell
<1>5. Len(cache) \in Nat /\ \A f \in 1..Len(cache) : cache[f] \in Cell
  BY <1>4
<1>. QED BY <1>1, <1>2, <1>3, <1>4, <1>5 DEF Taken

\* A list that is added lies behind the others.
LEMMA AddKeepsLayout ==
  ASSUME Layout, feature \in Seq(Nat), AddToCache PROVE Layout'
<1>. DEFINE n == Len(feature) + 1
            p == Place(fl, n)
<1>1. /\ pos <= Len(corpus) /\ Len(feature) = Len(corpus[pos])
      /\ cache' = Append(cache, p) /\ mem' = CopiedTo(mem, p, feature)
      /\ fl' = Alloc(fl, n) /\ pos' = pos + 1 /\ corpus' = corpus
  BY CopiesAreMade DEF AddToCache, Building
<1>2. /\ pos \in 1..Len(corpus) /\ n = Taken(pos) /\ n \in Nat \ {0} /\ n < size
      /\ Len(cache) \in Nat /\ pos = Len(cache) + 1 /\ Len(corpus) \in Nat
      /\ cache \in Seq(Cell) /\ \A f \in 1..Len(cache) : cache[f] \in Cell /\ Taken(f) \in Nat
  <2>1. Len(corpus) \in Nat /\ pos \in 1..Len(corpus) /\ n = Taken(pos)
    BY <1>1, Positions DEF Taken
  <2>2. Len(cache) \in Nat /\ pos = Len(cache) + 1 /\ \A f \in 1..Len(cache) : cache[f] \in Cell
    BY Positions
  <2>3. \A f \in 1..Len(corpus) : Taken(f) \in Nat \ {0} /\ Taken(f) < size
    BY Positions
  <2>4. \A f \in 1..Len(cache) : f \in 1..Len(corpus)
    BY <2>1, <2>2
  <2>. HIDE DEF n
  <2>. QED BY <2>1, <2>2, <2>3, <2>4 DEF Layout, Cell
<1>3. /\ p \in Cell
      /\ fl' \in [li : Nat, pi : 0..(size - 1), chunks : Nat]
      /\ fl'.chunks = fl'.li + 1 /\ fl'.chunks >= fl.chunks
      /\ \A c \in Cells(p, n) : c \in Cell /\ c.li < fl'.chunks /\ c.pi < size
      /\ \A q \in Cell, k \in Nat : EndsBefore(q, k, fl) =>
           EndsBefore(q, k, p) /\ EndsBefore(q, k, fl')
      /\ EndsBefore(p, n, fl')
  BY <1>1, <1>2, AllocGoesOn DEF Layout
<1>. HIDE DEF n, p
<1>4. /\ cache' \in Seq(Cell) /\ Len(cache') = Len(cache) + 1 /\ cache'[Len(cache) + 1] = p
      /\ \A f \in 1..Len(cache) : cache'[f] = cache[f]
  BY <1>1, <1>2, <1>3
<1>5. \A f \in 1..Len(cache) : EndsBefore(cache[f], Taken(f), p) /\ EndsBefore(cache[f], Taken(f), fl')
  BY <1>2, <1>3 DEF Layout
<1>6. ASSUME NEW f \in 1..Len(cache') PROVE EndsBefore(cache'[f], Taken(f), fl')
  <2>1. CASE f = Len(cache) + 1
    BY <1>2, <1>3, <1>4, <2>1
  <2>2. CASE f \in 1..Len(cache)
    BY <1>4, <1>5, <2>2
  <2>. QED BY <1>2, <1>4, <2>1, <2>2
<1>7. ASSUME NEW f \in 1..Len(cache'), NEW g \in 1..Len(cache'), f < g
      PROVE  EndsBefore(cache'[f], Taken(f), cache'[g])
  <2>1. f \in 1..Len(cache) /\ cache'[f] = cache[f]
    BY <1>2, <1>4, <1>7
  <2>2. CASE g = Len(cache) + 1
    BY <1>4, <1>5, <2>1, <2>2
  <2>3. CASE g \in 1..Len(cache)
    BY <1>4, <1>7, <2>1, <2>3 DEF Layout
  <2>. QED BY <1>2, <1>4, <2>2, <2>3
<1>8. ASSUME NEW c \in DOMAIN mem' PROVE c \in Cell /\ c.li < fl'.chunks /\ c.pi < size
  <2>1. c \in DOMAIN mem \/ c \in Cells(p, Len(feature) + 1)
    BY <1>1 DEF CopiedTo
  <2>2. CASE c \in DOMAIN mem
    <3>1. c \in Cell /\ c.li < fl.chunks /\ c.pi < size /\ fl.chunks \in Nat
      BY <2>2 DEF Layout, Cell
    <3>2. c.li \in Nat /\ fl'.chunks \in Nat
      BY <1>3, <3>1 DEF Cell
    <3>. QED BY <1>3, <3>1, <3>2
  <2>3. CASE c \in Cells(p, Len(feature) + 1)
    BY <1>3, <2>3 DEF n
  <2>. QED BY <2>1, <2>2, <2>3
<1>9. corpus' \in Corpora /\ pos' \in 1..(Len(corpus') + 1) /\ Len(cache') = pos' - 1
  BY <1>1, <1>2, <1>4 DEF Layout
<1>10. \A f : Taken(f)' = Taken(f)
  BY <1>1 DEF Taken
<1>. QED BY <1>3, <1>4, <1>6, <1>7, <1>8, <1>9, <1>10 DEF Layout, Cell, EndsBefore

--------------------------------------------------------------------------
\* Keys of S have the same ids in another map that agrees on S.
LEMMA SameIds ==
  ASSUME NEW a, NEW b, NEW S, NEW list, KeysIn(list, S), \A k \in S : a[k] = b[k]
  PROVE  IdsOf(a, list) = IdsOf(b, list)
BY DEF IdsOf, KeysIn

\* As many ids as keys.
LEMMA LenOfIds ==
  ASSUME NEW a, NEW list, Len(list) \in Nat PROVE Len(IdsOf(a, list)) = Len(list)
BY DEF IdsOf

\* There is no list yet.
LEMMA InitLists == ASSUME Init PROVE ListsIInv
<1>1. /\ corpus \in Corpora /\ pos = 1 /\ feature = <<>> /\ fl = Unused /\ mem = Empty /\ cache = <<>>
      /\ phase = "building" /\ rewritten = 0 /\ visited = {} /\ old2new = Empty
  BY DEF Init
<1>2. corpus \in Seq(Seq(Keys)) /\ Len(corpus) \in Nat
  BY <1>1, PositionsAssumption
<1>3. Unused \in [li : Nat, pi : 0..(size - 1), chunks : Nat]
  BY ChunkAssumption DEF Unused
<1>4. Len(cache) = 0 /\ cache \in Seq([li : Nat, pi : Nat])
  BY <1>1
<1>5. DOMAIN mem = {}
  BY <1>1 DEF Empty
<1>6. Layout
  BY <1>1, <1>2, <1>3, <1>4, <1>5 DEF Layout
<1>7. Built
  BY <1>1, <1>2, <1>4 DEF Built
<1>. QED BY <1>1, <1>6, <1>7 DEF ListsIInv

\* Lists stay where they are.
LEMMA LayoutStays ==
  ASSUME Layout, UNCHANGED <<corpus, pos, memory>> PROVE Layout'
BY DEF Layout, Taken, EndsBefore, memory

\* The key that is looked up.
LEMMA KeyOfPosition ==
  ASSUME Layout, feature \in Seq(Nat), HasKey
  PROVE  /\ pos \in 1..Len(corpus) /\ corpus[pos] \in Seq(Keys) /\ Key \in Keys
         /\ Key = corpus[pos][Len(feature) + 1]
         /\ Len(feature) \in Nat /\ Len(feature) + 1 <= Len(corpus[pos])
<1>1. pos \in 1..Len(corpus)
  BY Positions DEF HasKey, Building
<1>2. corpus[pos] \in Seq(Keys) /\ Len(corpus[pos]) \in Nat /\ Len(feature) \in Nat
  BY <1>1, Positions
<1>3. Len(feature) < Len(corpus[pos])
  BY DEF HasKey
<1>. QED BY <1>1, <1>2, <1>3 DEF Key

\* An id is added to the list: the lists before keep their ids, since their keys are in
\* the dictionary.
LEMMA GrowKeepsBuilt ==
  ASSUME Layout, feature \in Seq(Nat), Built, HasKey, NEW i \in Nat,
         feature' = Append(feature, i), UNCHANGED <<corpus, pos, memory>>,
         dic' = dic \cup {Key}, \A k \in dic : id'[k] = id[k], id'[Key] = i
  PROVE  Built'
<1>1. /\ pos \in 1..Len(corpus) /\ corpus[pos] \in Seq(Keys)
      /\ Key = corpus[pos][Len(feature) + 1]
      /\ Len(feature) \in Nat /\ Len(feature) + 1 <= Len(corpus[pos])
  BY KeyOfPosition
<1>. HIDE DEF Key
<1>2. mem' = mem /\ cache' = cache
  BY DEF memory
<1>3. ASSUME NEW f \in 1..Len(cache)
      PROVE  KeysIn(corpus[f], dic') /\ At(mem, cache[f], IdsOf(id', corpus[f]))
  <2>1. KeysIn(corpus[f], dic) /\ At(mem, cache[f], IdsOf(id, corpus[f]))
    BY DEF Built
  <2>2. IdsOf(id', corpus[f]) = IdsOf(id, corpus[f])
    BY <2>1, SameIds
  <2>3. KeysIn(corpus[f], dic')
    BY <2>1 DEF KeysIn
  <2>. QED BY <2>1, <2>2, <2>3
<1>4. Len(feature') = Len(feature) + 1 /\ feature'[Len(feature) + 1] = i
      /\ \A n \in 1..Len(feature) : feature'[n] = feature[n]
  BY <1>1
<1>5. ASSUME NEW n \in 1..Len(feature')
      PROVE  corpus[pos][n] \in dic' /\ feature'[n] = id'[corpus[pos][n]]
  <2>1. CASE n = Len(feature) + 1
    BY <1>1, <1>4, <2>1
  <2>2. CASE n \in 1..Len(feature)
    <3>1. corpus[pos][n] \in dic /\ feature[n] = id[corpus[pos][n]]
      BY <1>1, <2>2 DEF Built
    <3>. QED BY <1>4, <2>2, <3>1
  <2>. QED BY <1>1, <1>4, <2>1, <2>2
<1>6. ~(pos > Len(corpus)) /\ Len(feature') <= Len(corpus[pos])
  BY <1>1, <1>4, Positions
<1>7. corpus' = corpus /\ pos' = pos
  OBVIOUS
<1>. QED BY <1>2, <1>3, <1>5, <1>6, <1>7 DEF Built

\* The list of a position that is complete is added.
LEMMA AddKeepsBuilt ==
  ASSUME Layout, feature \in Seq(Nat), Built, AddToCache, id \in [Keys -> Nat]
  PROVE  Built'
<1>. DEFINE n == Len(feature) + 1
            p == Place(fl, n)
<1>1. /\ pos <= Len(corpus) /\ Len(feature) = Len(corpus[pos])
      /\ cache' = Append(cache, p) /\ mem' = CopiedTo(mem, p, feature)
      /\ pos' = pos + 1 /\ feature' = <<>> /\ UNCHANGED <<corpus, dic, id>>
  BY CopiesAreMade DEF AddToCache, Building, dictionary
<1>2. /\ pos \in 1..Len(corpus) /\ Len(corpus) \in Nat /\ n \in Nat \ {0} /\ n < size
      /\ Len(cache) \in Nat /\ pos = Len(cache) + 1 /\ Len(corpus[pos]) \in Nat
      /\ cache \in Seq(Cell) /\ \A f \in 1..Len(cache) : cache[f] \in Cell
  BY <1>1, Positions DEF Taken, Layout, Cell
<1>3. \A f \in 1..Len(cache) : f \in 1..Len(corpus)
  BY <1>2
<1>4. /\ p \in Cell
      /\ \A q \in Cell, k \in Nat : EndsBefore(q, k, fl) => EndsBefore(q, k, p)
  BY <1>2, AllocGoesOn DEF Layout
<1>. HIDE DEF n, p
<1>5. /\ Len(cache') = Len(cache) + 1 /\ cache'[Len(cache) + 1] = p
      /\ \A f \in 1..Len(cache) : cache'[f] = cache[f]
  BY <1>1, <1>2, <1>4
<1>6. feature = IdsOf(id, corpus[pos]) /\ KeysIn(corpus[pos], dic)
  <2>1. \A j \in 1..Len(corpus[pos]) : corpus[pos][j] \in dic /\ feature[j] = id[corpus[pos][j]]
    BY <1>1, <1>2 DEF Built
  <2>. QED BY <1>1, <2>1 DEF IdsOf, KeysIn
<1>7. ASSUME NEW f \in 1..Len(cache')
      PROVE  KeysIn(corpus[f], dic) /\ At(mem', cache'[f], IdsOf(id, corpus[f]))
  <2>1. CASE f = Len(cache) + 1
    <3>1. At(mem', p, feature)
      BY <1>1, <1>4, CopiedHere
    <3>. QED BY <1>2, <1>5, <1>6, <2>1, <3>1
  <2>2. CASE f \in 1..Len(cache)
    <3>1. KeysIn(corpus[f], dic) /\ At(mem, cache[f], IdsOf(id, corpus[f]))
      BY <2>2 DEF Built
    <3>2. Len(IdsOf(id, corpus[f])) = Len(corpus[f]) /\ Len(corpus[f]) \in Nat
      BY <1>3, <2>2, LenOfIds, Positions
    <3>3. EndsBefore(cache[f], Len(IdsOf(id, corpus[f])) + 1, p)
      <4>1. EndsBefore(cache[f], Taken(f), fl) /\ Taken(f) \in Nat /\ cache[f] \in Cell
        BY <1>2, <1>3, <2>2, Positions DEF Layout
      <4>. QED BY <1>4, <3>2, <4>1 DEF Taken
    <3>4. At(mem', cache[f], IdsOf(id, corpus[f]))
      BY <1>1, <1>2, <1>4, <2>2, <3>1, <3>2, <3>3, CopiedElsewhere
    <3>. QED BY <1>5, <2>2, <3>1, <3>4
  <2>. QED BY <1>2, <1>5, <2>1, <2>2
<1>8. pos' <= Len(corpus) => Len(corpus[pos']) \in Nat
  BY <1>1, <1>2, Positions
<1>9. Len(feature') = 0
  BY <1>1
<1>. QED BY <1>1, <1>7, <1>8, <1>9 DEF Built

\* getID and add keep the lists.
LEMMA BuildingKeepsLists ==
  ASSUME ListsIInv, Numbers, NewKey \/ KnownKey \/ AddToCache PROVE ListsIInv'
<1>1. /\ Layout /\ Built /\ rewritten = 0 /\ visited = {} /\ old2new = Empty
      /\ feature \in Seq(Nat) /\ id \in [Keys -> Nat] /\ maxid \in Nat /\ dic \subseteq Keys
  BY DEF ListsIInv, Numbers, NewKey, KnownKey, AddToCache, HasKey, Building
<1>2. phase = "building" /\ phase' = "building" /\ UNCHANGED <<visited, old2new, rewritten>>
  BY DEF NewKey, KnownKey, AddToCache, HasKey, Building, loops
<1>3. CASE NewKey
  <2>1. /\ HasKey /\ Key \notin dic /\ feature' = Append(feature, maxid)
        /\ dic' = dic \cup {Key} /\ id' = [id EXCEPT ![Key] = maxid]
        /\ UNCHANGED <<corpus, pos, memory>>
    BY <1>3 DEF NewKey
  <2>2. Key \in Keys
    BY <1>1, <2>1, KeyOfPosition
  <2>. HIDE DEF Key
  <2>3. id'[Key] = maxid /\ \A k \in dic : id'[k] = id[k]
    BY <1>1, <2>1, <2>2
  <2>4. Built'
    BY <1>1, <2>1, <2>3, GrowKeepsBuilt
  <2>. QED BY <1>1, <1>2, <2>1, <2>4, LayoutStays DEF ListsIInv
<1>4. CASE KnownKey
  <2>1. /\ HasKey /\ Key \in dic /\ feature' = Append(feature, id[Key])
        /\ UNCHANGED <<corpus, pos, memory, dic, id>>
    BY <1>4 DEF KnownKey
  <2>2. Key \in Keys
    BY <1>1, <2>1, KeyOfPosition
  <2>. HIDE DEF Key
  <2>3. id[Key] \in Nat /\ dic' = dic \cup {Key} /\ id'[Key] = id[Key] /\ \A k \in dic : id'[k] = id[k]
    BY <1>1, <2>1, <2>2
  <2>4. Built'
    BY <1>1, <2>1, <2>3, GrowKeepsBuilt
  <2>. QED BY <1>1, <1>2, <2>1, <2>4, LayoutStays DEF ListsIInv
<1>5. CASE AddToCache
  BY <1>1, <1>2, <1>5, AddKeepsLayout, AddKeepsBuilt DEF ListsIInv
<1>. QED BY <1>3, <1>4, <1>5

\* The keys of the positions that have been read.
LEMMA KeysOfLists ==
  ASSUME Layout
  PROVE  \A f \in 1..Len(cache) :
           f \in 1..Len(corpus) /\ corpus[f] \in Seq(Keys) /\ Len(corpus[f]) \in Nat
BY Positions

\* When all keys stay, the lists are the new ones already.
LEMMA AllStay ==
  ASSUME Layout, NEW f \in 1..Len(cache), KeysIn(corpus[f], dic),
         At(mem, cache[f], IdsOf(id, corpus[f]))
  PROVE  New(f)
<1>1. corpus[f] \in Seq(Keys) /\ Len(corpus[f]) \in Nat
  BY KeysOfLists
<1>2. OnlyIn(corpus[f], dic) = corpus[f]
  BY <1>1, OnlyInAll DEF KeysIn
<1>. QED BY <1>2 DEF New

\* The lists are complete; the ids they hold are different for different keys.
LEMMA StopKeepsLists ==
  ASSUME ListsIInv, Numbers, Compact(dic, maxid), StopBuilding PROVE ListsIInv'
<1>1. /\ Layout /\ Built /\ rewritten = 0 /\ visited = {} /\ old2new = Empty
      /\ pos > Len(corpus) /\ id \in [Keys -> Nat] /\ dic \subseteq Keys
      /\ phase' \in {"renumbering", "done"}
      /\ UNCHANGED <<corpus, pos, memory, dic, id, visited, old2new, rewritten>>
  BY DEF ListsIInv, Numbers, StopBuilding, position, dictionary, loops
<1>2. Layout'
  BY <1>1, LayoutStays
<1>3. pos' = Len(corpus') + 1 /\ Len(cache) \in Nat
  BY <1>1, Positions DEF Layout
<1>4. mem' = mem /\ cache' = cache
  BY <1>1 DEF memory
<1>5. \A f \in 1..Len(cache) : KeysIn(corpus[f], dic) /\ At(mem, cache[f], IdsOf(id, corpus[f]))
  BY <1>1 DEF Built
<1>6. CASE phase' = "done"
  <2>1. \A f \in 1..Len(cache) : New(f)
    BY <1>1, <1>5, AllStay
  <2>2. \A f \in 1..Len(cache') : New(f)'
    BY <1>1, <1>4, <2>1 DEF New
  <2>3. rewritten' \in 0..Len(cache')
    BY <1>1, <1>3, <1>4
  <2>. QED BY <1>2, <1>3, <1>6, <2>2, <2>3 DEF ListsIInv
<1>7. CASE phase' = "renumbering"
  <2>1. ASSUME NEW k \in dic, NEW l \in dic, id[k] = id[l] PROVE k = l
    <3>1. id[k] \in Ids(k) /\ id[l] \in Ids(l)
      BY <1>1, WidthIsPositive DEF Ids
    <3>. QED BY <2>1, <3>1 DEF Compact
  <2>2. Renumbered(id)
    BY <1>1, <1>5, <2>1 DEF Renumbered, Empty
  <2>3. \E old : Renumbered(old)'
    BY <1>1, <1>4, <2>2 DEF Renumbered
  <2>4. \A f \in 1..Len(cache) : KeysIn(corpus[f], dic \cup visited)
    BY <1>1, <1>5
  <2>. QED BY <1>1, <1>2, <1>3, <1>4, <1>7, <2>3, <2>4 DEF ListsIInv
<1>. QED BY <1>1, <1>6, <1>7

\* A key that is visited takes its old id along, or is gone.
LEMMA RenumberingKeepsLists ==
  ASSUME ListsIInv, Numbers, NEW k \in Keys, Renumber(k) \/ Erase(k) PROVE ListsIInv'
<1>1. /\ Layout /\ pos = Len(corpus) + 1 /\ phase = "renumbering" /\ rewritten = 0
      /\ \A f \in 1..Len(cache) : KeysIn(corpus[f], dic \cup visited)
      /\ id \in [Keys -> Nat] /\ dic \subseteq Keys /\ visited \subseteq Keys
      /\ k \in dic /\ k \notin visited /\ visited' = visited \cup {k}
      /\ UNCHANGED <<corpus, pos, memory, rewritten, phase>>
  BY DEF ListsIInv, Numbers, Renumber, Erase, Visit, position
<1>2. PICK old : Renumbered(old)
  BY <1>1 DEF ListsIInv
<1>3. Layout' /\ mem' = mem /\ cache' = cache /\ Len(cache) \in Nat
  BY <1>1, LayoutStays, Positions DEF memory
<1>4. dic' \cup visited' = dic \cup visited
  BY <1>1 DEF Renumber, Erase
<1>5. Renumbered(old)'
  <2>1. /\ old \in [Keys -> Nat]
        /\ \A j, l \in dic \cup visited : old[j] = old[l] => j = l
        /\ \A j \in dic \ visited : id[j] = old[j]
        /\ DOMAIN old2new = {old[j] : j \in dic \cap visited}
        /\ \A j \in dic \cap visited : old2new[old[j]] = id[j]
        /\ \A f \in (rewritten + 1)..Len(cache) : At(mem, cache[f], IdsOf(old, corpus[f]))
    BY <1>2 DEF Renumbered
  <2>2. /\ \A j \in dic' \ visited' : id'[j] = old[j]
        /\ DOMAIN old2new' = {old[j] : j \in dic' \cap visited'}
        /\ \A j \in dic' \cap visited' : old2new'[old[j]] = id'[j]
    <3>1. CASE Renumber(k)
      <4>1. /\ dic' = dic /\ id' = [id EXCEPT ![k] = new_maxid]
            /\ old2new' = [i \in DOMAIN old2new \cup {id[k]} |->
                             IF i = id[k] THEN new_maxid ELSE old2new[i]]
        BY <3>1 DEF Renumber
      <4>2. id[k] = old[k] /\ id'[k] = new_maxid /\ \A j \in Keys \ {k} : id'[j] = id[j]
        BY <1>1, <2>1, <4>1
      <4>3. \A j \in dic' \ visited' : id'[j] = old[j]
        BY <1>1, <2>1, <4>1, <4>2
      <4>4. dic' \cap visited' = (dic \cap visited) \cup {k}
        BY <1>1, <4>1
      <4>5. DOMAIN old2new' = {old[j] : j \in dic' \cap visited'}
        BY <2>1, <4>1, <4>2, <4>4
      <4>6. ASSUME NEW j \in dic' \cap visited' PROVE old2new'[old[j]] = id'[j]
        <5>1. CASE j = k
          BY <4>1, <4>2, <5>1
        <5>2. CASE j \in dic \cap visited
          <6>1. old[j] # old[k] /\ j # k
            BY <1>1, <2>1, <5>2
          <6>. QED BY <1>1, <2>1, <4>1, <4>2, <5>2, <6>1
        <5>. QED BY <4>4, <5>1, <5>2
      <4>. QED BY <4>3, <4>5, <4>6
    <3>2. CASE Erase(k)
      <4>1. dic' = dic \ {k} /\ UNCHANGED <<id, old2new>>
        BY <3>2 DEF Erase
      <4>2. dic' \cap visited' = dic \cap visited /\ dic' \ visited' \subseteq dic \ visited
        BY <1>1, <4>1
      <4>. QED BY <2>1, <4>1, <4>2
    <3>. QED BY <3>1, <3>2
  <2>. QED BY <1>1, <1>3, <1>4, <2>1, <2>2 DEF Renumbered
<1>6. \A f \in 1..Len(cache') : KeysIn(corpus'[f], dic' \cup visited')
  BY <1>1, <1>3, <1>4
<1>7. rewritten' = 0 /\ 1..rewritten' = {}
  BY <1>1
<1>. QED BY <1>1, <1>3, <1>5, <1>6, <1>7 DEF ListsIInv

\* Length finds the end of a list, which is the first -1.
LEMMA LengthFindsTheEnd ==
  ASSUME NEW p, NEW ids \in Seq(Nat), Len(ids) \in 0..size, At(mem, p, ids)
  PROVE  Length(p) = Len(ids) /\ \A n \in 1..Len(ids) : Listed(p, n) = ids[n]
<1>1. /\ \A n \in 1..Len(ids) : Listed(p, n) = ids[n] /\ ids[n] \in Nat
      /\ Listed(p, Len(ids) + 1) = -1
  <2>1. \A n \in 1..(Len(ids) + 1) : Listed(p, n) = IF n > Len(ids) THEN -1 ELSE ids[n]
    BY DEF At, Listed
  <2>2. Len(ids) \in Nat /\ \A n \in 1..Len(ids) : ids[n] \in Nat /\ n \in 1..(Len(ids) + 1) /\ ~(n > Len(ids))
    OBVIOUS
  <2>3. Len(ids) + 1 \in 1..(Len(ids) + 1) /\ Len(ids) + 1 > Len(ids)
    BY <2>2
  <2>. HIDE DEF Listed
  <2>. QED BY <2>1, <2>2, <2>3
<1>. DEFINE End(n) == Listed(p, n + 1) = -1 /\ \A j \in 1..n : Listed(p, j) # -1
<1>. HIDE DEF Listed
<1>2. End(Len(ids))
  BY <1>1
<1>3. ASSUME NEW n \in 0..size, End(n) PROVE n = Len(ids)
  <2>1. ~(n < Len(ids))
    <3>1. SUFFICES ASSUME n < Len(ids) PROVE FALSE
      OBVIOUS
    <3>2. n + 1 \in 1..Len(ids)
      BY <3>1
    <3>. QED BY <1>1, <1>3, <3>2
  <2>2. ~(n > Len(ids))
    BY <1>1, <1>3
  <2>. QED BY <2>1, <2>2
<1>4. Length(p) = CHOOSE n \in 0..size : End(n)
  BY DEF Length
<1>. HIDE DEF End
<1>. QED BY <1>1, <1>2, <1>3, <1>4

\* The list of the next position is written anew: it keeps the keys of the dictionary,
\* in their order, with their new ids.
LEMMA RewritingMakesNew ==
  ASSUME ListsIInv, Numbers, dic \subseteq visited, NEW old, Renumbered(old), Rewrite,
         NEW f, f = rewritten + 1
  PROVE  \E list \in Seq(Nat) :
           /\ list = IdsOf(id, OnlyIn(corpus[f], dic)) /\ Len(list) <= Len(corpus[f])
           /\ mem' = CopiedTo(mem, cache[f], list)
<1>. DEFINE p    == cache[f]
            ids  == IdsOf(old, corpus[f])
            read == [n \in 1..Length(p) |-> Listed(p, n)]
            kept == OnlyIn(read, DOMAIN old2new)
            stay == OnlyIn(corpus[f], dic)
<1>1. /\ Layout /\ rewritten \in 0..Len(cache) /\ rewritten < Len(cache)
      /\ \A g \in 1..Len(cache) : KeysIn(corpus[g], dic \cup visited)
      /\ id \in [Keys -> Nat] /\ dic \subseteq Keys
      /\ mem' = Copied(p, [n \in 1..Len(kept) |-> old2new[kept[n]]])
  BY DEF ListsIInv, Numbers, Rewrite
<1>2. /\ f \in 1..Len(cache) /\ f \in 1..Len(corpus) /\ corpus[f] \in Seq(Keys)
      /\ Len(corpus[f]) \in Nat /\ Len(corpus[f]) + 1 < size /\ size \in Nat
      /\ KeysIn(corpus[f], visited)
  <2>1. f \in 1..Len(cache) /\ f \in 1..Len(corpus) /\ size \in Nat
    BY <1>1, Positions, ChunkAssumption
  <2>2. corpus[f] \in Seq(Keys) /\ Len(corpus[f]) \in Nat /\ Taken(f) < size
    BY <1>1, <2>1, Positions
  <2>3. KeysIn(corpus[f], visited)
    BY <1>1, <2>1 DEF KeysIn
  <2>. QED BY <2>1, <2>2, <2>3 DEF Taken
<1>3. /\ old \in [Keys -> Nat] /\ \A k, l \in visited : old[k] = old[l] => k = l
      /\ DOMAIN old2new = {old[k] : k \in dic} /\ \A k \in dic : old2new[old[k]] = id[k]
      /\ At(mem, p, ids)
  <2>1. dic \cap visited = dic
    OBVIOUS
  <2>. QED BY <1>1, <1>2, <2>1 DEF Renumbered
<1>4. ids \in Seq(Nat) /\ Len(ids) = Len(corpus[f])
  BY <1>2, <1>3 DEF IdsOf
<1>5. read = ids
  <2>1. Length(p) = Len(ids) /\ \A n \in 1..Len(ids) : Listed(p, n) = ids[n]
    <3>1. Len(ids) \in 0..size
      BY <1>2, <1>4
    <3>. HIDE DEF ids
    <3>. QED BY <1>3, <1>4, <3>1, LengthFindsTheEnd
  <2>2. ids = [n \in 1..Len(ids) |-> ids[n]]
    BY <1>4
  <2>. HIDE DEF ids
  <2>. QED BY <2>1, <2>2
<1>6. /\ stay \in Seq(Keys) /\ Len(stay) <= Len(corpus[f])
      /\ \A n \in 1..Len(stay) : stay[n] \in dic
      /\ kept = [n \in 1..Len(stay) |-> old[stay[n]]]
  <2>1. \A n \in 1..Len(corpus[f]) : old[corpus[f][n]] \in DOMAIN old2new <=> corpus[f][n] \in dic
    BY <1>2, <1>3 DEF KeysIn
  <2>2. kept = IdsOf(old, stay)
    BY <1>2, <1>5, <2>1, OnlyInMapped
  <2>. QED BY <1>2, <2>2, OnlyInShorter DEF IdsOf
<1>. HIDE DEF kept, stay, read, ids, p
<1>. DEFINE list == IdsOf(id, stay)
<1>7. list \in Seq(Nat) /\ Len(list) = Len(stay)
  BY <1>1, <1>6 DEF IdsOf
<1>8. [n \in 1..Len(kept) |-> old2new[kept[n]]] = list
  <2>1. Len(kept) = Len(stay)
    BY <1>6
  <2>2. \A n \in 1..Len(stay) : old2new[kept[n]] = id[stay[n]]
    BY <1>3, <1>6
  <2>. QED BY <2>1, <2>2 DEF IdsOf
<1>9. mem' = CopiedTo(mem, p, list)
  BY <1>1, <1>7, <1>8, CopiesAreMade
<1>. QED BY <1>6, <1>7, <1>9 DEF stay, p

\* It is written over the old one, and over nothing else.
LEMMA RewritingKeepsLists ==
  ASSUME ListsIInv, Numbers, dic \subseteq visited, Rewrite PROVE ListsIInv'
<1>1. /\ Layout /\ pos = Len(corpus) + 1 /\ phase = "rewriting" /\ phase' = "rewriting"
      /\ rewritten \in 0..Len(cache) /\ rewritten < Len(cache) /\ rewritten' = rewritten + 1
      /\ \A f \in 1..Len(cache) : KeysIn(corpus[f], dic \cup visited)
      /\ \A f \in 1..rewritten : New(f)
      /\ UNCHANGED <<corpus, pos, dic, id, fl, cache, visited, old2new>>
  BY DEF ListsIInv, Numbers, Rewrite, position, dictionary
<1>2. PICK old : Renumbered(old)
  BY <1>1 DEF ListsIInv
<1>. DEFINE f == rewritten + 1
<1>3. PICK list \in Seq(Nat) :
        /\ list = IdsOf(id, OnlyIn(corpus[f], dic)) /\ Len(list) <= Len(corpus[f])
        /\ mem' = CopiedTo(mem, cache[f], list)
  BY <1>2, RewritingMakesNew
<1>4. /\ f \in 1..Len(cache) /\ Len(cache) \in Nat /\ Len(list) \in Nat
      /\ \A g \in 1..Len(cache) : /\ cache[g] \in Cell /\ corpus[g] \in Seq(Keys)
                                  /\ Len(corpus[g]) \in Nat /\ g \in 1..Len(corpus)
  BY <1>1, Positions
<1>. HIDE DEF f
\* The new list is not longer than the old one, so it meets no other.
<1>5. ASSUME NEW g \in 1..Len(cache), NEW ids, Len(ids) \in 0..Len(corpus[g]), g # f,
             At(mem, cache[g], ids)
      PROVE  At(mem', cache[g], ids)
  <2>0. Len(corpus[g]) \in Nat
    BY <1>4
  <2>1. Len(ids) \in Nat /\ Len(ids) <= Len(corpus[g])
    BY <1>5, <2>0
  <2>2. CASE g < f
    <3>1. EndsBefore(cache[g], Taken(g), cache[f])
      BY <1>1, <1>4, <2>2 DEF Layout
    <3>2. EndsBefore(cache[g], Len(ids) + 1, cache[f])
      BY <1>4, <2>1, <3>1 DEF EndsBefore, Taken, Cell
    <3>. QED BY <1>3, <1>4, <1>5, <2>1, <3>2, CopiedElsewhere
  <2>3. CASE f < g
    <3>1. EndsBefore(cache[f], Taken(f), cache[g])
      BY <1>1, <1>4, <2>3 DEF Layout
    <3>2. EndsBefore(cache[f], Len(list) + 1, cache[g])
      BY <1>3, <1>4, <3>1 DEF EndsBefore, Taken, Cell
    <3>. QED BY <1>3, <1>4, <1>5, <2>1, <3>2, CopiedElsewhere
  <2>. QED BY <1>4, <1>5, <2>2, <2>3
<1>6. ASSUME NEW g \in 1..rewritten' PROVE New(g)'
  <2>1. At(mem', cache[g], IdsOf(id, OnlyIn(corpus[g], dic)))
    <3>1. CASE g = f
      BY <1>3, <1>4, <3>1, CopiedHere
    <3>2. CASE g \in 1..rewritten
      <4>1. At(mem, cache[g], IdsOf(id, OnlyIn(corpus[g], dic)))
        BY <1>1, <3>2 DEF New
      <4>2. g \in 1..Len(cache) /\ g # f
        BY <1>1, <3>2 DEF f
      <4>3. Len(IdsOf(id, OnlyIn(corpus[g], dic))) \in 0..Len(corpus[g])
        <5>1. OnlyIn(corpus[g], dic) \in Seq(Keys) /\ Len(OnlyIn(corpus[g], dic)) <= Len(corpus[g])
          BY <1>4, <4>2, OnlyInShorter
        <5>. QED BY <5>1, LenOfIds
      <4>. QED BY <1>5, <4>1, <4>2, <4>3
    <3>. QED BY <1>1, <3>1, <3>2 DEF f
  <2>. QED BY <1>1, <2>1 DEF New
<1>7. Renumbered(old)'
  <2>1. ASSUME NEW g \in (rewritten' + 1)..Len(cache)
        PROVE  At(mem', cache[g], IdsOf(old, corpus[g]))
    <3>1. g \in 1..Len(cache) /\ g # f /\ g \in (rewritten + 1)..Len(cache)
      BY <1>1 DEF f
    <3>2. At(mem, cache[g], IdsOf(old, corpus[g]))
      BY <1>2, <3>1 DEF Renumbered
    <3>3. Len(IdsOf(old, corpus[g])) \in 0..Len(corpus[g])
      BY <1>4, <3>1, LenOfIds
    <3>. QED BY <1>5, <3>1, <3>2, <3>3
  <2>. QED BY <1>1, <1>2, <2>1 DEF Renumbered
<1>8. Layout'
  <2>1. ASSUME NEW c \in DOMAIN mem' PROVE c \in Cell /\ c.li < fl.chunks /\ c.pi < size
    <3>1. CASE c \in DOMAIN mem
      BY <1>1, <3>1 DEF Layout, Cell
    <3>2. CASE c \in Cells(cache[f], Len(list) + 1)
      <4>1. PICK j \in 0..(Len(list) + 1 - 1) : c = [li |-> cache[f].li, pi |-> cache[f].pi + j]
        BY <3>2 DEF Cells
      <4>2. At(mem, cache[f], IdsOf(old, corpus[f]))
        BY <1>1, <1>2, <1>4 DEF Renumbered, f
      <4>3. Len(IdsOf(old, corpus[f])) = Len(corpus[f])
        BY <1>4, LenOfIds
      <4>4. j + 1 \in 1..(Len(corpus[f]) + 1) /\ cache[f].pi + (j + 1) - 1 = cache[f].pi + j
        BY <1>3, <1>4 DEF Cell
      <4>5. c \in DOMAIN mem
        BY <4>1, <4>2, <4>3, <4>4 DEF At
      <4>. QED BY <1>1, <4>5 DEF Layout, Cell
    <3>. QED BY <1>3, <3>1, <3>2 DEF CopiedTo
  <2>2. \A g : Taken(g)' = Taken(g)
    BY <1>1 DEF Taken
  <2>. QED BY <1>1, <2>1, <2>2 DEF Layout, EndsBefore, Cell
<1>9. rewritten' \in 0..Len(cache)
  BY <1>1, <1>4 DEF f
<1>. QED BY <1>1, <1>6, <1>7, <1>8, <1>9 DEF ListsIInv

\* The steps between the loops move no list.
LEMMA OtherStepsKeepLists ==
  ASSUME ListsIInv, dic \subseteq visited, StopRenumbering \/ StopRewriting PROVE ListsIInv'
<1>1. /\ Layout /\ pos = Len(corpus) + 1 /\ rewritten \in 0..Len(cache)
      /\ \A f \in 1..Len(cache) : KeysIn(corpus[f], dic \cup visited)
      /\ \A f \in 1..rewritten : New(f)
      /\ UNCHANGED <<corpus, pos, memory, dic, id, visited, old2new, rewritten>>
  BY DEF ListsIInv, StopRenumbering, StopRewriting, position, dictionary, loops
<1>2. Layout' /\ mem' = mem /\ cache' = cache
  BY <1>1, LayoutStays DEF memory
<1>3. \A f \in 1..rewritten : New(f)'
  BY <1>1, <1>2 DEF New
<1>4. PICK old : Renumbered(old)
  BY DEF ListsIInv, StopRenumbering, StopRewriting
<1>5. Renumbered(old)'
  BY <1>1, <1>2, <1>4 DEF Renumbered
<1>6. CASE StopRenumbering
  <2>1. phase' = "rewriting"
    BY <1>6 DEF StopRenumbering
  <2>. QED BY <1>1, <1>2, <1>3, <1>5, <2>1 DEF ListsIInv
<1>7. CASE StopRewriting
  <2>1. phase' = "done" /\ rewritten = Len(cache)
    BY <1>7 DEF StopRewriting
  <2>. QED BY <1>1, <1>2, <1>3, <2>1 DEF ListsIInv
<1>. QED BY <1>6, <1>7

\* The cached lists lie apart from each other in their chunks, and are those of the keys.
THEOREM ListsInvariance == Spec => []ListsIInv
<1>1. IInv /\ ListsIInv /\ [Next]_vars => ListsIInv'
  <2>1. SUFFICES ASSUME IInv, ListsIInv, [Next]_vars PROVE ListsIInv'
    OBVIOUS
  <2>2. /\ Numbers
        /\ phase = "building" => Compact(dic, maxid)
        /\ phase = "rewriting" => dic \subseteq visited
    BY <2>1 DEF IInv
  <2>3. CASE NewKey \/ KnownKey \/ AddToCache
    BY <2>1, <2>2, <2>3, BuildingKeepsLists
  <2>4. CASE StopBuilding
    BY <2>1, <2>2, <2>4, StopKeepsLists DEF StopBuilding
  <2>5. ASSUME NEW k \in Keys, Renumber(k) \/ Erase(k) PROVE ListsIInv'
    BY <2>1, <2>2, <2>5, RenumberingKeepsLists
  <2>6. CASE Rewrite
    BY <2>1, <2>2, <2>6, RewritingKeepsLists DEF Rewrite
  <2>7. CASE StopRenumbering \/ StopRewriting
    BY <2>1, <2>2, <2>7, OtherStepsKeepLists DEF StopRenumbering, StopRewriting
  <2>8. CASE UNCHANGED vars
    <3>1. UNCHANGED <<corpus, pos, feature, memory, dic, id, phase, visited, old2new, rewritten>>
      BY <2>8 DEF vars, position, dictionary, loops
    <3>2. Layout' /\ mem' = mem /\ cache' = cache
      BY <2>1, <3>1, LayoutStays DEF memory, ListsIInv
    <3>. QED BY <2>1, <3>1, <3>2 DEF ListsIInv, Built, Renumbered, New
  <2>. QED BY <2>1, <2>3, <2>4, <2>5, <2>6, <2>7, <2>8 DEF Next
<1>. QED BY <1>1, InitLists, Invariance, PTL DEF Spec

\* For every corpus and chunks of every size: each cached list is that of the keys of its
\* position that are left, with the ids they have now.
THEOREM ListsAreAlwaysOfTheirKeys == Spec => []ListsAreOfTheirKeys
<1>1. ASSUME ListsIInv PROVE ListsAreOfTheirKeys
  <2>1. SUFFICES ASSUME phase \in {"building", "done"}
        PROVE  /\ Len(cache) = pos - 1
               /\ \A f \in 1..Len(cache) :
                    PointsTo(cache[f], IdsOf(id, OnlyIn(corpus[f], dic)))
    BY DEF ListsAreOfTheirKeys, IdsOf
  <2>2. Layout
    BY <1>1 DEF ListsIInv
  <2>3. ASSUME NEW f \in 1..Len(cache) PROVE New(f)
    <3>1. CASE phase = "building"
      <4>1. KeysIn(corpus[f], dic) /\ At(mem, cache[f], IdsOf(id, corpus[f]))
        BY <1>1, <3>1 DEF ListsIInv, Built
      <4>. QED BY <2>2, <4>1, AllStay
    <3>2. CASE phase = "done"
      BY <1>1, <3>2 DEF ListsIInv
    <3>. QED BY <2>1, <3>1, <3>2
  <2>. QED BY <2>2, <2>3, PointersAreAt DEF New, Layout
<1>. QED BY <1>1, ListsInvariance, PTL

--------------------------------------------------------------------------
\* The occurrences of a key so far.
SoFar(k) ==
  {at \in Occurrences(k) : at[1] < pos \/ (at[1] = pos /\ at[2] <= Len(feature))}

Occurring == {k \in Keys : SoFar(k) # {}}

\* The inductive invariant of the counts.
CountsIInv ==
  /\ count \in [Keys -> Nat] /\ freq \in Freqs
  /\ \A k \in Keys : count[k] = Cardinality(SoFar(k))
  /\ phase = "building" => dic = Occurring
  /\ phase \in {"renumbering", "rewriting"} =>
       dic \cup visited = Occurring /\ \A k \in visited : k \in dic <=> count[k] >= freq
  /\ phase = "done" => dic = {k \in Occurring : count[k] >= freq}

\* The places of the corpus are finitely many.
LEMMA OccurrencesAreFinite ==
  ASSUME Layout, NEW k PROVE IsFiniteSet(SoFar(k)) /\ IsFiniteSet(Occurrences(k))
<1>1. Len(corpus) \in Nat /\ size \in Nat
  BY Positions, ChunkAssumption
<1>2. IsFiniteSet((1..Len(corpus)) \X (1..size))
  <2>1. IsFiniteSet(1..Len(corpus)) /\ IsFiniteSet(1..size)
    BY <1>1, FS_Interval
  <2>. QED BY <2>1, FS_Product
<1>3. Occurrences(k) \subseteq (1..Len(corpus)) \X (1..size)
  BY DEF Occurrences
<1>4. SoFar(k) \subseteq Occurrences(k)
  BY DEF SoFar
<1>. QED BY <1>2, <1>3, <1>4, FS_Subset

\* The occurrence of a key that is looked up is one more of this key, and of no other.
LEMMA OneMore ==
  ASSUME Layout, feature \in Seq(Nat), HasKey, UNCHANGED <<corpus, pos>>,
         NEW i \in Nat, feature' = Append(feature, i), NEW k
  PROVE  LET at == <<pos, Len(feature) + 1>>
         IN  /\ at \notin SoFar(k)
             /\ SoFar(k)' = IF k = Key THEN SoFar(k) \cup {at} ELSE SoFar(k)
<1>. DEFINE at == <<pos, Len(feature) + 1>>
<1>1. /\ pos \in 1..Len(corpus) /\ corpus[pos] \in Seq(Keys)
      /\ Key = corpus[pos][Len(feature) + 1]
      /\ Len(feature) \in Nat /\ Len(feature) + 1 <= Len(corpus[pos])
      /\ Len(corpus[pos]) \in Nat /\ Len(corpus[pos]) < size /\ size \in Nat
      /\ Len(feature') = Len(feature) + 1
  BY KeyOfPosition, Positions, ChunkAssumption DEF Taken
<1>. HIDE DEF Key
<1>2. at \notin SoFar(k)
  BY <1>1 DEF SoFar
<1>3. at[1] = pos /\ at[2] = Len(feature) + 1 /\ at \in (1..Len(corpus)) \X (1..size)
  BY <1>1
<1>4. at \in Occurrences(k) <=> k = Key
  BY <1>1, <1>3 DEF Occurrences
<1>5. SoFar(k)' = {a \in Occurrences(k) :
                     a[1] < pos \/ (a[1] = pos /\ a[2] <= Len(feature) + 1)}
  BY <1>1 DEF SoFar, Occurrences
<1>6. ASSUME NEW a \in Occurrences(k)
      PROVE  (a[1] = pos /\ a[2] <= Len(feature) + 1)
               <=> (a[1] = pos /\ a[2] <= Len(feature)) \/ a = at
  <2>1. a \in (1..Len(corpus)) \X (1..size)
    BY DEF Occurrences
  <2>2. a = <<a[1], a[2]>> /\ a[1] \in Int /\ a[2] \in Int
    BY <2>1
  <2>. QED BY <1>1, <1>3, <2>2
<1>. HIDE DEF at
<1>7. \A a : a \in SoFar(k)' <=> a \in SoFar(k) \/ (a = at /\ k = Key)
  BY <1>4, <1>5, <1>6, <1>3 DEF SoFar
<1>. QED BY <1>2, <1>7 DEF at

\* A position that is complete has no further occurrences.
LEMMA NoneMore ==
  ASSUME Layout, pos \in 1..Len(corpus), Len(feature) = Len(corpus[pos]),
         corpus' = corpus, pos' = pos + 1, feature' = <<>>, NEW k
  PROVE  SoFar(k)' = SoFar(k)
<1>1. Len(corpus[pos]) \in Nat /\ Len(feature') = 0
  BY Positions
<1>2. SoFar(k)' = {a \in Occurrences(k) : a[1] < pos + 1 \/ (a[1] = pos + 1 /\ a[2] <= 0)}
  BY <1>1 DEF SoFar, Occurrences
<1>3. ASSUME NEW a \in Occurrences(k)
      PROVE  (a[1] < pos + 1 \/ (a[1] = pos + 1 /\ a[2] <= 0))
               <=> a[1] < pos \/ (a[1] = pos /\ a[2] <= Len(feature))
  <2>1. a[1] \in 1..Len(corpus) /\ a[2] \in 1..size /\ a[2] <= Len(corpus[a[1]])
    BY DEF Occurrences
  <2>2. size \in Nat /\ Len(corpus) \in Nat /\ pos \in Nat
    BY Positions, ChunkAssumption
  <2>. QED BY <2>1, <2>2
<1>. QED BY <1>2, <1>3 DEF SoFar

\* At the end all occurrences have been counted.
LEMMA AllCounted ==
  ASSUME Layout, pos = Len(corpus) + 1, NEW k PROVE SoFar(k) = Occurrences(k)
<1>1. ASSUME NEW a \in Occurrences(k) PROVE a[1] < pos
  <2>1. a[1] \in 1..Len(corpus) /\ Len(corpus) \in Nat
    BY Positions DEF Occurrences
  <2>. QED BY <2>1
<1>. QED BY <1>1 DEF SoFar

\* Nothing is counted yet.
LEMMA InitCounts == ASSUME Init PROVE CountsIInv
<1>1. /\ pos = 1 /\ feature = <<>> /\ dic = {} /\ count = [k \in Keys |-> 0]
      /\ freq \in Freqs /\ phase = "building" /\ Len(feature) = 0
  BY DEF Init
<1>2. ASSUME NEW k PROVE SoFar(k) = {}
  <2>1. \A a \in Occurrences(k) : a[1] \in 1..Len(corpus) /\ a[2] \in 1..size
    BY DEF Occurrences
  <2>2. Len(corpus) \in Nat /\ size \in Nat
    BY PositionsAssumption, ChunkAssumption DEF Init
  <2>. QED BY <1>1, <2>1, <2>2 DEF SoFar
<1>3. Occurring = {}
  BY <1>2 DEF Occurring
<1>4. Cardinality({}) = 0
  BY FS_EmptySet
<1>. QED BY <1>1, <1>2, <1>3, <1>4 DEF CountsIInv

\* getID counts.
LEMMA GetIdKeepsCounts ==
  ASSUME Layout, Numbers, CountsIInv, NewKey \/ KnownKey PROVE CountsIInv'
<1>. DEFINE at == <<pos, Len(feature) + 1>>
<1>1. /\ HasKey /\ UNCHANGED <<corpus, pos, freq, phase>>
      /\ phase = "building" /\ dic' = dic \cup {Key}
      /\ feature \in Seq(Nat) /\ id \in [Keys -> Nat] /\ maxid \in Nat
  BY DEF Numbers, NewKey, KnownKey, HasKey, Building
<1>2. /\ count \in [Keys -> Nat] /\ freq \in Freqs /\ dic = Occurring
      /\ \A k \in Keys : count[k] = Cardinality(SoFar(k))
  BY <1>1 DEF CountsIInv
<1>3. Key \in Keys
  BY <1>1, KeyOfPosition
<1>. HIDE DEF Key
<1>4. PICK i \in Nat : feature' = Append(feature, i)
  BY <1>1, <1>3 DEF NewKey, KnownKey
<1>5. \A k : /\ at \notin SoFar(k)
             /\ SoFar(k)' = IF k = Key THEN SoFar(k) \cup {at} ELSE SoFar(k)
  BY <1>1, <1>4, OneMore
<1>6. \A k : IsFiniteSet(SoFar(k))
  BY OccurrencesAreFinite
<1>7. count' = [count EXCEPT ![Key] = count[Key] + 1]
  <2>1. CASE NewKey
    <3>1. SoFar(Key) = {}
      BY <1>2, <1>3, <2>1 DEF NewKey, Occurring
    <3>2. count[Key] = 0
      BY <1>2, <1>3, <3>1, FS_EmptySet
    <3>. QED BY <2>1, <3>2 DEF NewKey
  <2>2. CASE KnownKey
    BY <2>2 DEF KnownKey
  <2>. QED BY <2>1, <2>2
<1>. HIDE DEF at
<1>8. ASSUME NEW k \in Keys PROVE count'[k] = Cardinality(SoFar(k)') /\ count'[k] \in Nat
  <2>1. CASE k = Key
    <3>1. Cardinality(SoFar(k) \cup {at}) = Cardinality(SoFar(k)) + 1
      BY <1>5, <1>6, FS_AddElement
    <3>2. SoFar(k)' = SoFar(k) \cup {at}
      BY <1>5, <2>1
    <3>3. count'[k] = count[k] + 1 /\ count[k] \in Nat /\ count[k] = Cardinality(SoFar(k))
      BY <1>2, <1>3, <1>7, <2>1
    <3>. QED BY <3>1, <3>2, <3>3
  <2>2. CASE k # Key
    <3>1. SoFar(k)' = SoFar(k)
      BY <1>5, <2>2
    <3>2. count'[k] = count[k] /\ count[k] \in Nat /\ count[k] = Cardinality(SoFar(k))
      BY <1>2, <1>3, <1>7, <2>2
    <3>. QED BY <3>1, <3>2
  <2>. QED BY <2>1, <2>2
<1>9. dic' = {k \in Keys : SoFar(k)' # {}}
  BY <1>1, <1>2, <1>3, <1>5 DEF Occurring
<1>10. count' \in [Keys -> Nat]
  BY <1>2, <1>3, <1>7
<1>. QED BY <1>1, <1>2, <1>8, <1>9, <1>10 DEF CountsIInv, Occurring

\* The other steps count nothing; shrink drops what has been counted too seldom.
LEMMA OthersKeepCounts ==
  ASSUME Layout, Numbers, CountsIInv, phase = "rewriting" => dic \subseteq visited,
         phase = "building" => visited = {},
         phase # "building" => pos = Len(corpus) + 1,
         \/ AddToCache \/ StopBuilding \/ StopRenumbering \/ Rewrite \/ StopRewriting
         \/ \E k \in Keys : Renumber(k) \/ Erase(k)
         \/ UNCHANGED vars
  PROVE  CountsIInv'
<1>1. UNCHANGED <<count, freq>>
  BY DEF AddToCache, StopBuilding, StopRenumbering, Rewrite, StopRewriting, Renumber, Erase,
         vars, position, dictionary
<1>2. \A k : SoFar(k)' = SoFar(k)
  <2>1. CASE AddToCache
    <3>1. /\ pos \in 1..Len(corpus) /\ Len(feature) = Len(corpus[pos])
          /\ corpus' = corpus /\ pos' = pos + 1 /\ feature' = <<>>
      BY <2>1, Positions DEF AddToCache, Building
    <3>. QED BY <3>1, NoneMore
  <2>2. CASE ~AddToCache
    <3>1. UNCHANGED <<corpus, pos, feature>>
      BY <2>2 DEF StopBuilding, StopRenumbering, Rewrite, StopRewriting, Renumber, Erase,
                  vars, position
    <3>. QED BY <3>1 DEF SoFar, Occurrences
  <2>. QED BY <2>1, <2>2
<1>3. Occurring' = Occurring
  BY <1>2 DEF Occurring
<1>4. /\ count' \in [Keys -> Nat] /\ freq' \in Freqs
      /\ \A k \in Keys : count'[k] = Cardinality(SoFar(k)')
  BY <1>1, <1>2 DEF CountsIInv
<1>5. /\ count \in [Keys -> Nat] /\ freq \in Nat /\ Occurring \subseteq Keys
      /\ \A k \in Occurring : count[k] >= 1
  <2>1. ASSUME NEW k \in Occurring PROVE count[k] >= 1
    <3>1. IsFiniteSet(SoFar(k)) /\ SoFar(k) # {} /\ k \in Keys
      BY OccurrencesAreFinite DEF Occurring
    <3>2. Cardinality(SoFar(k)) # 0 /\ Cardinality(SoFar(k)) \in Nat
      BY <3>1, FS_EmptySet, FS_CardinalityType
    <3>. QED BY <3>1, <3>2 DEF CountsIInv
  <2>. QED BY <2>1, FreqsAssumption DEF CountsIInv, Occurring
<1>6. CASE AddToCache
  <2>1. phase = "building" /\ phase' = "building" /\ dic' = dic
    BY <1>6 DEF AddToCache, Building, dictionary
  <2>. QED BY <1>3, <1>4, <2>1 DEF CountsIInv
<1>7. CASE StopBuilding
  <2>1. /\ phase = "building" /\ dic' = dic /\ visited' = visited /\ visited = {} /\ dic = Occurring
        /\ phase' = IF freq <= 1 THEN "done" ELSE "renumbering"
    BY <1>7 DEF StopBuilding, dictionary, loops, CountsIInv
  <2>2. freq <= 1 => dic = {k \in Occurring : count[k] >= freq}
    BY <1>5, <2>1
  <2>. QED BY <1>1, <1>3, <1>4, <2>1, <2>2 DEF CountsIInv
<1>8. ASSUME NEW k \in Keys, Renumber(k) \/ Erase(k) PROVE CountsIInv'
  <2>1. /\ phase = "renumbering" /\ phase' = "renumbering" /\ visited' = visited \cup {k}
        /\ k \in dic /\ k \notin visited
    BY <1>8 DEF Renumber, Erase, Visit
  <2>2. dic \cup visited = Occurring /\ \A j \in visited : j \in dic <=> count[j] >= freq
    BY <2>1 DEF CountsIInv
  <2>3. CASE Renumber(k)
    <3>1. dic' = dic /\ count[k] >= freq
      BY <2>3 DEF Renumber
    <3>2. /\ dic' \cup visited' = Occurring
          /\ \A j \in visited' : j \in dic' <=> count[j] >= freq
      BY <2>1, <2>2, <3>1
    <3>. QED BY <1>1, <1>3, <1>4, <2>1, <3>2 DEF CountsIInv
  <2>4. CASE Erase(k)
    <3>1. dic' = dic \ {k} /\ ~(count[k] >= freq)
      BY <1>5, <2>4 DEF Erase
    <3>2. /\ dic' \cup visited' = Occurring
          /\ \A j \in visited' : j \in dic' <=> count[j] >= freq
      BY <2>1, <2>2, <3>1
    <3>. QED BY <1>1, <1>3, <1>4, <2>1, <3>2 DEF CountsIInv
  <2>. QED BY <1>8, <2>3, <2>4
<1>9. CASE StopRenumbering \/ Rewrite
  <2>1. /\ phase \in {"renumbering", "rewriting"} /\ phase' = "rewriting"
        /\ UNCHANGED <<dic, visited>>
    BY <1>9 DEF StopRenumbering, Rewrite, dictionary, loops
  <2>. QED BY <1>1, <1>3, <1>4, <2>1 DEF CountsIInv
<1>10. CASE StopRewriting
  <2>1. phase = "rewriting" /\ phase' = "done" /\ dic' = dic /\ dic \subseteq visited
    BY <1>10 DEF StopRewriting, dictionary
  <2>2. dic \cup visited = Occurring /\ \A j \in visited : j \in dic <=> count[j] >= freq
    BY <2>1 DEF CountsIInv
  <2>3. dic = {j \in Occurring : count[j] >= freq}
    BY <2>1, <2>2
  <2>. QED BY <1>1, <1>3, <1>4, <2>1, <2>3 DEF CountsIInv
<1>11. CASE UNCHANGED vars
  <2>1. UNCHANGED <<dic, visited, phase>>
    BY <1>11 DEF vars, dictionary, loops
  <2>. QED BY <1>1, <1>3, <1>4, <2>1 DEF CountsIInv
<1>. QED BY <1>6, <1>7, <1>8, <1>9, <1>10, <1>11

\* The dictionary holds the keys that occurred, with the numbers of their occurrences.
THEOREM CountsInvariance == Spec => []CountsIInv
<1>1. IInv /\ ListsIInv /\ CountsIInv /\ [Next]_vars => CountsIInv'
  <2>1. SUFFICES ASSUME IInv, ListsIInv, CountsIInv, [Next]_vars PROVE CountsIInv'
    OBVIOUS
  <2>2. /\ Layout /\ Numbers
        /\ phase = "rewriting" => dic \subseteq visited
        /\ phase = "building" => visited = {}
        /\ phase # "building" => pos = Len(corpus) + 1
    BY <2>1 DEF IInv, ListsIInv
  <2>3. CASE NewKey \/ KnownKey
    BY <2>1, <2>2, <2>3, GetIdKeepsCounts
  <2>4. CASE ~(NewKey \/ KnownKey)
    BY <2>1, <2>2, <2>4, OthersKeepCounts DEF Next
  <2>. QED BY <2>3, <2>4
<1>. QED BY <1>1, InitCounts, Invariance, ListsInvariance, PTL DEF Spec

\* A key stays in the dictionary when it occurs as often as the frequency asks for,
\* counted over the whole corpus, for every corpus and every frequency.
THEOREM FrequentKeysAlwaysStay == Spec => []FrequentKeysStay
<1>1. ASSUME ListsIInv, CountsIInv PROVE FrequentKeysStay
  <2>1. SUFFICES ASSUME phase = "done"
        PROVE dic = {k \in Keys : Cardinality(Occurrences(k)) >= freq /\ Occurrences(k) # {}}
    BY DEF FrequentKeysStay
  <2>2. Layout /\ pos = Len(corpus) + 1
    BY <1>1, <2>1 DEF ListsIInv
  <2>3. \A k : SoFar(k) = Occurrences(k)
    BY <2>2, AllCounted
  <2>. QED BY <1>1, <2>1, <2>3 DEF CountsIInv, Occurring
<1>. QED BY <1>1, ListsInvariance, CountsInvariance, PTL

\* The dictionary, the loops and the free list keep their types, and nothing is written
\* outside of a chunk.
THEOREM TypeCorrect == Spec => []TypeOK
<1>1. ASSUME IInv, ListsIInv, CountsIInv PROVE TypeOK
  <2>1. rewritten \in Nat
    BY <1>1, Positions DEF ListsIInv
  <2>. QED BY <1>1, <2>1 DEF TypeOK, IInv, Numbers, ListsIInv, Layout, CountsIInv
<1>. QED BY <1>1, Invariance, ListsInvariance, CountsInvariance, PTL
====
