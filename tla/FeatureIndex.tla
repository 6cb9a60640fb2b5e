---- MODULE FeatureIndex ----
(***************************************************************************)
(* EncoderFeatureIndex and FeatureCache of CRF++: the features of all      *)
(* positions of the training sentences are turned into ids and cached, as  *)
(* lists that end with -1, in the memory of a free list.  Then the keys    *)
(* that are too rare are dropped, the others get new ids, and every cached *)
(* list is rewritten in its place.                                         *)
(*                                                                         *)
(* A key is a number; the dictionary is ordered by keys.  The id of a key  *)
(* is the first of its weights: one for each label or, if its template is  *)
(* a bigram, each pair of labels.                                          *)
(***************************************************************************)
EXTENDS Integers, Sequences, FiniteSets, FreeList

CONSTANTS
  Keys,       \* the keys the templates make
  Unigrams,   \* those that begin with 'U'
  ysize,      \* y_.size(), the number of labels
  Corpora,    \* by corpus: the keys of each position, unigrams before bigrams
  Freqs       \* the values of the option -f

\* There are labels, and keys are in the order of the dictionary.
ASSUME KeysAssumption == Keys \subseteq Nat /\ Unigrams \subseteq Keys /\ ysize \in Nat \ {0}

\* A position has fewer keys than fit into a chunk with their end.
ASSUME PositionsAssumption ==
  \A c \in Corpora : c \in Seq(Seq(Keys)) /\ \A f \in 1..Len(c) : Len(c[f]) + 1 < size

\* The option is an unsigned number.
ASSUME FreqsAssumption == Freqs \subseteq Nat

VARIABLES
  corpus, freq,
  pos, feature,         \* the position in the corpus, and its ids so far
  dic, id, count,       \* dic_: the keys in it, their ids and how often they occurred
  maxid,
  fl, mem, cache,       \* the free list, its memory, and the cached lists
  phase,
  visited, old2new, new_maxid, rewritten  \* the loops of shrink

position   == <<corpus, freq, pos, feature>>
dictionary == <<dic, id, count>>
memory     == <<fl, mem, cache>>
loops      == <<visited, old2new, new_maxid, rewritten>>
vars       == <<position, dictionary, maxid, memory, phase, loops>>

--------------------------------------------------------------------------
\* No memory, and no map.
Empty == [c \in {} |-> 0]

Init ==
  /\ corpus \in Corpora /\ freq \in Freqs
  /\ pos = 1 /\ feature = <<>>
  /\ dic = {} /\ id = [k \in Keys |-> 0] /\ count = [k \in Keys |-> 0]
  /\ maxid = 0
  /\ fl = Unused /\ mem = Empty /\ cache = <<>>
  /\ phase = "building"
  /\ visited = {} /\ old2new = Empty /\ new_maxid = 0 /\ rewritten = 0

\* Mutant of Width: every key has a weight for each label.
WidthOfUnigram(k) == ysize

Width(k) == IF k \in Unigrams THEN ysize ELSE ysize * ysize

Building == phase = "building" /\ pos <= Len(corpus)
Key      == corpus[pos][Len(feature) + 1]
HasKey   == Building /\ Len(feature) < Len(corpus[pos])

\* getID of a key that is not in the dictionary, and of one that is.
NewKey ==
  /\ HasKey /\ Key \notin dic
  /\ feature' = Append(feature, maxid)
  /\ dic' = dic \cup {Key}
  /\ id' = [id EXCEPT ![Key] = maxid]
  /\ count' = [count EXCEPT ![Key] = 1]
  /\ maxid' = maxid + Width(Key)
  /\ UNCHANGED <<corpus, freq, pos, memory, phase, loops>>

\* Mutant of KnownKey: the occurrence is not counted.
KnownKeyUncounted ==
  /\ HasKey /\ Key \in dic
  /\ feature' = Append(feature, id[Key])
  /\ UNCHANGED <<corpus, freq, pos, dictionary, maxid, memory, phase, loops>>

KnownKey ==
  /\ HasKey /\ Key \in dic
  /\ feature' = Append(feature, id[Key])
  /\ count' = [count EXCEPT ![Key] = @ + 1]
  /\ UNCHANGED <<corpus, freq, pos, dic, id, maxid, memory, phase, loops>>

\* The list and its end are copied to where p points.
Copied(p, list) ==
  LET ended == Append(list, -1)
      cells == Cells(p, Len(ended))
  IN  [c \in DOMAIN mem \cup cells |-> IF c \in cells THEN ended[c.pi - p.pi + 1] ELSE mem[c]]

\* FeatureCache::add.
AddToCache ==
  /\ Building /\ Len(feature) = Len(corpus[pos])
  /\ LET p == Place(fl, Len(feature) + 1)
     IN  cache' = Append(cache, p) /\ mem' = Copied(p, feature)
  /\ fl' = Alloc(fl, Len(feature) + 1)
  /\ pos' = pos + 1 /\ feature' = <<>>
  /\ UNCHANGED <<corpus, freq, dictionary, maxid, phase, loops>>

--------------------------------------------------------------------------
\* shrink has nothing to do for a frequency of 1.
StopBuilding ==
  /\ phase = "building" /\ pos > Len(corpus)
  /\ phase' = IF freq <= 1 THEN "done" ELSE "renumbering"
  /\ UNCHANGED <<position, dictionary, maxid, memory, loops>>

\* The next key of the dictionary in the loop of shrink.
Visit(k) ==
  /\ phase = "renumbering"
  /\ k \in dic \ visited
  /\ \A l \in dic \ visited : k <= l
  /\ visited' = visited \cup {k}

\* Mutant of Renumber: the map is from new to old.
RenumberBackwards(k) ==
  /\ Visit(k) /\ count[k] >= freq
  /\ old2new' = [i \in DOMAIN old2new \cup {new_maxid} |->
                   IF i = new_maxid THEN id[k] ELSE old2new[i]]
  /\ id' = [id EXCEPT ![k] = new_maxid]
  /\ new_maxid' = new_maxid + Width(k)
  /\ UNCHANGED <<position, dic, count, maxid, memory, phase, rewritten>>

Renumber(k) ==
  /\ Visit(k) /\ count[k] >= freq
  /\ old2new' = [i \in DOMAIN old2new \cup {id[k]} |->
                   IF i = id[k] THEN new_maxid ELSE old2new[i]]
  /\ id' = [id EXCEPT ![k] = new_maxid]
  /\ new_maxid' = new_maxid + Width(k)
  /\ UNCHANGED <<position, dic, count, maxid, memory, phase, rewritten>>

Erase(k) ==
  /\ Visit(k) /\ count[k] < freq
  /\ dic' = dic \ {k}
  /\ UNCHANGED <<position, id, count, maxid, memory, phase, old2new, new_maxid, rewritten>>

StopRenumbering ==
  /\ phase = "renumbering" /\ dic \subseteq visited
  /\ phase' = "rewriting"
  /\ UNCHANGED <<position, dictionary, maxid, memory, loops>>

\* The list that p points to.
Listed(p, n) == mem[[li |-> p.li, pi |-> p.pi + n - 1]]
Length(p)    == CHOOSE n \in 0..size : Listed(p, n + 1) = -1 /\ \A j \in 1..n : Listed(p, j) # -1

\* The members of a list that are in S, in their order.
OnlyIn(list, S) ==
  LET taken[n \in 0..Len(list)] ==
        IF n = 0 THEN <<>>
        ELSE IF list[n] \in S THEN Append(taken[n - 1], list[n]) ELSE taken[n - 1]
  IN  taken[Len(list)]

\* FeatureCache::shrink, one list after the other.
Rewrite ==
  /\ phase = "rewriting" /\ rewritten < Len(cache)
  /\ LET p    == cache[rewritten + 1]
         old  == [n \in 1..Length(p) |-> Listed(p, n)]
         kept == OnlyIn(old, DOMAIN old2new)
     IN  mem' = Copied(p, [n \in 1..Len(kept) |-> old2new[kept[n]]])
  /\ rewritten' = rewritten + 1
  /\ UNCHANGED <<position, dictionary, maxid, fl, cache, phase, visited, old2new, new_maxid>>

StopRewriting ==
  /\ phase = "rewriting" /\ rewritten = Len(cache)
  /\ maxid' = new_maxid
  /\ phase' = "done"
  /\ UNCHANGED <<position, dictionary, memory, loops>>

Next ==
  \/ NewKey \/ KnownKey \/ AddToCache \/ StopBuilding
  \/ (\E k \in Keys : Renumber(k) \/ Erase(k)) \/ StopRenumbering
  \/ Rewrite \/ StopRewriting

Spec == Init /\ [][Next]_vars

--------------------------------------------------------------------------
\* The dictionary and the loops keep their types.  Nothing is written outside a
\* chunk of the free list.
TypeOK ==
  /\ corpus \in Corpora /\ freq \in Freqs
  /\ pos \in Nat \ {0} /\ feature \in Seq(Nat)
  /\ dic \subseteq Keys /\ id \in [Keys -> Nat] /\ count \in [Keys -> Nat]
  /\ maxid \in Nat /\ new_maxid \in Nat
  /\ phase \in {"building", "renumbering", "rewriting", "done"}
  /\ visited \subseteq Keys /\ rewritten \in Nat
  /\ fl \in [li : Nat, pi : 0..(size - 1), chunks : Nat]
  /\ \A c \in DOMAIN mem : c.li < fl.chunks /\ c.pi < size

\* The weights of a key, as calcCost looks them up: *f + y of a node, and
\* *f + y_left * y_.size() + y_right of a path.
Labels == 0..(ysize - 1)
Weights(k) ==
  IF k \in Unigrams THEN {id[k] + y : y \in Labels}
                    ELSE {id[k] + pair[1] * ysize + pair[2] : pair \in Labels \X Labels}

\* No two keys share a weight, every weight is within alpha, which has maxid of
\* them, and alpha has no other: while ids are given and after they are given anew.
WeightsAreTheirOwn ==
  phase \in {"building", "done"} =>
    /\ \A k, l \in dic : k # l => Weights(k) \cap Weights(l) = {}
    /\ UNION {Weights(k) : k \in dic} = 0..(maxid - 1)

\* p points to a list of these ids.
PointsTo(p, ids) ==
  \A n \in 1..(Len(ids) + 1) :
    /\ [li |-> p.li, pi |-> p.pi + n - 1] \in DOMAIN mem
    /\ Listed(p, n) = IF n > Len(ids) THEN -1 ELSE ids[n]

\* Each cached list is that of the keys of its position that are still in the
\* dictionary: no list is overwritten by another, and none is left with an id that
\* is gone or now belongs to another key.
ListsAreOfTheirKeys ==
  phase \in {"building", "done"} =>
    /\ Len(cache) = pos - 1
    /\ \A f \in 1..Len(cache) :
         LET kept == OnlyIn(corpus[f], dic)
         IN  PointsTo(cache[f], [n \in 1..Len(kept) |-> id[kept[n]]])

\* The places where a key is in the corpus.
Occurrences(k) ==
  {at \in (1..Len(corpus)) \X (1..size) :
     at[2] <= Len(corpus[at[1]]) /\ corpus[at[1]][at[2]] = k}

\* A key stays when it occurs freq times in the corpus, in however many positions,
\* and only then.
FrequentKeysStay ==
  phase = "done" =>
    dic = {k \in Keys : Cardinality(Occurrences(k)) >= freq /\ Occurrences(k) # {}}
====
