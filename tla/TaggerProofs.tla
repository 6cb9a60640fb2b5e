---- MODULE TaggerProofs ----
(***************************************************************************)
(* Proofs about Tagger, for every model, number of labels and sentence:    *)
(* what a tagger deletes is its own; the search for the N best labellings  *)
(* loses none and gives none twice; what it gives never gets cheaper; and  *)
(* Tagger implements NBest.                                                *)
(***************************************************************************)
EXTENDS Tagger, TLAPS, WellFoundedInduction

--------------------------------------------------------------------------
\* A set of numbers that is not empty has a least one: induction, as far as it can
\* be cited here.
LEMMA Least ==
  ASSUME NEW S \in SUBSET Nat, S # {}
  PROVE  \E n \in S : \A m \in S : n <= m
<1>. DEFINE R == OpToRel(<, Nat)
<1>1. IsWellFoundedOn(R, Nat)
  BY NatLessThanWellFounded
<1>2. \A x, y \in Nat : x < y => <<x, y>> \in R
  BY DEF OpToRel
<1>. HIDE DEF R
<1>3. PICK n \in S : \A y \in S : ~(<<y, n>> \in R)
  BY <1>1, WFMin
<1>4. \A m \in S : ~(m < n)
  BY <1>2, <1>3
<1>5. \A m \in S : n <= m
  BY <1>4
<1>. QED BY <1>5

\* Induction as far as it can be cited here: a set of numbers up to m that holds 0
\* and, with a number, the next one, holds them all.
LEMMA UpTo ==
  ASSUME NEW m \in Nat, NEW P \in SUBSET Nat, 0 \in P,
         \A n \in 0..(m - 1) : n \in P => n + 1 \in P
  PROVE  \A n \in 0..m : n \in P
<1>. DEFINE S == {n \in 0..m : n \notin P}
<1>1. SUFFICES ASSUME S # {} PROVE FALSE
  OBVIOUS
<1>2. S \in SUBSET Nat
  OBVIOUS
<1>3. \E n \in S : \A k \in S : n <= k
  <2>. HIDE DEF S
  <2>. QED BY <1>1, <1>2, Least
<1>4. PICK n \in S : \A k \in S : n <= k
  BY <1>3
<1>5. n \in 1..m /\ n - 1 \in 0..(m - 1) /\ n - 1 \notin S
  BY <1>4
<1>. QED BY <1>4, <1>5

\* f is what becomes of v by turns, the i-th of which is F[i].
Turns(f, v, F, m) == f = [i \in 0..m |-> IF i = 0 THEN v ELSE F[i][f[i - 1]]]

\* There is one, of any number of turns, within the set the turns stay in.
LEMMA SomeTurns ==
  ASSUME NEW V, NEW v \in V, NEW m \in Nat, NEW F \in [1..m -> [V -> V]]
  PROVE  \E f \in [0..m -> V] : Turns(f, v, F, m)
<1>. DEFINE P == {n \in Nat : n <= m => \E f \in [0..n -> V] : Turns(f, v, F, n)}
<1>1. 0 \in P
  <2>1. [n \in 0..0 |-> v] \in [0..0 -> V] /\ Turns([n \in 0..0 |-> v], v, F, 0)
    BY DEF Turns
  <2>. QED BY <2>1
<1>2. ASSUME NEW n \in 0..(m - 1), n \in P PROVE n + 1 \in P
  <2>1. PICK f \in [0..n -> V] : Turns(f, v, F, n)
    BY <1>2
  <2>. DEFINE g == [i \in 0..(n + 1) |-> IF i = n + 1 THEN F[n + 1][f[n]] ELSE f[i]]
  <2>2. \A i \in 0..n : f[i] = IF i = 0 THEN v ELSE F[i][f[i - 1]]
    BY <2>1 DEF Turns
  <2>3. (\A i \in 0..n : g[i] = f[i]) /\ g[n + 1] = F[n + 1][f[n]]
    OBVIOUS
  <2>4. F[n + 1][f[n]] \in V
    <3>1. n + 1 \in 1..m /\ n \in 0..n
      OBVIOUS
    <3>. QED BY <3>1
  <2>5. g \in [0..(n + 1) -> V]
    BY <2>4
  <2>. HIDE DEF g
  <2>6. ASSUME NEW i \in 0..(n + 1)
        PROVE  g[i] = IF i = 0 THEN v ELSE F[i][g[i - 1]]
    <3>1. CASE i = n + 1
      <4>1. i # 0 /\ i - 1 = n /\ g[n] = f[n]
        BY <2>3, <3>1
      <4>. QED BY <2>3, <3>1, <4>1
    <3>2. CASE i \in 0..n
      <4>1. i # 0 => i - 1 \in 0..n
        BY <3>2
      <4>2. i # 0 => g[i - 1] = f[i - 1]
        BY <2>3, <4>1
      <4>. QED BY <2>2, <2>3, <3>2, <4>2
    <3>. QED BY <3>1, <3>2
  <2>7. Turns(g, v, F, n + 1)
    <3>1. g = [i \in 0..(n + 1) |-> g[i]]
      BY <2>5
    <3>. QED BY <2>6, <3>1 DEF Turns
  <2>. QED BY <2>5, <2>7
<1>3. m \in P
  <2>. HIDE DEF P
  <2>1. P \in SUBSET Nat
    BY DEF P
  <2>2. \A n \in 0..m : n \in P
    BY <1>1, <1>2, <2>1, UpTo
  <2>. QED BY <2>2
<1>. QED BY <1>3

\* l leads among the first n labels.
Leads(l, n, score) ==
  /\ l \in 0..(n - 1)
  /\ \A m \in 0..(n - 1) : score[m] <= score[l] /\ (m < l => score[m] < score[l])

\* The loop over the labels ends at one of them.
LEMMA SomeLeads ==
  ASSUME NEW score \in [Labels -> Int]
  PROVE  \E l \in Labels : Leading(l, score)
<1>. DEFINE S == {n \in Nat : n \in 1..ysize /\ ~\E l \in 0..(n - 1) : Leads(l, n, score)}
<1>0. ysize \in Nat /\ ysize >= 1
  BY ScoresAssumption
<1>1. S = {}
  <2>1. SUFFICES ASSUME S # {} PROVE FALSE
    OBVIOUS
  <2>2. S \in SUBSET Nat
    OBVIOUS
  <2>3. \E n \in S : \A m \in S : n <= m
    <3>. HIDE DEF S
    <3>. QED BY <2>1, <2>2, Least
  <2>4. PICK n \in S : \A m \in S : n <= m
    BY <2>3
  <2>5. n \in 1..ysize /\ n \in Nat /\ ~\E l \in 0..(n - 1) : Leads(l, n, score)
    OBVIOUS
  <2>6. CASE n = 1
    <3>1. score[0] \in Int
      BY <1>0 DEF Labels
    <3>2. Leads(0, 1, score)
      BY <3>1 DEF Leads
    <3>. QED BY <2>5, <2>6, <3>2
  <2>7. CASE n > 1
    <3>1. n - 1 \notin S
      BY <2>4, <2>5
    <3>2. n - 1 \in Nat /\ n - 1 \in 1..ysize
      BY <2>5, <2>7, <1>0
    <3>3. PICK l \in 0..(n - 2) : Leads(l, n - 1, score)
      BY <3>1, <3>2
    <3>4. \A m \in 0..(n - 1) : score[m] \in Int
      BY <2>5, <1>0 DEF Labels
    <3>5. CASE score[n - 1] > score[l]
      <4>1. Leads(n - 1, n, score)
        BY <3>2, <3>3, <3>4, <3>5 DEF Leads
      <4>. QED BY <2>5, <3>2, <4>1
    <3>6. CASE ~(score[n - 1] > score[l])
      <4>1. Leads(l, n, score)
        BY <3>2, <3>3, <3>4, <3>6 DEF Leads
      <4>2. l \in 0..(n - 1)
        BY <3>2, <3>3
      <4>. QED BY <2>5, <4>1, <4>2
    <3>. QED BY <3>5, <3>6
  <2>. QED BY <2>5, <2>6, <2>7, <1>0
<1>2. ysize \notin S
  BY <1>1
<1>3. PICK l \in 0..(ysize - 1) : Leads(l, ysize, score)
  BY <1>0, <1>2
<1>. QED BY <1>3 DEF Leads, Leading, Labels

--------------------------------------------------------------------------
\* The models.  In mode TEST the tagger has made the index it has, and no other.
ModelInv ==
  /\ mode_ \in {"TEST", "TEST_SHARED"}
  /\ feature_index_ \in {"none", "own", "unread", "model"}
  /\ opened \in Nat /\ modelDeleted = FALSE
  /\ mode_ = "TEST" => /\ feature_index_ \in {"none", "own"}
                       /\ opened = IF feature_index_ = "own" THEN 1 ELSE 0

Column == [node : [Labels -> Int], path : [Labels -> [Labels -> Int]]]

\* What parse makes a lattice of, and the lattice.
TextInv ==
  /\ x_ \in Seq(Words)
  /\ penalty_ \in Seq([Labels -> Int])

LatticeInv ==
  /\ lattice \in Seq(Column)
  /\ best \in Seq([Labels -> Int]) /\ Len(best) <= Len(lattice)
  /\ at \in {"idle", "stale", "viterbi", "next"}
  /\ at # "viterbi" => Len(best) = Len(lattice)
  /\ at = "viterbi" => Len(lattice) > 0 /\ given = <<>>

\* Nothing is better at a node than the best path that leads there.
Bellman ==
  /\ Len(best) > 0 => best[1] = lattice[1].node
  /\ \A i \in 2..Len(best) : \A l, y \in Labels : Over(i, l, y) <= best[i][y]

\* An element that waits: fx is gx with the best way there for the node it is at,
\* and not cheaper than what next, or viterbi, has given last.
Waits(e) ==
  /\ e.x \in 1..Len(lattice) /\ e.y \in [e.x..Len(lattice) -> Labels]
  /\ e.gx \in Int /\ e.fx = e.gx + lattice[e.x].node[e.y[e.x]] - best[e.x][e.y[e.x]]
  /\ cost_ <= e.fx

SearchInv ==
  /\ given \in Seq(Labellings)
  /\ cost_ \in Int
  /\ at = "next" => asked
  /\ asked => /\ at \in {"idle", "next"} /\ Len(lattice) > 0
              /\ \A e \in agenda : Waits(e)

IInv == ModelInv /\ TextInv /\ LatticeInv /\ Bellman /\ SearchInv /\ NoneIsLost

LEMMA InitHolds == Init => IInv
<1>. SUFFICES ASSUME Init PROVE IInv
  OBVIOUS
<1>1. ModelInv
  BY DEF Init, InitModel, ModelInv
<1>2. TextInv
  BY DEF Init, TextInv
<1>3. LatticeInv
  BY DEF Init, LatticeInv
<1>4. Bellman
  BY DEF Init, Bellman
<1>5. SearchInv
  BY DEF Init, SearchInv
<1>6. NoneIsLost
  BY DEF Init, NoneIsLost
<1>. QED BY <1>1, <1>2, <1>3, <1>4, <1>5, <1>6 DEF IInv

--------------------------------------------------------------------------
\* Whatever is opened, closed or set, in whatever order.
LEMMA ModelsKept ==
  ASSUME ModelInv, open \/ openFails \/ close \/ set_model \/ UNCHANGED models
  PROVE  ModelInv'
<1>0. DeletedOf(mode_) = FALSE
  BY DEF ModelInv, DeletedOf, Deletes
<1>1. LeftOf(mode_) = IF mode_ = "TEST" THEN 0 ELSE opened
  BY DEF ModelInv, LeftOf, Deletes, Own
<1>2. CASE open
  BY <1>0, <1>1, <1>2 DEF ModelInv, open
<1>3. CASE openFails
  BY <1>0, <1>1, <1>3 DEF ModelInv, openFails, Deletes
<1>4. CASE close
  BY <1>0, <1>1, <1>4 DEF ModelInv, close, Deletes
<1>5. CASE set_model
  BY <1>0, <1>1, <1>5 DEF ModelInv, set_model
<1>6. CASE UNCHANGED models
  BY <1>6 DEF ModelInv, models
<1>. QED BY <1>2, <1>3, <1>4, <1>5, <1>6

\* Every step of a tagger is one of these, or leaves the models as they are.
LEMMA ModelStep ==
  ASSUME ModelInv, [Next]_vars
  PROVE  ModelInv'
<1>1. open \/ openFails \/ close \/ set_model \/ UNCHANGED models
  BY DEF Next, Calls, Steps, Model, set_nbest, add, set_penalty, clear, parse, next, Forward, Found,
         Expand, Report, Exhausted, vars, models
<1>. QED BY <1>1, ModelsKept

\* The words and the penalties.
LEMMA TextStep ==
  ASSUME TextInv, [Next]_vars
  PROVE  TextInv'
<1>1. CASE UNCHANGED <<x_, penalty_>>
  BY <1>1 DEF TextInv
<1>2. CASE add
  <2>1. PICK t \in Texts : Len(x_) < Len(t) /\ x_' = SubSeq(t, 1, Len(x_) + 1)
    BY <1>2 DEF add
  <2>2. t \in Seq(Words)
    BY ScoresAssumption
  <2>3. x_' \in Seq(Words)
    BY <2>1, <2>2 DEF TextInv
  <2>. QED BY <1>2, <2>3 DEF TextInv, add
<1>3. CASE set_penalty
  <2>. DEFINE rows == IF penalty_ = <<>> THEN [i \in DOMAIN x_ |-> [y \in Labels |-> 0]] ELSE penalty_
  <2>1. rows \in Seq([Labels -> Int])
    <3>1. CASE penalty_ = <<>>
      <4>1. DOMAIN x_ = 1..Len(x_) /\ Len(x_) \in Nat
        BY DEF TextInv
      <4>2. [y \in Labels |-> 0] \in [Labels -> Int]
        OBVIOUS
      <4>3. [i \in 1..Len(x_) |-> [y \in Labels |-> 0]] \in Seq([Labels -> Int])
        BY <4>1, <4>2
      <4>. QED BY <3>1, <4>1, <4>3
    <3>2. CASE penalty_ # <<>>
      BY <3>2 DEF TextInv
    <3>. QED BY <3>1, <3>2
  <2>2. PICK c \in Penalties : c.i \in DOMAIN rows /\ penalty_' = [rows EXCEPT ![c.i][c.y] = c.p]
    BY <1>3 DEF set_penalty
  <2>3. c.y \in Labels /\ c.p \in Int
    BY ScoresAssumption
  <2>. HIDE DEF rows
  <2>4. penalty_' \in Seq([Labels -> Int])
    BY <2>1, <2>2, <2>3
  <2>5. x_' = x_
    BY <1>3 DEF set_penalty
  <2>. QED BY <2>4, <2>5 DEF TextInv
<1>4. CASE clear
  BY <1>4 DEF TextInv, clear
<1>. QED
  BY <1>1, <1>2, <1>3, <1>4 DEF Next, Calls, Steps, Model, set_nbest, parse, next, Forward, Found,
     Expand, Report, Exhausted, vars, sentence

--------------------------------------------------------------------------
Forwarded == LatticeInv /\ Bellman
Searched  == SearchInv /\ NoneIsLost

\* A step that leaves the lattice and the search as they are.
LEMMA Unchanged ==
  ASSUME Forwarded, Searched, UNCHANGED <<cost_, forward, search, at>>
  PROVE  Forwarded' /\ Searched'
<1>1. LatticeInv'
  BY DEF Forwarded, LatticeInv, forward, search
<1>2. Bellman'
  BY DEF Forwarded, Bellman, Over, forward
<1>3. SearchInv'
  BY DEF Searched, SearchInv, Waits, Labellings, forward, search
<1>4. NoneIsLost'
  BY DEF Searched, NoneIsLost, Ends, Labellings, forward, search
<1>. QED BY <1>1, <1>2, <1>3, <1>4 DEF Forwarded, Searched

\* A step after which there is no agenda for the lattice.
LEMMA NotAsked ==
  ASSUME SearchInv, given' = <<>> \/ UNCHANGED <<given, lattice>>,
         ~asked', at' # "next", cost_' \in Int
  PROVE  Searched'
<1>1. given' \in Seq(Labellings')
  <2>1. CASE given' = <<>>
    BY <2>1
  <2>2. CASE UNCHANGED <<given, lattice>>
    <3>1. Labellings' = Labellings
      BY <2>2 DEF Labellings
    <3>. QED BY <2>2, <3>1 DEF SearchInv
  <2>. QED BY <2>1, <2>2
<1>2. SearchInv'
  BY <1>1 DEF SearchInv
<1>3. NoneIsLost'
  BY DEF NoneIsLost
<1>. QED BY <1>2, <1>3 DEF Searched

\* The lattice is gone.
LEMMA clearKeeps ==
  ASSUME Forwarded, Searched, clear
  PROVE  Forwarded' /\ Searched'
<1>1. LatticeInv' /\ Bellman'
  BY DEF clear, LatticeInv, Bellman
<1>2. SearchInv
  BY DEF Searched
<1>3. given' = <<>> /\ asked' = FALSE /\ at' # "next" /\ cost_' \in Int
  BY DEF clear
<1>4. Searched'
  BY <1>2, <1>3, NotAsked
<1>. QED BY <1>1, <1>4 DEF Forwarded

LEMMA ModelKeeps ==
  ASSUME Forwarded, Searched, Model
  PROVE  Forwarded' /\ Searched'
<1>1. LatticeInv'
  BY DEF Forwarded, LatticeInv, Model, forward
<1>2. Bellman'
  BY DEF Forwarded, Bellman, Over, Model, forward
<1>3. CASE UNCHANGED <<at, asked>>
  BY <1>3, Unchanged DEF Model, results, search, forward
<1>4. CASE at' = "stale" /\ asked' = FALSE
  <2>1. SearchInv /\ cost_ \in Int
    BY DEF Searched, SearchInv
  <2>2. UNCHANGED <<given, lattice, cost_>>
    BY DEF Model, results, forward
  <2>. QED BY <1>1, <1>2, <1>4, <2>1, <2>2, NotAsked DEF Forwarded
<1>. QED BY <1>3, <1>4 DEF Model

\* A lattice is made of the words there are.
LEMMA parseKeeps ==
  ASSUME TextInv, Forwarded, Searched, parse
  PROVE  Forwarded' /\ Searched'
<1>1. lattice' \in Seq(Column) /\ Len(lattice') > 0
  <2>1. DOMAIN x_ = 1..Len(x_) /\ Len(x_) \in Nat /\ Len(x_) > 0
    BY DEF TextInv, parse
  <2>2. feature_index_ \in Indexes
    BY DEF parse, Usable, Indexes
  <2>3. ASSUME NEW i \in 1..Len(x_) PROVE lattice'[i] \in Column
    <3>1. x_[i] \in Words
      BY <2>1 DEF TextInv
    <3>2. \A y \in Labels : (IF penalty_ = <<>> THEN 0 ELSE penalty_[i][y]) \in Int
      BY <2>1 DEF TextInv, parse
    <3>3. \A y \in Labels : NodeScore[feature_index_][x_[i]][y] \in Int
      BY <2>2, <3>1, ScoresAssumption
    <3>4. \A y \in Labels : Node(i, y) \in Int
      BY <3>2, <3>3 DEF Node
    <3>5. \A l, y \in Labels : Path(i, l, y) \in Int
      BY <2>2, <3>1, ScoresAssumption DEF Path
    <3>6. lattice'[i] = [node |-> [y \in Labels |-> Node(i, y)],
                         path |-> [l \in Labels |-> [y \in Labels |-> Path(i, l, y)]]]
      BY <2>1 DEF parse
    <3>. QED BY <3>4, <3>5, <3>6 DEF Column
  <2>4. DOMAIN lattice' = 1..Len(x_)
    BY <2>1 DEF parse
  <2>5. lattice' = [i \in 1..Len(x_) |-> lattice'[i]]
    BY <2>1 DEF parse
  <2>. QED BY <2>1, <2>3, <2>4, <2>5
<1>2. LatticeInv'
  BY <1>1 DEF parse, LatticeInv
<1>3. Bellman'
  BY DEF parse, Bellman
<1>4. SearchInv /\ cost_' \in Int
  BY DEF Searched, SearchInv, parse, results
<1>. QED BY <1>2, <1>3, <1>4, NotAsked DEF parse, Forwarded

--------------------------------------------------------------------------
\* The label viterbi takes for each node: nothing leads there better.
LEMMA ForwardTakes ==
  ASSUME Forwarded, Forward, Len(best) > 0
  PROVE  \E from \in [Labels -> Labels] :
           /\ \A l, y \in Labels : Over(Len(best) + 1, l, y) <= Over(Len(best) + 1, from[y], y)
           /\ \A l, y \in Labels : Over(Len(best) + 1, l, y) \in Int
           /\ best' = Append(best, [y \in Labels |-> Over(Len(best) + 1, from[y], y)])
           /\ prev' = Append(prev, from)
<1>. DEFINE i == Len(best) + 1
            score(y) == [m \in Labels |-> Over(i, m, y)]
            from == [y \in Labels |-> CHOOSE l \in Labels : Leading(l, score(y))]
<1>0. /\ Len(best) \in Nat /\ Len(lattice) \in Nat /\ i \in 1..Len(lattice) /\ lattice[i] \in Column
      /\ i # 1
  BY DEF Forwarded, LatticeInv, Forward
<1>1. \A m, y \in Labels : Over(i, m, y) \in Int
  <2>1. best[i - 1] \in [Labels -> Int]
    BY <1>0 DEF Forwarded, LatticeInv
  <2>. QED BY <1>0, <2>1 DEF Over, Column
<1>2. ASSUME NEW y \in Labels
      PROVE  from[y] \in Labels /\ \A l \in Labels : Over(i, l, y) <= Over(i, from[y], y)
  <2>1. score(y) \in [Labels -> Int]
    BY <1>1
  <2>2. \E l \in Labels : Leading(l, score(y))
    <3>. HIDE DEF score
    <3>. QED BY <2>1, SomeLeads
  <2>3. from[y] \in Labels /\ Leading(from[y], score(y))
    <3>. HIDE DEF score
    <3>. QED BY <2>2
  <2>4. \A l \in Labels : score(y)[l] <= score(y)[from[y]]
    BY <2>3 DEF Leading
  <2>. HIDE DEF from
  <2>. QED BY <2>3, <2>4
<1>3. best' = Append(best, [y \in Labels |-> Over(i, from[y], y)]) /\ prev' = Append(prev, from)
  BY <1>0 DEF Forward
<1>4. from \in [Labels -> Labels]
  <2>1. from = [y \in Labels |-> from[y]]
    OBVIOUS
  <2>. HIDE DEF from
  <2>. QED BY <1>2, <2>1
<1>. HIDE DEF from
<1>. QED BY <1>1, <1>2, <1>3, <1>4

\* viterbi: what leads is at least as good as the rest.
LEMMA ForwardKeeps ==
  ASSUME Forwarded, Searched, Forward
  PROVE  Forwarded' /\ Searched'
<1>. DEFINE i == Len(best) + 1
<1>0. /\ Len(best) \in Nat /\ Len(lattice) \in Nat /\ i \in 1..Len(lattice) /\ lattice[i] \in Column
      /\ at = "viterbi" /\ at' = at /\ UNCHANGED lattice
  BY DEF Forwarded, LatticeInv, Forward
<1>1. /\ best' \in Seq([Labels -> Int]) /\ Len(best') = i
      /\ \A k \in 1..Len(best) : best'[k] = best[k]
      /\ i = 1 => best'[1] = lattice[1].node
      /\ i > 1 => \A l, y \in Labels : Over(i, l, y) <= best'[i][y]
  <2>1. CASE i = 1
    <3>1. best' = <<lattice[1].node>>
      BY <2>1 DEF Forward
    <3>2. lattice[1].node \in [Labels -> Int]
      BY <1>0, <2>1 DEF Column
    <3>. QED BY <1>0, <2>1, <3>1, <3>2
  <2>2. CASE i > 1
    <3>1. PICK from \in [Labels -> Labels] :
             /\ \A l, y \in Labels : Over(i, l, y) <= Over(i, from[y], y)
             /\ \A l, y \in Labels : Over(i, l, y) \in Int
             /\ best' = Append(best, [y \in Labels |-> Over(i, from[y], y)])
      <4>1. Len(best) > 0
        BY <1>0, <2>2
      <4>. QED BY <4>1, ForwardTakes
    <3>2. [y \in Labels |-> Over(i, from[y], y)] \in [Labels -> Int]
      BY <3>1
    <3>3. best \in Seq([Labels -> Int])
      BY DEF Forwarded, LatticeInv
    <3>4. /\ best' \in Seq([Labels -> Int]) /\ Len(best') = i
          /\ \A k \in 1..Len(best) : best'[k] = best[k]
          /\ best'[i] = [y \in Labels |-> Over(i, from[y], y)]
      BY <3>1, <3>2, <3>3
    <3>. QED BY <2>2, <3>1, <3>4
  <2>. QED BY <1>0, <2>1, <2>2
<1>2. LatticeInv'
  <2>1. given' = <<>>
    BY <1>0 DEF Forwarded, LatticeInv, Forward, search
  <2>. QED BY <1>0, <1>1, <2>1 DEF Forwarded, LatticeInv
<1>3. Bellman'
  <2>1. Len(best') > 0 => best'[1] = lattice'[1].node
    <3>1. CASE i = 1
      BY <1>0, <1>1, <3>1
    <3>2. CASE i > 1
      <4>1. 1 \in 1..Len(best) /\ Len(best) > 0
        BY <1>0, <3>2
      <4>2. best'[1] = best[1]
        BY <1>1, <4>1
      <4>. QED BY <1>0, <4>1, <4>2 DEF Forwarded, Bellman
    <3>. QED BY <1>0, <3>1, <3>2
  <2>2. ASSUME NEW k \in 2..Len(best'), NEW l \in Labels, NEW y \in Labels
        PROVE  best'[k - 1][l] + lattice'[k].path[l][y] + lattice'[k].node[y] <= best'[k][y]
    <3>0. k \in 2..i /\ k - 1 \in 1..Len(best) /\ Len(best) \in Nat
      <4>1. Len(best') = i
        BY <1>1
      <4>. QED BY <1>0, <4>1
    <3>1. k - 1 \in 1..Len(best)
      BY <3>0
    <3>2. best'[k - 1] = best[k - 1]
      BY <1>1, <3>1
    <3>3. CASE k = i
      BY <1>0, <1>1, <3>2, <3>3 DEF Over
    <3>4. CASE k # i
      <4>0. k \in 2..Len(best) /\ k \in 1..Len(best)
        BY <3>0, <3>4
      <4>1. k \in 2..Len(best) /\ best'[k] = best[k]
        BY <1>1, <4>0
      <4>. QED BY <1>0, <3>2, <4>1 DEF Over, Forwarded, Bellman
    <3>. QED BY <3>3, <3>4
  <2>. QED BY <2>1, <2>2 DEF Bellman, Over
<1>4. ~asked
  BY <1>0 DEF Searched, SearchInv
<1>5. SearchInv'
  BY <1>0, <1>4 DEF Forward, Searched, SearchInv, Labellings, results, search
<1>6. NoneIsLost'
  BY <1>4 DEF Forward, NoneIsLost, search
<1>. QED BY <1>2, <1>3, <1>5, <1>6 DEF Forwarded, Searched
--------------------------------------------------------------------------
\* The ends of all the labellings, and what viterbi found is no dearer than any.
LEMMA FoundKeeps ==
  ASSUME Forwarded, Searched, Found
  PROVE  Forwarded' /\ Searched'
<1>. DEFINE n   == Len(lattice)
            eos == CHOOSE y \in Labels : Leading(y, best[n])
<1>0. /\ n \in Nat /\ n >= 1 /\ Len(best) = n /\ n \in 1..Len(best) /\ given = <<>>
      /\ best[n] \in [Labels -> Int] /\ lattice[n] \in Column
  BY DEF Forwarded, LatticeInv, Found
<1>1. LatticeInv'
  BY <1>0 DEF Forwarded, LatticeInv, Found, forward
<1>2. Bellman'
  BY DEF Forwarded, Bellman, Over, Found, forward
<1>3. eos \in Labels /\ \A y \in Labels : best[n][y] <= best[n][eos]
  <2>1. \E y \in Labels : Leading(y, best[n])
    BY <1>0, SomeLeads
  <2>2. eos \in Labels /\ Leading(eos, best[n])
    BY <2>1
  <2>. QED BY <2>2 DEF Leading
<1>4. cost_' = -best[n][eos]
  BY DEF Found
<1>. HIDE DEF eos
<1>5. cost_' \in Int /\ \A y \in Labels : cost_' <= -best[n][y]
  BY <1>0, <1>3, <1>4
<1>6. UNCHANGED <<lattice, best, given>> /\ at' = "idle" /\ asked' = (nbest_ > 0)
  BY DEF Found, forward
<1>7. CASE ~(nbest_ > 0)
  <2>1. SearchInv
    BY DEF Searched
  <2>2. ~asked'
    BY <1>6, <1>7
  <2>. QED BY <1>1, <1>2, <1>5, <1>6, <2>1, <2>2, NotAsked DEF Forwarded
<1>8. CASE nbest_ > 0
  <2>1. asked' = TRUE /\ agenda' = {Element(n, y) : y \in Labels}
    BY <1>6, <1>8 DEF Found
  <2>2. Labellings' = Labellings
    BY <1>6 DEF Labellings
  <2>3. ASSUME NEW e \in agenda'
        PROVE  /\ e.x \in 1..Len(lattice) /\ e.y \in [e.x..Len(lattice) -> Labels]
               /\ e.gx \in Int /\ e.fx = e.gx + lattice[e.x].node[e.y[e.x]] - best[e.x][e.y[e.x]]
               /\ cost_' <= e.fx
    <3>1. PICK y \in Labels : e = Element(n, y)
      BY <2>1
    <3>2. {n} = n..n
      BY <1>0
    <3>3. e.y \in [n..n -> Labels] /\ e.y[n] = y
      BY <3>1, <3>2 DEF Element
    <3>4. e.x = n /\ e.gx = -lattice[n].node[y] /\ e.fx = -best[n][y]
      BY <3>1 DEF Element
    <3>5. lattice[n].node[y] \in Int /\ best[n][y] \in Int
      BY <1>0 DEF Column
    <3>6. cost_' <= -best[n][y]
      BY <1>5
    <3>. QED BY <1>0, <3>3, <3>4, <3>5, <3>6
  <2>4. \A e \in agenda' : Waits(e)'
    BY <1>6, <2>3 DEF Waits
  <2>5. SearchInv'
    BY <1>0, <1>5, <1>6, <2>1, <2>2, <2>4 DEF Searched, SearchInv
  <2>6. ASSUME NEW l \in Labellings
        PROVE  \E e \in agenda' : /\ \A i \in e.x..n : e.y[i] = l[i]
                                  /\ \A f \in agenda' : (\A i \in f.x..n : f.y[i] = l[i]) => f = e
    <3>1. l[n] \in Labels
      BY <1>0 DEF Labellings
    <3>. DEFINE e == Element(n, l[n])
    <3>2. ASSUME NEW y \in Labels, NEW f, f = Element(n, y)
          PROVE  f.x = n /\ f.y[n] = y
      BY <3>2 DEF Element
    <3>3. n..n = {n}
      BY <1>0
    <3>4. e \in agenda' /\ e.x = n /\ e.y[n] = l[n]
      BY <2>1, <3>1, <3>2
    <3>5. \A i \in e.x..n : e.y[i] = l[i]
      BY <3>3, <3>4
    <3>6. ASSUME NEW f \in agenda', \A i \in f.x..n : f.y[i] = l[i] PROVE f = e
      <4>1. PICK y \in Labels : f = Element(n, y)
        BY <2>1
      <4>2. f.x = n /\ f.y[n] = y
        BY <3>2, <4>1
      <4>3. y = l[n]
        BY <3>3, <3>6, <4>2
      <4>. QED BY <4>1, <4>3
    <3>. HIDE DEF e
    <3>. QED BY <3>4, <3>5, <3>6
  <2>7. ~\E i \in DOMAIN given' : TRUE
    BY <1>0, <1>6
  <2>8. NoneIsLost'
    <3>1. \A l \in Labellings' : ~\E i \in DOMAIN given' : given'[i] = l
      BY <2>7
    <3>2. \A l \in Labellings' : \E e \in agenda' : /\ Ends(e, l)'
                                               /\ \A f \in agenda' : Ends(f, l)' => f = e
      BY <1>6, <2>2, <2>6 DEF Ends
    <3>. QED BY <3>1, <3>2 DEF NoneIsLost
  <2>. QED BY <1>1, <1>2, <2>5, <2>8 DEF Forwarded, Searched
<1>. QED BY <1>7, <1>8

--------------------------------------------------------------------------
\* next begins.
LEMMA nextKeeps ==
  ASSUME Forwarded, Searched, next
  PROVE  Forwarded' /\ Searched'
<1>1. UNCHANGED <<lattice, best, prev, cost_, agenda, asked, found, given>>
  BY DEF next, forward, search, results
<1>2. asked /\ at = "idle" /\ at' = "next"
  BY DEF next
<1>3. LatticeInv'
  BY <1>1, <1>2 DEF Forwarded, LatticeInv
<1>4. Bellman'
  BY <1>1 DEF Forwarded, Bellman, Over
<1>5. SearchInv'
  BY <1>1, <1>2 DEF Searched, SearchInv, Waits, Labellings
<1>6. NoneIsLost'
  BY <1>1 DEF Searched, NoneIsLost, Ends, Labellings
<1>. QED BY <1>3, <1>4, <1>5, <1>6 DEF Forwarded, Searched

\* next comes back: what it leaves of the lattice.
LEMMA ForwardedStays ==
  ASSUME Forwarded, at = "next", UNCHANGED forward, at' \in {"idle", "next"}
  PROVE  Forwarded'
<1>1. LatticeInv'
  BY DEF Forwarded, LatticeInv, forward
<1>2. Bellman'
  BY DEF Forwarded, Bellman, Over, forward
<1>. QED BY <1>1, <1>2 DEF Forwarded

\* Label l in front of element e.
LEMMA LongerWaits ==
  ASSUME Forwarded, SearchInv, asked,
         NEW e \in agenda, e.x > 1, NEW l \in Labels
  PROVE  /\ Waits(Longer(e, l))
         /\ Longer(e, l).x = e.x - 1 /\ Longer(e, l).y[e.x - 1] = l
         /\ \A i \in e.x..Len(lattice) : Longer(e, l).y[i] = e.y[i]
<1>. DEFINE k  == e.x - 1
            r  == e.y[e.x]
            gx == -lattice[e.x].path[l][r] + e.gx
            f  == Longer(e, l)
<1>1. Waits(e)
  BY DEF SearchInv
<1>2. /\ Len(lattice) \in Nat /\ e.x \in 2..Len(lattice) /\ k \in 1..Len(lattice) /\ r \in Labels
      /\ Len(best) = Len(lattice) /\ cost_ \in Int
  <2>1. at # "viterbi" /\ cost_ \in Int
    BY DEF SearchInv
  <2>2. Len(lattice) \in Nat /\ Len(best) = Len(lattice)
    BY <2>1 DEF Forwarded, LatticeInv
  <2>3. e.x \in 1..Len(lattice) /\ e.y \in [e.x..Len(lattice) -> Labels]
    BY <1>1 DEF Waits
  <2>4. e.x \in 2..Len(lattice) /\ k \in 1..Len(lattice) /\ e.x \in e.x..Len(lattice)
    BY <2>2, <2>3
  <2>. QED BY <2>1, <2>2, <2>3, <2>4
<1>3. lattice[e.x] \in Column /\ lattice[k] \in Column
  BY <1>2 DEF Forwarded, LatticeInv
<1>4. best[e.x] \in [Labels -> Int] /\ best[k] \in [Labels -> Int]
  <2>1. best \in Seq([Labels -> Int]) /\ e.x \in 1..Len(best) /\ k \in 1..Len(best)
    BY <1>2 DEF Forwarded, LatticeInv
  <2>. HIDE DEF k
  <2>. QED BY <2>1
<1>5. /\ lattice[e.x].path[l][r] \in Int /\ lattice[e.x].node[r] \in Int /\ lattice[k].node[l] \in Int
      /\ best[e.x][r] \in Int /\ best[k][l] \in Int /\ e.gx \in Int
  <2>1. e.gx \in Int
    BY <1>1 DEF Waits
  <2>. HIDE DEF k, r
  <2>2. best[e.x][r] \in Int /\ best[k][l] \in Int
    BY <1>2, <1>4
  <2>3. lattice[e.x].path[l][r] \in Int /\ lattice[e.x].node[r] \in Int /\ lattice[k].node[l] \in Int
    BY <1>2, <1>3 DEF Column
  <2>. QED BY <2>1, <2>2, <2>3
<1>6. best[k][l] + lattice[e.x].path[l][r] + lattice[e.x].node[r] <= best[e.x][r]
  BY <1>2 DEF Forwarded, Bellman, Over
<1>7. f.x = k /\ f.gx = -lattice[k].node[l] + gx /\ f.fx = -best[k][l] + gx
  BY DEF Longer
<1>8. f.y = [i \in k..Len(lattice) |-> IF i = k THEN l ELSE e.y[i]]
  BY DEF Longer
<1>9. e.y \in [e.x..Len(lattice) -> Labels]
  BY <1>1 DEF Waits
<1>10. f.y \in [k..Len(lattice) -> Labels] /\ f.y[k] = l
  BY <1>2, <1>8, <1>9
<1>11. \A i \in e.x..Len(lattice) : f.y[i] = e.y[i]
  BY <1>2, <1>8
<1>12. e.fx = e.gx + lattice[e.x].node[r] - best[e.x][r] /\ cost_ <= e.fx
  BY <1>1 DEF Waits
<1>13. f.gx \in Int /\ f.fx = f.gx + lattice[k].node[l] - best[k][l] /\ cost_ <= f.fx
  <2>. DEFINE p  == lattice[e.x].path[l][r]
              nr == lattice[e.x].node[r]
              nl == lattice[k].node[l]
              br == best[e.x][r]
              bl == best[k][l]
              g  == e.gx
  <2>1. p \in Int /\ nr \in Int /\ nl \in Int /\ br \in Int /\ bl \in Int /\ g \in Int /\ cost_ \in Int
    BY <1>2, <1>5
  <2>2. f.gx = -nl + (-p + g) /\ f.fx = -bl + (-p + g)
    BY <1>7
  <2>3. bl + p + nr <= br
    BY <1>6
  <2>4. e.fx = g + nr - br /\ cost_ <= e.fx
    BY <1>12
  <2>5. f.gx \in Int /\ f.fx = f.gx + nl - bl /\ cost_ <= f.fx
    <3>. HIDE DEF p, nr, nl, br, bl, g, f
    <3>. QED BY <2>1, <2>2, <2>3, <2>4
  <2>. QED BY <2>5
<1>14. Waits(f)
  <2>. HIDE DEF f
  <2>. QED BY <1>2, <1>7, <1>10, <1>13 DEF Waits
<1>. QED BY <1>7, <1>10, <1>11, <1>14

\* The ends of the labellings that begin with an end are those that begin with it and
\* one more label.
LEMMA ExpandKeeps ==
  ASSUME Forwarded, Searched, Expand
  PROVE  Forwarded' /\ Searched'
<1>1. PICK e \in agenda : Top(e) /\ e.x > 1 /\ agenda' = (agenda \ {e}) \cup {Longer(e, l) : l \in Labels}
  BY DEF Expand
<1>2. /\ UNCHANGED <<lattice, best, prev, cost_, asked, given>> /\ at = "next" /\ at' = "next"
  BY DEF Expand, forward, results
<1>3. Forwarded'
  BY <1>2, ForwardedStays DEF forward
<1>4. asked /\ SearchInv /\ (\A f \in agenda : Waits(f)) /\ given \in Seq(Labellings)
  BY <1>2 DEF Searched, SearchInv
<1>5. ASSUME NEW l \in Labels
      PROVE  /\ Waits(Longer(e, l))
             /\ Longer(e, l).x = e.x - 1 /\ Longer(e, l).y[e.x - 1] = l
             /\ \A i \in e.x..Len(lattice) : Longer(e, l).y[i] = e.y[i]
  BY <1>1, <1>4, LongerWaits
<1>6. \A f \in agenda' : Waits(f)
  BY <1>1, <1>4, <1>5
<1>7. SearchInv'
  <2>1. \A f \in agenda' : Waits(f)'
    BY <1>2, <1>6 DEF Waits
  <2>. QED BY <1>2, <1>4, <2>1 DEF SearchInv, Labellings
<1>8. Len(lattice) \in Nat /\ e.x \in 2..Len(lattice) /\ DOMAIN lattice = 1..Len(lattice)
  <2>1. e.x \in 1..Len(lattice)
    BY <1>4 DEF Waits
  <2>2. lattice \in Seq(Column)
    BY DEF Forwarded, LatticeInv
  <2>. QED BY <1>1, <2>1, <2>2
<1>9. ASSUME NEW l \in Labellings, NEW m \in Labels PROVE Ends(Longer(e, m), l) <=> Ends(e, l) /\ m = l[e.x - 1]
  <2>1. e.x - 1..Len(lattice) = {e.x - 1} \cup (e.x..Len(lattice))
    BY <1>8
  <2>2. Ends(Longer(e, m), l) <=> \A i \in {e.x - 1} \cup (e.x..Len(lattice)) : Longer(e, m).y[i] = l[i]
    BY <1>5, <2>1 DEF Ends
  <2>3. Ends(e, l) <=> \A i \in e.x..Len(lattice) : e.y[i] = l[i]
    BY DEF Ends
  <2>. QED BY <1>5, <2>2, <2>3
<1>10. ASSUME NEW l \in Labellings
       PROVE  IF \E i \in DOMAIN given : given[i] = l
              THEN ~\E f \in agenda' : Ends(f, l)
              ELSE \E f \in agenda' : Ends(f, l) /\ \A g \in agenda' : Ends(g, l) => g = f
  <2>1. CASE \E i \in DOMAIN given : given[i] = l
    <3>1. \A f \in agenda : ~Ends(f, l)
      BY <1>4, <2>1 DEF Searched, NoneIsLost
    <3>2. \A m \in Labels : ~Ends(Longer(e, m), l)
      BY <1>9, <3>1
    <3>. QED BY <1>1, <2>1, <3>1, <3>2
  <2>2. CASE ~\E i \in DOMAIN given : given[i] = l
    <3>1. PICK f \in agenda : Ends(f, l) /\ \A g \in agenda : Ends(g, l) => g = f
      BY <1>4, <2>2 DEF Searched, NoneIsLost
    <3>2. CASE f = e
      <4>1. l[e.x - 1] \in Labels
        BY <1>8 DEF Labellings
      <4>2. Longer(e, l[e.x - 1]) \in agenda' /\ Ends(Longer(e, l[e.x - 1]), l)
        BY <1>1, <1>9, <3>1, <3>2, <4>1
      <4>3. ASSUME NEW g \in agenda', Ends(g, l) PROVE g = Longer(e, l[e.x - 1])
        <5>1. g \notin agenda \ {e}
          BY <3>1, <3>2, <4>3
        <5>2. PICK m \in Labels : g = Longer(e, m)
          BY <1>1, <5>1
        <5>. QED BY <1>9, <4>3, <5>2
      <4>. QED BY <2>2, <4>2, <4>3
    <3>3. CASE f # e
      <4>1. f \in agenda' /\ ~Ends(e, l)
        BY <1>1, <3>1, <3>3
      <4>2. ASSUME NEW g \in agenda', Ends(g, l) PROVE g = f
        <5>1. \A m \in Labels : g # Longer(e, m)
          BY <1>9, <4>1, <4>2
        <5>2. g \in agenda
          BY <1>1, <5>1
        <5>. QED BY <3>1, <4>2, <5>2
      <4>. QED BY <2>2, <3>1, <4>1, <4>2
    <3>. QED BY <3>2, <3>3
  <2>. QED BY <2>1, <2>2
<1>11. NoneIsLost'
  BY <1>2, <1>10 DEF NoneIsLost, Ends, Labellings
<1>. QED BY <1>3, <1>7, <1>11 DEF Searched

\* An element at the first word is one labelling, and its bound is its cost.
LEMMA ReportKeeps ==
  ASSUME Forwarded, Searched, Report
  PROVE  Forwarded' /\ Searched' /\ cost_' >= cost_
<1>1. PICK e \in agenda : /\ Top(e) /\ e.x = 1 /\ agenda' = agenda \ {e} /\ cost_' = e.gx
                          /\ given' = Append(given, e.y)
  BY DEF Report
<1>2. /\ UNCHANGED <<lattice, best, prev, asked>> /\ at = "next" /\ at' = "idle"
  BY DEF Report, forward
<1>3. Forwarded'
  BY <1>2, ForwardedStays DEF forward
<1>4. asked /\ (\A f \in agenda : Waits(f)) /\ given \in Seq(Labellings) /\ cost_ \in Int
  BY <1>2 DEF Searched, SearchInv
<1>5. /\ Len(lattice) \in Nat /\ Len(lattice) > 0 /\ DOMAIN lattice = 1..Len(lattice)
      /\ lattice[1] \in Column /\ best[1] = lattice[1].node
  BY <1>2, <1>4 DEF Forwarded, LatticeInv, Bellman, Searched, SearchInv
<1>6. /\ e.y \in [1..Len(lattice) -> Labels] /\ e.gx \in Int /\ cost_ <= e.fx
      /\ e.fx = e.gx + lattice[1].node[e.y[1]] - best[1][e.y[1]]
  BY <1>1, <1>4 DEF Waits
<1>7. e.fx = e.gx
  <2>1. lattice[1].node[e.y[1]] \in Int
    BY <1>5, <1>6 DEF Column
  <2>. QED BY <1>5, <1>6, <2>1
<1>8. e.y \in Labellings
  BY <1>5, <1>6 DEF Labellings
<1>9. cost_' >= cost_ /\ cost_' \in Int
  BY <1>1, <1>4, <1>6, <1>7
<1>10. \A f \in agenda' : Waits(f)'
  <2>1. ASSUME NEW f \in agenda' PROVE Waits(f) /\ cost_' <= f.fx
    BY <1>1, <1>4, <1>7 DEF Top
  <2>. QED BY <1>2, <2>1 DEF Waits
<1>11. given' \in Seq(Labellings)
  BY <1>1, <1>4, <1>8
<1>12. SearchInv'
  BY <1>2, <1>4, <1>5, <1>9, <1>10, <1>11 DEF SearchInv, Labellings
<1>13. ASSUME NEW l \in Labellings, Ends(e, l) PROVE l = e.y
  <2>1. \A i \in 1..Len(lattice) : e.y[i] = l[i]
    BY <1>1, <1>13 DEF Ends
  <2>2. l \in [1..Len(lattice) -> Labels]
    BY <1>5 DEF Labellings
  <2>. QED BY <1>6, <2>1, <2>2
<1>14. Ends(e, e.y)
  BY DEF Ends
<1>15. \A l \in Labellings : (\E i \in DOMAIN given' : given'[i] = l) <=> (\E i \in DOMAIN given : given[i] = l) \/ l = e.y
  BY <1>1, <1>4, <1>8
<1>16. ASSUME NEW l \in Labellings
       PROVE  IF \E i \in DOMAIN given' : given'[i] = l
              THEN ~\E f \in agenda' : Ends(f, l)
              ELSE \E f \in agenda' : Ends(f, l) /\ \A g \in agenda' : Ends(g, l) => g = f
  <2>1. IF \E i \in DOMAIN given : given[i] = l
        THEN ~\E f \in agenda : Ends(f, l)
        ELSE \E f \in agenda : Ends(f, l) /\ \A g \in agenda : Ends(g, l) => g = f
    BY <1>4 DEF Searched, NoneIsLost
  <2>2. CASE l = e.y
    <3>1. \A g \in agenda : Ends(g, l) => g = e
      BY <1>14, <2>1, <2>2
    <3>. QED BY <1>1, <1>15, <2>2, <3>1
  <2>3. CASE l # e.y
    <3>1. ~Ends(e, l)
      BY <1>13, <2>3
    <3>2. (\E i \in DOMAIN given' : given'[i] = l) <=> (\E i \in DOMAIN given : given[i] = l)
      BY <1>15, <2>3
    <3>. QED BY <1>1, <2>1, <3>1, <3>2
  <2>. QED BY <2>2, <2>3
<1>17. NoneIsLost'
  BY <1>2, <1>16 DEF NoneIsLost, Ends, Labellings
<1>. QED BY <1>3, <1>9, <1>12, <1>17 DEF Searched

LEMMA ExhaustedKeeps ==
  ASSUME Forwarded, Searched, Exhausted
  PROVE  Forwarded' /\ Searched'
<1>1. UNCHANGED <<lattice, best, prev, cost_, agenda, asked, given>> /\ at = "next" /\ at' = "idle"
  BY DEF Exhausted, forward, results
<1>2. Forwarded'
  BY <1>1, ForwardedStays DEF forward
<1>3. SearchInv'
  BY <1>1 DEF Searched, SearchInv, Waits, Labellings
<1>4. NoneIsLost'
  BY <1>1 DEF Searched, NoneIsLost, Ends, Labellings
<1>. QED BY <1>2, <1>3, <1>4 DEF Searched

--------------------------------------------------------------------------
LEMMA NextKeeps == IInv /\ [Next]_vars => IInv'
<1>. SUFFICES ASSUME IInv, [Next]_vars PROVE IInv'
  OBVIOUS
<1>1. ModelInv /\ TextInv /\ Forwarded /\ Searched
  BY DEF IInv, Forwarded, Searched
<1>2. ModelInv'
  BY <1>1, ModelStep
<1>3. TextInv'
  BY <1>1, TextStep
<1>4. Forwarded' /\ Searched'
  <2>1. CASE UNCHANGED <<cost_, forward, search, at>>
    BY <1>1, <2>1, Unchanged
  <2>2. CASE Model
    BY <1>1, <2>2, ModelKeeps
  <2>3. CASE set_nbest \/ add \/ set_penalty
    BY <2>1, <2>3 DEF set_nbest, add, set_penalty, results
  <2>4. CASE clear
    BY <1>1, <2>4, clearKeeps
  <2>5. CASE parse
    BY <1>1, <2>5, parseKeeps
  <2>6. CASE next
    BY <1>1, <2>6, nextKeeps
  <2>7. CASE Forward
    BY <1>1, <2>7, ForwardKeeps
  <2>8. CASE Found
    BY <1>1, <2>8, FoundKeeps
  <2>9. CASE Expand
    BY <1>1, <2>9, ExpandKeeps
  <2>10. CASE Report
    BY <1>1, <2>10, ReportKeeps
  <2>11. CASE Exhausted
    BY <1>1, <2>11, ExhaustedKeeps
  <2>12. CASE UNCHANGED vars
    BY <2>1, <2>12 DEF vars, results
  <2>. QED BY <2>2, <2>3, <2>4, <2>5, <2>6, <2>7, <2>8, <2>9, <2>10, <2>11, <2>12 DEF Next, Calls, Steps
<1>. QED BY <1>2, <1>3, <1>4 DEF IInv, Forwarded, Searched

LEMMA Invariance == Spec => []IInv
BY InitHolds, NextKeeps, PTL DEF Spec

\* Whatever is opened, closed, shared and set, and in whatever order: the index of a
\* Model is never deleted by one of its taggers, and a tagger that has never been given
\* one has made the index it has and no other.
THEOREM OwnershipHolds == Spec => []DeletesItsOwn
<1>1. IInv => DeletesItsOwn
  BY DEF IInv, ModelInv, DeletesItsOwn
<1>. QED BY <1>1, Invariance, PTL

\* However often the search of next is left and gone on with, for every lattice: each
\* labelling has been given once, or waits as one end in the agenda.
THEOREM SearchIsComplete == Spec => []NoneIsLost
<1>1. IInv => NoneIsLost
  BY DEF IInv
<1>. QED BY <1>1, Invariance, PTL

\* The nodes viterbi has come to have a best cost that no path there exceeds: what the
\* bound of the search is exact by.
THEOREM ViterbiIsBest == Spec => []Bellman
<1>1. IInv => Bellman
  BY DEF IInv
<1>. QED BY <1>1, Invariance, PTL

\* The order of the labellings: none is cheaper than the one before, nor than the one
\* viterbi found.
CostsDoNotFall == [][at = "next" => cost_' >= cost_]_vars

\* It holds for every score, also where they are negative: by Bellman a longer end has
\* no lower bound than the one it is made of, and what is reported has the least.
THEOREM CostsHold == Spec => CostsDoNotFall
<1>1. IInv /\ [Next]_vars => [at = "next" => cost_' >= cost_]_vars
  <2>. SUFFICES ASSUME IInv, Next, at = "next" PROVE cost_' >= cost_
    BY DEF vars
  <2>1. cost_ \in Int /\ Forwarded /\ Searched
    BY DEF IInv, SearchInv, Forwarded, Searched
  <2>2. CASE Report
    BY <2>1, <2>2, ReportKeeps
  <2>3. CASE cost_' = cost_
    BY <2>1, <2>3
  <2>. QED BY <2>2, <2>3 DEF Next, Calls, Steps, Model, set_nbest, add, set_penalty, clear, parse, next,
                 Forward, Found, Expand, Exhausted, results
<1>. QED BY <1>1, Invariance, PTL DEF Spec, CostsDoNotFall

--------------------------------------------------------------------------
(* The score of a labelling l: its cost with the other sign, from the first word on. *)

\* What word i adds.
Added(lat, l, i) == lat[i].node[l[i]] + (IF i = 1 THEN 0 ELSE lat[i].path[l[i - 1]][l[i]])

IsScore(f, lat, l) ==
  f = [i \in 0..Len(lat) |->
         IF i = 0 THEN 0
         ELSE f[i - 1] + lat[i].node[l[i]] + (IF i = 1 THEN 0 ELSE lat[i].path[l[i - 1]][l[i]])]

Score(lat, l) == CHOOSE f : IsScore(f, lat, l)

LEMMA CostIsScore == ASSUME NEW l PROVE Cost(l) = -Score(lattice, l)[Len(lattice)]
BY DEF Cost, Score, IsScore

LEMMA AddedIsNumber ==
  ASSUME NEW lat \in Seq(Column), NEW l \in [1..Len(lat) -> Labels], NEW i \in 1..Len(lat)
  PROVE  /\ lat[i].node[l[i]] \in Int
         /\ (IF i = 1 THEN 0 ELSE lat[i].path[l[i - 1]][l[i]]) \in Int
<1>1. lat[i] \in Column /\ l[i] \in Labels /\ (i # 1 => i - 1 \in 1..Len(lat))
  OBVIOUS
<1>2. /\ lat[i].node \in [Labels -> Int]
      /\ lat[i].path \in [Labels -> [Labels -> Int]]
  BY <1>1 DEF Column
<1>3. ASSUME i # 1 PROVE lat[i].path[l[i - 1]][l[i]] \in Int
  <2>1. l[i - 1] \in Labels
    BY <1>1, <1>3
  <2>. QED BY <1>1, <1>2, <2>1
<1>. QED BY <1>1, <1>2, <1>3

\* It is a number, and word i adds its own to that of the words before.
LEMMA Scores ==
  ASSUME NEW lat \in Seq(Column), NEW l \in [1..Len(lat) -> Labels]
  PROVE  /\ \A i \in 0..Len(lat) : Score(lat, l)[i] \in Int
         /\ \A i \in 1..Len(lat) :
              Score(lat, l)[i] =
                (IF i = 1 THEN 0 ELSE Score(lat, l)[i - 1] + lat[i].path[l[i - 1]][l[i]])
                + lat[i].node[l[i]]
<1>. DEFINE n == Len(lat)
            a == [i \in 1..n |-> Added(lat, l, i)]
            F == [i \in 1..n |-> [v \in Int |-> v + a[i]]]
<1>0. n \in Nat
  OBVIOUS
<1>1. \A i \in 1..n : a[i] \in Int
  BY AddedIsNumber DEF Added
<1>2. F \in [1..n -> [Int -> Int]]
  <2>. HIDE DEF a, n
  <2>. QED BY <1>1
<1>3. PICK f \in [0..n -> Int] : Turns(f, 0, F, n)
  <2>. HIDE DEF F, n
  <2>1. 0 \in Int
    OBVIOUS
  <2>. QED BY <1>0, <1>2, <2>1, SomeTurns
<1>4. IsScore(f, lat, l)
  <2>1. ASSUME NEW i \in 0..n
        PROVE  f[i] = IF i = 0 THEN 0
                      ELSE f[i - 1] + lat[i].node[l[i]]
                           + (IF i = 1 THEN 0 ELSE lat[i].path[l[i - 1]][l[i]])
    <3>1. f[i] = IF i = 0 THEN 0 ELSE F[i][f[i - 1]]
      BY <1>3 DEF Turns
    <3>2. CASE i # 0
      <4>1. i \in 1..n /\ f[i - 1] \in Int
        BY <1>0, <3>2
      <4>2. F[i][f[i - 1]] = f[i - 1] + Added(lat, l, i)
        BY <4>1
      <4>3. /\ lat[i].node[l[i]] \in Int
            /\ (IF i = 1 THEN 0 ELSE lat[i].path[l[i - 1]][l[i]]) \in Int
        BY <4>1, AddedIsNumber
      <4>. HIDE DEF F, n
      <4>. QED BY <3>1, <3>2, <4>1, <4>2, <4>3 DEF Added
    <3>. QED BY <3>1, <3>2
  <2>. QED BY <2>1 DEF IsScore
<1>5. IsScore(Score(lat, l), lat, l)
  BY <1>4 DEF Score
<1>. DEFINE s == Score(lat, l)
<1>6. \A i \in 0..n : s[i] = IF i = 0 THEN 0
                              ELSE s[i - 1] + lat[i].node[l[i]]
                                   + (IF i = 1 THEN 0 ELSE lat[i].path[l[i - 1]][l[i]])
  BY <1>5 DEF IsScore
<1>. HIDE DEF s, n
<1>7. \A i \in 0..n : s[i] \in Int
  <2>. DEFINE P == {i \in Nat : s[i] \in Int}
  <2>1. 0 \in P
    BY <1>0, <1>6
  <2>2. ASSUME NEW i \in 0..(n - 1), i \in P PROVE i + 1 \in P
    <3>1. i + 1 \in 1..n /\ i + 1 \in 0..n /\ (i + 1) - 1 = i /\ i + 1 # 0
      BY <1>0
    <3>2. /\ lat[i + 1].node[l[i + 1]] \in Int
          /\ (IF i + 1 = 1 THEN 0 ELSE lat[i + 1].path[l[(i + 1) - 1]][l[i + 1]]) \in Int
      BY <3>1, AddedIsNumber DEF n
    <3>3. s[i + 1] = s[i] + lat[i + 1].node[l[i + 1]]
                     + (IF i + 1 = 1 THEN 0 ELSE lat[i + 1].path[l[(i + 1) - 1]][l[i + 1]])
      BY <1>6, <3>1
    <3>4. s[i + 1] \in Int
      BY <2>2, <3>2, <3>3
    <3>. QED BY <3>4
  <2>3. P \in SUBSET Nat
    OBVIOUS
  <2>4. \A i \in 0..n : i \in P
    <3>. HIDE DEF P
    <3>. QED BY <1>0, <2>1, <2>2, <2>3, UpTo
  <2>. QED BY <2>4
<1>8. ASSUME NEW i \in 1..n
      PROVE  s[i] = (IF i = 1 THEN 0 ELSE s[i - 1] + lat[i].path[l[i - 1]][l[i]])
             + lat[i].node[l[i]]
  <2>1. i \in 0..n /\ i - 1 \in 0..n /\ i # 0
    BY <1>0
  <2>2. s[i] = s[i - 1] + lat[i].node[l[i]]
               + (IF i = 1 THEN 0 ELSE lat[i].path[l[i - 1]][l[i]])
    BY <1>6, <2>1
  <2>3. /\ lat[i].node[l[i]] \in Int
        /\ (IF i = 1 THEN 0 ELSE lat[i].path[l[i - 1]][l[i]]) \in Int
    BY AddedIsNumber DEF n
  <2>4. CASE i = 1
    <3>1. s[i - 1] = 0
      BY <1>6, <1>0, <2>4
    <3>. QED BY <2>2, <2>3, <2>4, <3>1
  <2>5. CASE i # 1
    <3>1. s[i - 1] \in Int /\ lat[i].path[l[i - 1]][l[i]] \in Int
      BY <1>7, <2>1, <2>3, <2>5
    <3>. QED BY <2>2, <2>3, <2>5, <3>1
  <2>. QED BY <2>4, <2>5
<1>. QED BY <1>7, <1>8 DEF s, n

--------------------------------------------------------------------------
(* viterbi goes back by prev, along a path as good as the best. *)

\* The best cost of a node is that over its prev.
PrevInv ==
  /\ prev \in Seq([Labels -> Int]) /\ Len(prev) = Len(best)
  /\ \A i \in 2..Len(best) :
       prev[i] \in [Labels -> Labels] /\ \A y \in Labels : best[i][y] = Over(i, prev[i][y], y)

LEMMA ForwardKeepsPrev ==
  ASSUME Forwarded, PrevInv, Forward
  PROVE  PrevInv'
<1>. DEFINE i == Len(best) + 1
<1>0. /\ Len(best) \in Nat /\ UNCHANGED lattice /\ Len(prev) = Len(best)
      /\ best \in Seq([Labels -> Int]) /\ prev \in Seq([Labels -> Int])
  BY DEF Forwarded, LatticeInv, Forward, PrevInv
<1>1. CASE Len(best) = 0
  <2>1. best' = <<lattice[1].node>> /\ prev' = <<[y \in Labels |-> -1]>>
    BY <1>1 DEF Forward
  <2>2. [y \in Labels |-> -1] \in [Labels -> Int]
    OBVIOUS
  <2>3. Len(best') = 1 /\ Len(prev') = 1 /\ prev' \in Seq([Labels -> Int])
    BY <2>1, <2>2
  <2>4. 2..Len(best') = {}
    BY <2>3
  <2>. QED BY <2>3, <2>4 DEF PrevInv
<1>2. CASE Len(best) > 0
  <2>1. PICK from \in [Labels -> Labels] :
           /\ \A l, y \in Labels : Over(i, l, y) \in Int
           /\ best' = Append(best, [y \in Labels |-> Over(i, from[y], y)])
           /\ prev' = Append(prev, from)
    BY <1>2, ForwardTakes
  <2>2. from \in [Labels -> Int]
    BY DEF Labels
  <2>3. [y \in Labels |-> Over(i, from[y], y)] \in [Labels -> Int]
    BY <2>1
  <2>4. /\ prev' \in Seq([Labels -> Int]) /\ Len(prev') = i /\ prev'[i] = from
        /\ \A k \in 1..Len(best) : prev'[k] = prev[k]
    BY <1>0, <2>1, <2>2
  <2>5. /\ Len(best') = i /\ best'[i] = [y \in Labels |-> Over(i, from[y], y)]
        /\ \A k \in 1..Len(best) : best'[k] = best[k]
    BY <1>0, <2>1, <2>3
  <2>6. ASSUME NEW k \in 2..Len(best')
        PROVE  /\ prev'[k] \in [Labels -> Labels]
               /\ \A y \in Labels : best'[k][y] = best'[k - 1][prev'[k][y]]
                                     + lattice'[k].path[prev'[k][y]][y] + lattice'[k].node[y]
    <3>0. k \in 2..i /\ k - 1 \in 1..Len(best)
      <4>1. Len(best') = i
        BY <2>5
      <4>. QED BY <1>0, <4>1
    <3>1. best'[k - 1] = best[k - 1]
      BY <2>5, <3>0
    <3>2. CASE k = i
      <4>1. prev'[k] = from /\ best'[k] = [y \in Labels |-> Over(i, from[y], y)]
        BY <2>4, <2>5, <3>2
      <4>2. k - 1 = i - 1 /\ lattice' = lattice
        BY <1>0, <3>2
      <4>. QED BY <3>1, <3>2, <4>1, <4>2 DEF Over
    <3>3. CASE k # i
      <4>0. k \in 2..Len(best) /\ k \in 1..Len(best)
        BY <1>0, <3>0, <3>3
      <4>1. k \in 2..Len(best) /\ best'[k] = best[k] /\ prev'[k] = prev[k]
        BY <2>4, <2>5, <4>0
      <4>. QED BY <1>0, <3>1, <4>1 DEF PrevInv, Over
    <3>. QED BY <3>2, <3>3
  <2>. QED BY <2>4, <2>5, <2>6 DEF PrevInv, Over
<1>. QED BY <1>0, <1>1, <1>2

\* No labelling comes to a node with a better score than the best.
LEMMA BestIsBest ==
  ASSUME Forwarded, Len(best) = Len(lattice), NEW l \in Labellings
  PROVE  \A i \in 1..Len(lattice) : Score(lattice, l)[i] <= best[i][l[i]]
<1>. DEFINE n == Len(lattice)
            s == Score(lattice, l)
            P == {i \in Nat : i = 0 \/ s[i] <= best[i][l[i]]}
<1>0. /\ lattice \in Seq(Column) /\ n \in Nat /\ best \in Seq([Labels -> Int]) /\ Len(best) = n
      /\ l \in [1..n -> Labels]
  BY DEF Forwarded, LatticeInv, Labellings
<1>1. /\ \A i \in 0..n : s[i] \in Int
      /\ \A i \in 1..n :
           s[i] = (IF i = 1 THEN 0 ELSE s[i - 1] + lattice[i].path[l[i - 1]][l[i]])
                   + lattice[i].node[l[i]]
  BY <1>0, Scores
<1>. HIDE DEF s
<1>2. ASSUME NEW i \in 0..(n - 1), i \in P PROVE i + 1 \in P
  <2>1. i + 1 \in 1..n /\ (i + 1) - 1 = i
    BY <1>0
  <2>2. best[i + 1] \in [Labels -> Int] /\ lattice[i + 1] \in Column /\ l[i + 1] \in Labels
    BY <1>0, <2>1
  <2>3. lattice[i + 1].node[l[i + 1]] \in Int /\ best[i + 1][l[i + 1]] \in Int
    BY <2>2 DEF Column
  <2>4. CASE i = 0
    <3>1. s[1] = 0 + lattice[1].node[l[1]]
      BY <1>1, <2>1, <2>4
    <3>2. best[1] = lattice[1].node
      BY <1>0, <2>1, <2>4 DEF Forwarded, Bellman
    <3>3. s[1] <= best[1][l[1]]
      BY <2>3, <2>4, <3>1, <3>2
    <3>. QED BY <2>4, <3>3
  <2>5. CASE i # 0
    <3>0. i + 1 \in 2..n /\ i \in 1..n /\ i \in 0..n /\ i + 1 # 1
      BY <1>0, <2>1, <2>5
    <3>1. i + 1 \in 2..Len(best) /\ i \in 1..n /\ l[i] \in Labels /\ i \in 0..n /\ i + 1 # 1
      <4>1. Len(best) = n /\ l[i] \in Labels
        BY <1>0, <3>0
      <4>. QED BY <3>0, <4>1
    <3>2. s[i + 1] = s[i] + lattice[i + 1].path[l[i]][l[i + 1]] + lattice[i + 1].node[l[i + 1]]
      BY <1>1, <2>1, <3>1
    <3>3. best[i][l[i]] + lattice[i + 1].path[l[i]][l[i + 1]] + lattice[i + 1].node[l[i + 1]]
            <= best[i + 1][l[i + 1]]
      BY <2>1, <2>2, <3>1 DEF Forwarded, Bellman, Over
    <3>4. lattice[i + 1].path[l[i]][l[i + 1]] \in Int /\ best[i][l[i]] \in Int /\ s[i] \in Int
      <4>1. best[i] \in [Labels -> Int]
        BY <1>0, <3>1
      <4>2. lattice[i + 1].path \in [Labels -> [Labels -> Int]]
        BY <2>2 DEF Column
      <4>3. s[i] \in Int
        BY <1>1, <3>1
      <4>. QED BY <2>2, <3>1, <4>1, <4>2, <4>3
    <3>5. s[i] <= best[i][l[i]]
      BY <1>2, <2>5
    <3>6. s[i + 1] <= best[i + 1][l[i + 1]]
      <4>. DEFINE p  == lattice[i + 1].path[l[i]][l[i + 1]]
                  nd == lattice[i + 1].node[l[i + 1]]
                  b  == best[i][l[i]]
                  b1 == best[i + 1][l[i + 1]]
                  s0 == s[i]
      <4>1. p \in Int /\ nd \in Int /\ b \in Int /\ b1 \in Int /\ s0 \in Int
        BY <2>3, <3>4
      <4>2. s[i + 1] = s0 + p + nd /\ b + p + nd <= b1 /\ s0 <= b
        BY <3>2, <3>3, <3>5
      <4>3. s[i + 1] <= b1
        <5>. HIDE DEF p, nd, b, b1, s0
        <5>. QED BY <4>1, <4>2
      <4>. QED BY <4>3
    <3>. QED BY <3>6
  <2>. QED BY <2>4, <2>5
<1>3. \A i \in 0..n : i \in P
  <2>1. 0 \in P /\ P \in SUBSET Nat
    OBVIOUS
  <2>. HIDE DEF P, n
  <2>. QED BY <1>0, <1>2, <2>1, UpTo
<1>4. ASSUME NEW i \in 1..n PROVE s[i] <= best[i][l[i]]
  <2>1. i \in P /\ i # 0
    BY <1>0, <1>3
  <2>. QED BY <2>1
<1>. QED BY <1>4 DEF s

\* The labels prev leads to are a labelling, and its score is the best of the last node.
LEMMA TraceIsBest ==
  ASSUME Forwarded, PrevInv, Len(best) = Len(lattice), Len(lattice) > 0, NEW y \in Labels
  PROVE  LET n == Len(lattice)
             t == Trace(n, y)
         IN  /\ t \in [1..n -> Labels] /\ t[n] = y
             /\ Score(lattice, t)[n] = best[n][y]
<1>. DEFINE n == Len(lattice)
            t == Trace(n, y)
            F == [k \in 1..(n - 1) |-> prev[n - k + 1]]
            Is(f) == f = [k \in 0..(n - 1) |-> IF k = 0 THEN y ELSE prev[n - k + 1][f[k - 1]]]
            g == CHOOSE f : Is(f)
<1>0. /\ lattice \in Seq(Column) /\ n \in Nat /\ n - 1 \in Nat /\ n > 0
      /\ best \in Seq([Labels -> Int]) /\ Len(best) = n
  BY DEF Forwarded, LatticeInv
<1>1. \A i \in 2..n : prev[i] \in [Labels -> Labels]
                      /\ \A z \in Labels : best[i][z] = Over(i, prev[i][z], z)
  BY <1>0 DEF PrevInv
<1>2. F \in [1..(n - 1) -> [Labels -> Labels]]
  <2>1. \A k \in 1..(n - 1) : n - k + 1 \in 2..n
    BY <1>0
  <2>. HIDE DEF n
  <2>. QED BY <1>1, <2>1
<1>3. \E f \in [0..(n - 1) -> Labels] : Is(f)
  <2>1. PICK f \in [0..(n - 1) -> Labels] : Turns(f, y, F, n - 1)
    <3>. HIDE DEF F, n
    <3>. QED BY <1>0, <1>2, SomeTurns
  <2>2. ASSUME NEW k \in 0..(n - 1) PROVE f[k] = IF k = 0 THEN y ELSE prev[n - k + 1][f[k - 1]]
    <3>1. f[k] = IF k = 0 THEN y ELSE F[k][f[k - 1]]
      BY <2>1 DEF Turns
    <3>2. k # 0 => k \in 1..(n - 1)
      BY <1>0
    <3>. QED BY <3>1, <3>2
  <2>3. Is(f)
    <3>. HIDE DEF n
    <3>. QED BY <2>2
  <2>. QED BY <2>3
<1>4. Is(g)
  <2>. HIDE DEF Is
  <2>. QED BY <1>3
<1>5. t = [i \in 1..n |-> g[n - i]]
  BY DEF Trace
<1>. HIDE DEF g, t, F
<1>6. /\ g[0] = y
      /\ \A k \in 1..(n - 1) : g[k] = prev[n - k + 1][g[k - 1]]
  <2>1. \A k \in 0..(n - 1) : g[k] = IF k = 0 THEN y ELSE prev[n - k + 1][g[k - 1]]
    BY <1>4
  <2>. HIDE DEF n
  <2>. QED BY <1>0, <2>1
<1>7. \A k \in 0..(n - 1) : g[k] \in Labels
  <2>. DEFINE P == {k \in Nat : g[k] \in Labels}
  <2>1. 0 \in P /\ P \in SUBSET Nat
    BY <1>6
  <2>2. ASSUME NEW k \in 0..((n - 1) - 1), k \in P PROVE k + 1 \in P
    <3>1. k + 1 \in 1..(n - 1) /\ (k + 1) - 1 = k /\ n - (k + 1) + 1 \in 2..n
      BY <1>0
    <3>2. g[k + 1] = prev[n - (k + 1) + 1][g[k]]
      BY <1>6, <3>1
    <3>. QED BY <1>1, <2>2, <3>1, <3>2
  <2>3. \A k \in 0..(n - 1) : k \in P
    <3>. HIDE DEF P, n
    <3>. QED BY <1>0, <2>1, <2>2, UpTo
  <2>. QED BY <2>3
<1>8. t \in [1..n -> Labels] /\ t[n] = y
  <2>1. \A i \in 1..n : n - i \in 0..(n - 1)
    BY <1>0
  <2>2. n \in 1..n /\ n - n = 0
    BY <1>0
  <2>. HIDE DEF n
  <2>. QED BY <1>5, <1>6, <1>7, <2>1, <2>2
<1>9. \A i \in 2..n : t[i - 1] = prev[i][t[i]]
  <2>1. ASSUME NEW i \in 2..n PROVE t[i - 1] = prev[i][t[i]]
    <3>1. /\ n - (i - 1) \in 1..(n - 1) /\ i - 1 \in 1..n /\ i \in 1..n
          /\ n - (n - (i - 1)) + 1 = i /\ (n - (i - 1)) - 1 = n - i
      BY <1>0
    <3>2. t[i - 1] = g[n - (i - 1)] /\ t[i] = g[n - i]
      BY <1>5, <3>1
    <3>3. g[n - (i - 1)] = prev[n - (n - (i - 1)) + 1][g[(n - (i - 1)) - 1]]
      BY <1>6, <3>1
    <3>. QED BY <3>1, <3>2, <3>3
  <2>. QED BY <2>1
<1>. DEFINE s == Score(lattice, t)
<1>10. /\ \A i \in 0..n : s[i] \in Int
       /\ \A i \in 1..n :
            s[i] = (IF i = 1 THEN 0 ELSE s[i - 1] + lattice[i].path[t[i - 1]][t[i]])
                   + lattice[i].node[t[i]]
  BY <1>0, <1>8, Scores
<1>11. \A i \in 1..n : s[i] = best[i][t[i]]
  <2>. DEFINE P == {i \in Nat : i = 0 \/ s[i] = best[i][t[i]]}
  <2>. HIDE DEF s
  <2>1. 0 \in P /\ P \in SUBSET Nat
    OBVIOUS
  <2>2. ASSUME NEW i \in 0..(n - 1), i \in P PROVE i + 1 \in P
    <3>1. i + 1 \in 1..n /\ (i + 1) - 1 = i
      BY <1>0
    <3>2. t[i + 1] \in Labels /\ lattice[i + 1] \in Column
      <4>1. lattice \in [1..n -> Column]
        BY <1>0
      <4>. HIDE DEF n
      <4>. QED BY <1>8, <3>1, <4>1
    <3>3. CASE i = 0
      <4>1. s[1] = 0 + lattice[1].node[t[1]]
        BY <1>10, <3>1, <3>3
      <4>2. best[1] = lattice[1].node
        BY <1>0, <3>1, <3>3 DEF Forwarded, Bellman
      <4>3. lattice[1].node[t[1]] \in Int
        BY <3>2, <3>3 DEF Column
      <4>. QED BY <3>3, <4>1, <4>2, <4>3
    <3>4. CASE i # 0
      <4>1. i + 1 \in 2..n /\ i + 1 # 1 /\ i \in 1..n
        BY <1>0, <3>1, <3>4
      <4>2. s[i + 1] = s[i] + lattice[i + 1].path[t[i]][t[i + 1]] + lattice[i + 1].node[t[i + 1]]
        BY <1>10, <3>1, <4>1
      <4>3. t[i] = prev[i + 1][t[i + 1]]
        BY <1>9, <3>1, <4>1
      <4>4. best[i + 1][t[i + 1]] = Over(i + 1, prev[i + 1][t[i + 1]], t[i + 1])
        BY <1>1, <3>2, <4>1
      <4>5. best[i + 1][t[i + 1]]
              = best[i][t[i]] + lattice[i + 1].path[t[i]][t[i + 1]] + lattice[i + 1].node[t[i + 1]]
        BY <3>1, <4>3, <4>4 DEF Over
      <4>6. s[i] = best[i][t[i]]
        BY <2>2, <3>4
      <4>. QED BY <4>2, <4>5, <4>6
    <3>. QED BY <3>3, <3>4
  <2>3. \A i \in 0..n : i \in P
    <3>. HIDE DEF P, n
    <3>. QED BY <1>0, <2>1, <2>2, UpTo
  <2>4. ASSUME NEW i \in 1..n PROVE s[i] = best[i][t[i]]
    <3>1. i \in P /\ i # 0
      BY <1>0, <2>3
    <3>. QED BY <3>1
  <2>. QED BY <2>4
<1>12. n \in 1..n
  BY <1>0
<1>. QED BY <1>8, <1>11, <1>12 DEF t, s

--------------------------------------------------------------------------
(* What the tagger reports. *)

\* There is a label for each word, and the lattice is of the first of them.
ResultInv ==
  /\ nbest_ \in 0..MaxNBest /\ found \in BOOLEAN
  /\ result_ \in Seq(Labels) /\ Len(result_) = Len(x_)
  /\ Len(lattice) <= Len(x_)
  /\ at = "viterbi" => Len(lattice) = Len(x_)

\* An end has the cost of its words, whatever stands before it.
CostInv ==
  asked => \A e \in agenda : \A l \in Labellings :
    Ends(e, l) => e.gx = Score(lattice, l)[e.x] - Score(lattice, l)[Len(lattice)]
                         - lattice[e.x].node[l[e.x]]

ReportsIInv == PrevInv /\ ResultInv /\ CostInv

LEMMA ReportsInit == Init => ReportsIInv
<1>. SUFFICES ASSUME Init PROVE ReportsIInv
  OBVIOUS
<1>1. PrevInv
  BY DEF Init, PrevInv
<1>2. ResultInv
  BY DEF Init, ResultInv
<1>3. CostInv
  BY DEF Init, CostInv
<1>. QED BY <1>1, <1>2, <1>3 DEF ReportsIInv

LEMMA PrevStep ==
  ASSUME IInv, PrevInv, [Next]_vars
  PROVE  PrevInv'
<1>1. CASE UNCHANGED <<lattice, best, prev>>
  BY <1>1 DEF PrevInv, Over
<1>2. CASE best' = <<>> /\ prev' = <<>>
  BY <1>2 DEF PrevInv
<1>3. CASE Forward
  BY <1>3, ForwardKeepsPrev DEF IInv, Forwarded
<1>. QED
  BY <1>1, <1>2, <1>3 DEF Next, Calls, Steps, Model, set_nbest, add, set_penalty, clear, parse, next,
     Found, Expand, Report, Exhausted, vars, forward

LEMMA ResultStep ==
  ASSUME IInv, PrevInv, ResultInv, [Next]_vars
  PROVE  ResultInv'
<1>0. Len(x_) \in Nat /\ Len(lattice) \in Nat /\ x_ \in Seq(Words)
  BY DEF IInv, TextInv, LatticeInv
<1>1. CASE UNCHANGED <<x_, result_, lattice>> /\ nbest_' \in 0..MaxNBest /\ found' \in BOOLEAN
           /\ (at' = "viterbi" => at = "viterbi")
  BY <1>1 DEF ResultInv
<1>2. CASE UNCHANGED <<x_, result_, lattice, nbest_, found, at>>
  BY <1>2 DEF ResultInv
<1>3. CASE add
  <2>1. PICK t \in Texts : Len(x_) < Len(t) /\ x_' = SubSeq(t, 1, Len(x_) + 1)
    BY <1>3 DEF add
  <2>2. t \in Seq(Words)
    BY ScoresAssumption
  <2>3. Len(x_') = Len(x_) + 1
    BY <1>0, <2>1, <2>2
  <2>4. 0 \in Labels
    BY ScoresAssumption DEF Labels
  <2>5. result_' \in Seq(Labels) /\ Len(result_') = Len(result_) + 1
    BY <1>3, <2>4 DEF add, ResultInv
  <2>6. UNCHANGED <<nbest_, found, lattice, at>> /\ at = "idle"
    BY <1>3 DEF add, forward, search
  <2>. QED BY <1>0, <2>3, <2>5, <2>6 DEF ResultInv
<1>4. CASE clear
  BY <1>4 DEF clear, ResultInv
<1>5. CASE parse
  <2>1. UNCHANGED <<nbest_, found, x_, result_>> /\ DOMAIN lattice' = DOMAIN x_
    BY <1>5 DEF parse, sentence, results
  <2>2. lattice' \in Seq(Column)
    BY <1>5, parseKeeps DEF IInv, Forwarded, Searched, LatticeInv
  <2>3. Len(lattice') = Len(x_)
    BY <1>0, <2>1, <2>2
  <2>. QED BY <1>0, <2>1, <2>3 DEF ResultInv
<1>6. CASE Found
  <2>. DEFINE n == Len(lattice)
              eos == CHOOSE y \in Labels : Leading(y, best[n])
  <2>1. Len(best) = n /\ n > 0 /\ best[n] \in [Labels -> Int]
    BY <1>0, <1>6 DEF Found, IInv, LatticeInv
  <2>2. \E y \in Labels : Leading(y, best[n])
    BY <2>1, SomeLeads
  <2>3. eos \in Labels
    BY <2>2
  <2>4. result_' = Trace(n, eos)
    BY <1>6 DEF Found
  <2>. HIDE DEF eos
  <2>5. result_' \in [1..n -> Labels]
    BY <2>1, <2>3, <2>4, TraceIsBest DEF IInv, Forwarded
  <2>6. UNCHANGED <<nbest_, found, x_, lattice>> /\ at = "viterbi" /\ at' = "idle"
    BY <1>6 DEF Found, sentence, forward
  <2>7. result_' \in Seq(Labels) /\ Len(result_') = n
    <3>. HIDE DEF n
    <3>1. n \in Nat
      BY <1>0 DEF n
    <3>. QED BY <2>5, <3>1
  <2>. QED BY <1>0, <2>6, <2>7 DEF ResultInv
<1>7. CASE Report
  <2>1. PICK e \in agenda : /\ Top(e) /\ e.x = 1
                            /\ result_' = [i \in DOMAIN result_ |->
                                             IF i <= Len(lattice) THEN e.y[i] ELSE result_[i]]
    BY <1>7 DEF Report
  <2>2. Waits(e)
    BY <1>7 DEF Report, IInv, SearchInv
  <2>3. e.y \in [1..Len(lattice) -> Labels]
    BY <2>1, <2>2 DEF Waits
  <2>4. result_ \in Seq(Labels) /\ DOMAIN result_ = 1..Len(x_)
    BY DEF ResultInv
  <2>5. ASSUME NEW i \in 1..Len(x_)
        PROVE  (IF i <= Len(lattice) THEN e.y[i] ELSE result_[i]) \in Labels
    <3>1. i <= Len(lattice) => i \in 1..Len(lattice)
      BY <1>0
    <3>. QED BY <2>3, <2>4, <3>1
  <2>6. result_' \in [1..Len(x_) -> Labels]
    BY <2>1, <2>4, <2>5
  <2>7. result_' \in Seq(Labels) /\ Len(result_') = Len(x_)
    BY <1>0, <2>6
  <2>8. UNCHANGED <<nbest_, x_, lattice>> /\ at' = "idle" /\ found' = TRUE
    BY <1>7 DEF Report, sentence, forward
  <2>. QED BY <1>0, <2>7, <2>8 DEF ResultInv
<1>8. CASE Model
  <2>1. UNCHANGED <<x_, result_, lattice, found>> /\ (at' = "viterbi" => at = "viterbi")
    BY <1>8 DEF Model, results, forward
  <2>2. nbest_' \in 0..MaxNBest
    BY <1>8 DEF Model, ResultInv
  <2>. QED BY <1>1, <2>1, <2>2 DEF ResultInv
<1>9. CASE set_nbest \/ set_penalty \/ next \/ Forward \/ Expand \/ Exhausted
  <2>1. UNCHANGED <<x_, result_, lattice>> /\ (at' = "viterbi" => at = "viterbi")
    BY <1>9 DEF set_nbest, set_penalty, next, Forward, Expand, Exhausted, results, forward, sentence
  <2>2. nbest_' \in 0..MaxNBest /\ found' \in BOOLEAN
    BY <1>9 DEF set_nbest, set_penalty, next, Forward, Expand, Exhausted, sentence, search, ResultInv
  <2>. QED BY <1>1, <2>1, <2>2
<1>10. CASE UNCHANGED vars
  BY <1>2, <1>10 DEF vars, sentence, results, forward, search
<1>. QED BY <1>3, <1>4, <1>5, <1>6, <1>7, <1>8, <1>9, <1>10 DEF Next, Calls, Steps

\* One more label in front: its word and the path to the next are added.
LEMMA CostStep ==
  ASSUME IInv, CostInv, [Next]_vars
  PROVE  CostInv'
<1>0. /\ lattice \in Seq(Column) /\ Len(lattice) \in Nat
      /\ Labellings = [1..Len(lattice) -> Labels]
  BY DEF IInv, LatticeInv, Labellings
<1>1. CASE ~asked'
  BY <1>1 DEF CostInv
<1>2. CASE asked' = asked /\ lattice' = lattice /\ agenda' \subseteq agenda
  BY <1>2 DEF CostInv, Ends, Labellings
<1>3. CASE Found /\ asked'
  <2>. DEFINE n == Len(lattice)
  <2>1. agenda' = {Element(n, y) : y \in Labels} /\ lattice' = lattice /\ n \in 1..n
    <3>1. nbest_ > 0
      BY <1>3 DEF Found
    <3>2. agenda' = {Element(n, y) : y \in Labels} /\ lattice' = lattice
      BY <1>3, <3>1 DEF Found, forward
    <3>3. n > 0
      BY <1>3 DEF Found, IInv, LatticeInv
    <3>. QED BY <1>0, <3>2, <3>3
  <2>2. ASSUME NEW e \in agenda', NEW l \in Labellings, \A i \in e.x..n : e.y[i] = l[i]
        PROVE  e.gx = Score(lattice, l)[e.x] - Score(lattice, l)[n] - lattice[e.x].node[l[e.x]]
    <3>1. PICK y \in Labels : e = Element(n, y)
      BY <2>1
    <3>2. e.x = n /\ e.y[n] = y /\ e.gx = -lattice[n].node[y]
      BY <3>1 DEF Element
    <3>3. n \in e.x..n
      BY <2>1, <3>2
    <3>4. l[n] = y
      BY <2>2, <3>2, <3>3
    <3>5. Score(lattice, l)[n] \in Int /\ lattice[n].node[y] \in Int
      <4>1. Score(lattice, l)[n] \in Int
        BY <1>0, Scores
      <4>2. lattice[n] \in Column
        BY <1>0, <2>1
      <4>. QED BY <4>1, <4>2 DEF Column
    <3>. QED BY <3>2, <3>4, <3>5
  <2>. QED BY <2>1, <2>2 DEF CostInv, Ends, Labellings
<1>4. CASE Expand
  <2>1. PICK e \in agenda : e.x > 1 /\ agenda' = (agenda \ {e}) \cup {Longer(e, m) : m \in Labels}
    BY <1>4 DEF Expand
  <2>2. UNCHANGED <<lattice, asked>> /\ asked
    BY <1>4 DEF Expand, forward, IInv, SearchInv
  <2>3. Waits(e)
    BY <2>2 DEF IInv, SearchInv
  <2>4. e.x \in 1..Len(lattice) /\ e.x - 1 \in 1..Len(lattice) /\ e.gx \in Int
    BY <1>0, <2>1, <2>3 DEF Waits
  <2>5. ASSUME NEW m \in Labels, NEW f, f = Longer(e, m),
               NEW l \in Labellings, \A i \in f.x..Len(lattice) : f.y[i] = l[i]
        PROVE  f.gx = Score(lattice, l)[f.x] - Score(lattice, l)[Len(lattice)]
                      - lattice[f.x].node[l[f.x]]
    <3>. DEFINE k == e.x - 1
                s == Score(lattice, l)
                n == Len(lattice)
    <3>1. /\ f.x = k /\ f.y[k] = m
          /\ \A i \in e.x..n : f.y[i] = e.y[i]
      <4>1. Forwarded /\ SearchInv
        BY DEF IInv, Forwarded
      <4>. QED BY <2>1, <2>2, <2>5, <4>1, LongerWaits
    <3>2. l[k] = m /\ Ends(e, l)
      <4>1. k \in f.x..n /\ \A i \in e.x..n : i \in f.x..n
        BY <1>0, <2>4, <3>1
      <4>. QED BY <2>5, <3>1, <4>1 DEF Ends
    <3>3. e.gx = s[e.x] - s[n] - lattice[e.x].node[l[e.x]]
      BY <2>2, <3>2 DEF CostInv
    <3>4. e.y[e.x] = l[e.x]
      BY <1>0, <2>4, <3>2 DEF Ends
    <3>5. f.gx = -lattice[k].node[m] + (-lattice[e.x].path[m][e.y[e.x]] + e.gx)
      BY <2>5 DEF Longer
    <3>6. /\ s[e.x] = s[k] + lattice[e.x].path[l[k]][l[e.x]] + lattice[e.x].node[l[e.x]]
          /\ s[e.x] \in Int /\ s[k] \in Int /\ s[n] \in Int
      <4>1. l \in [1..n -> Labels]
        BY <1>0
      <4>2. /\ \A i \in 0..n : s[i] \in Int
            /\ \A i \in 1..n :
                 s[i] = (IF i = 1 THEN 0 ELSE s[i - 1] + lattice[i].path[l[i - 1]][l[i]])
                        + lattice[i].node[l[i]]
        <5>. HIDE DEF n, s
        <5>. QED BY <1>0, <4>1, Scores DEF n, s
      <4>3. e.x \in 0..n /\ k \in 0..n /\ n \in 0..n /\ e.x # 1
        BY <1>0, <2>1, <2>4
      <4>. HIDE DEF s, n
      <4>. QED BY <2>4, <4>2, <4>3 DEF n
    <3>7. /\ lattice[k].node[l[k]] \in Int /\ lattice[e.x].path[l[k]][l[e.x]] \in Int
          /\ lattice[e.x].node[l[e.x]] \in Int
      <4>1. lattice[k] \in Column /\ lattice[e.x] \in Column /\ l[k] \in Labels /\ l[e.x] \in Labels
        <5>. HIDE DEF k
        <5>. QED BY <1>0, <2>4 DEF k
      <4>. QED BY <4>1 DEF Column
    <3>8. f.gx = s[k] - s[n] - lattice[k].node[l[k]]
      <4>. DEFINE a == lattice[k].node[l[k]]
                  b == lattice[e.x].path[l[k]][l[e.x]]
                  c == lattice[e.x].node[l[e.x]]
                  g == e.gx
                  p == s[e.x]
                  q == s[k]
                  r == s[n]
      <4>1. f.gx = -a + (-b + g)
        BY <3>2, <3>4, <3>5
      <4>2. g = p - r - c /\ p = q + b + c
        BY <3>3, <3>6
      <4>3. a \in Int /\ b \in Int /\ c \in Int /\ p \in Int /\ q \in Int /\ r \in Int
        BY <3>6, <3>7
      <4>4. f.gx = q - r - a
        <5>. HIDE DEF a, b, c, g, p, q, r
        <5>. QED BY <4>1, <4>2, <4>3
      <4>. QED BY <4>4
    <3>. QED BY <3>1, <3>8
  <2>6. ASSUME NEW f \in agenda', NEW l \in Labellings, \A i \in f.x..Len(lattice) : f.y[i] = l[i]
        PROVE  f.gx = Score(lattice, l)[f.x] - Score(lattice, l)[Len(lattice)]
                      - lattice[f.x].node[l[f.x]]
    <3>1. CASE f \in agenda
      BY <2>2, <2>6, <3>1 DEF CostInv, Ends
    <3>2. CASE f \notin agenda
      <4>1. PICK m \in Labels : f = Longer(e, m)
        BY <2>1, <3>2
      <4>. QED BY <2>5, <2>6, <4>1
    <3>. QED BY <3>1, <3>2
  <2>. QED BY <2>2, <2>6 DEF CostInv, Ends, Labellings
<1>5. CASE Model
  BY <1>1, <1>2, <1>5 DEF Model, forward
<1>6. CASE Found
  BY <1>1, <1>3, <1>6
<1>7. CASE Report
  <2>1. UNCHANGED <<asked, lattice>> /\ agenda' \subseteq agenda
    BY <1>7 DEF Report, forward
  <2>. QED BY <1>2, <2>1
<1>8. CASE clear \/ parse
  BY <1>1, <1>8 DEF clear, parse
<1>9. CASE Forward
  BY <1>1, <1>9 DEF Forward, search, IInv, SearchInv
<1>10. CASE set_nbest \/ add \/ set_penalty \/ next \/ Exhausted \/ UNCHANGED vars
  BY <1>2, <1>10 DEF set_nbest, add, set_penalty, next, Exhausted, search, forward, vars
<1>. QED BY <1>4, <1>5, <1>6, <1>7, <1>8, <1>9, <1>10 DEF Next, Calls, Steps

LEMMA ReportsInvariance == Spec => []ReportsIInv
<1>1. IInv /\ ReportsIInv /\ [Next]_vars => ReportsIInv'
  BY PrevStep, ResultStep, CostStep DEF ReportsIInv
<1>. QED BY ReportsInit, <1>1, Invariance, PTL DEF Spec

\* A sentence, its lattice and the search for its labellings have lengths that fit, in
\* whatever order words are added, models changed and labellings asked for.
THEOREM TypeCorrect == Spec => []TypeOK
<1>1. IInv /\ ReportsIInv => TypeOK
  <2>. SUFFICES ASSUME IInv, ReportsIInv PROVE TypeOK
    OBVIOUS
  <2>1. /\ x_ \in Seq(Words) /\ result_ \in Seq(Labels) /\ Len(result_) = Len(x_)
        /\ penalty_ \in Seq([Labels -> Int])
        /\ nbest_ \in 0..MaxNBest /\ cost_ \in Int
    BY DEF IInv, TextInv, SearchInv, ReportsIInv, ResultInv
  <2>2. /\ lattice \in Seq([node : [Labels -> Int], path : [Labels -> [Labels -> Int]]])
        /\ best \in Seq([Labels -> Int]) /\ Len(prev) = Len(best) /\ Len(best) <= Len(lattice)
        /\ at # "viterbi" => Len(best) = Len(lattice)
    BY DEF IInv, LatticeInv, Column, ReportsIInv, PrevInv
  <2>3. ASSUME asked, NEW e \in agenda
        PROVE  /\ e.x \in DOMAIN lattice /\ e.y \in [e.x..Len(lattice) -> Labels]
               /\ e.gx \in Int /\ e.fx \in Int
    <3>1. Waits(e) /\ at # "viterbi"
      BY <2>3 DEF IInv, SearchInv
    <3>2. /\ e.x \in 1..Len(lattice) /\ e.y \in [e.x..Len(lattice) -> Labels] /\ e.gx \in Int
          /\ e.fx = e.gx + lattice[e.x].node[e.y[e.x]] - best[e.x][e.y[e.x]]
      BY <3>1 DEF Waits
    <3>3. /\ lattice \in Seq(Column) /\ best \in Seq([Labels -> Int])
          /\ Len(best) = Len(lattice) /\ Len(lattice) \in Nat
      BY <3>1 DEF IInv, LatticeInv
    <3>4. e.x \in e.x..Len(lattice) /\ e.x \in DOMAIN lattice
      BY <3>2, <3>3
    <3>5. e.y[e.x] \in Labels /\ lattice[e.x] \in Column /\ best[e.x] \in [Labels -> Int]
      BY <3>2, <3>3, <3>4
    <3>6. lattice[e.x].node[e.y[e.x]] \in Int /\ best[e.x][e.y[e.x]] \in Int
      BY <3>5 DEF Column
    <3>. QED BY <3>2, <3>4, <3>6
  <2>4. given \in Seq(Labellings) /\ found \in BOOLEAN
    BY DEF IInv, SearchInv, ReportsIInv, ResultInv
  <2>5. at \in {"idle", "stale", "viterbi", "next"}
    BY DEF IInv, LatticeInv
  <2>. QED BY <2>1, <2>2, <2>3, <2>4, <2>5 DEF TypeOK
<1>. QED BY <1>1, Invariance, ReportsInvariance, PTL

--------------------------------------------------------------------------
(* Tagger implements NBest. *)

\* What NBest is told of the lattice and of what was reported.
Costs    == IF Parsed THEN [l \in Labellings |-> Cost(l)] ELSE <<>>
Reported == IF Parsed THEN [i \in DOMAIN lattice |-> result_[i]] ELSE <<>>
Price    == IF Parsed THEN cost_ ELSE 0

\* The costs are of the lattice alone.
LEMMA CostsStay ==
  ASSUME lattice' = lattice, Parsed' = Parsed
  PROVE  Costs' = Costs
<1>1. Labellings' = Labellings
  BY DEF Labellings
<1>2. ASSUME NEW l \in Labellings PROVE Cost(l)' = Cost(l)
  BY DEF Cost
<1>. QED BY <1>1, <1>2 DEF Costs

\* A step NBest does not see.
LEMMA Unseen ==
  ASSUME lattice' = lattice, Parsed' = Parsed,
         Parsed => cost_' = cost_ /\ \A i \in DOMAIN lattice : result_'[i] = result_[i],
         given' = given, found' = found
  PROVE  UNCHANGED <<Costs, Reported, Price, given, found>>
<1>1. Costs' = Costs
  BY CostsStay
<1>2. Reported' = Reported
  BY DEF Reported
<1>3. Price' = Price
  BY DEF Price
<1>. QED BY <1>1, <1>2, <1>3

\* When the lattice is parsed its labellings have costs.
LEMMA CostsOfLattice ==
  ASSUME IInv, Parsed
  PROVE  /\ DOMAIN Costs = Labellings /\ Costs # <<>>
         /\ \A l \in Labellings : Costs[l] = -Score(lattice, l)[Len(lattice)]
         /\ Labellings = [1..Len(lattice) -> Labels]
<1>1. DOMAIN Costs = Labellings /\ \A l \in Labellings : Costs[l] = -Score(lattice, l)[Len(lattice)]
  BY CostIsScore DEF Costs
<1>2. Labellings = [1..Len(lattice) -> Labels]
  <2>1. DOMAIN lattice = 1..Len(lattice)
    BY DEF IInv, LatticeInv
  <2>. QED BY <2>1 DEF Labellings
<1>3. 0 \in Labels
  BY ScoresAssumption DEF Labels
<1>4. [i \in 1..Len(lattice) |-> 0] \in Labellings
  BY <1>2, <1>3
<1>5. Costs # <<>>
  BY <1>1, <1>4
<1>. QED BY <1>1, <1>2, <1>5

\* What viterbi ends with is a cheapest labelling, and its cost.
LEMMA FoundAsks ==
  ASSUME IInv, ReportsIInv, Found
  PROVE  NBestSearch!Ask
<1>. DEFINE n == Len(lattice)
            eos == CHOOSE y \in Labels : Leading(y, best[n])
            t == Trace(n, eos)
<1>1. /\ Len(best) = n /\ n > 0 /\ n \in Nat /\ best[n] \in [Labels -> Int]
      /\ lattice \in Seq(Column) /\ n \in 1..n
  <2>1. /\ Len(best) = n /\ n > 0 /\ n \in Nat
        /\ lattice \in Seq(Column) /\ best \in Seq([Labels -> Int])
    BY DEF Found, IInv, LatticeInv
  <2>. QED BY <2>1
<1>2. eos \in Labels /\ \A y \in Labels : best[n][y] <= best[n][eos]
  <2>1. \E y \in Labels : Leading(y, best[n])
    BY <1>1, SomeLeads
  <2>2. eos \in Labels /\ Leading(eos, best[n])
    BY <2>1
  <2>. QED BY <2>2 DEF Leading
<1>3. /\ result_' = t /\ cost_' = -best[n][eos]
      /\ UNCHANGED <<lattice, given, found>> /\ at' = "idle" /\ at = "viterbi"
  BY DEF Found, forward
<1>. HIDE DEF eos
<1>4. t \in [1..n -> Labels] /\ Score(lattice, t)[n] = best[n][eos]
  BY <1>1, <1>2, TraceIsBest DEF IInv, Forwarded, ReportsIInv
<1>5. ~Parsed /\ Parsed'
  BY <1>1, <1>3 DEF Parsed
<1>6. IInv'
  BY NextKeeps DEF Next, Steps
<1>7. Labellings' = [1..n -> Labels] /\ Labellings = [1..n -> Labels] /\ DOMAIN lattice = 1..n
  BY <1>1, <1>3 DEF Labellings
<1>8. DOMAIN Costs' = Labellings' /\ Costs' # <<>>
      /\ \A l \in Labellings' : Costs'[l] = -Score(lattice, l)[n]
  <2>1. (IInv /\ Parsed => /\ DOMAIN Costs = Labellings /\ Costs # <<>>
                           /\ \A l \in Labellings : Costs[l] = -Score(lattice, l)[Len(lattice)])'
    BY CostsOfLattice, PTL
  <2>. QED BY <1>3, <1>5, <1>6, <2>1
<1>9. Reported' = t
  <2>1. Reported' = [i \in 1..n |-> t[i]]
    BY <1>3, <1>5, <1>7 DEF Reported
  <2>. HIDE DEF t
  <2>. QED BY <1>4, <2>1
<1>10. Price' = -best[n][eos]
  BY <1>3, <1>5 DEF Price
<1>. HIDE DEF t
<1>11. Costs'[t] = -best[n][eos]
  BY <1>4, <1>7, <1>8
<1>12. ASSUME NEW l \in DOMAIN Costs' PROVE Costs'[t] <= Costs'[l]
  <2>1. l \in Labellings
    BY <1>7, <1>8
  <2>2. Score(lattice, l)[n] <= best[n][l[n]]
    BY <1>1, <2>1, BestIsBest DEF IInv, Forwarded
  <2>3. Score(lattice, l)[n] \in Int
    BY <1>1, <1>7, <2>1, Scores
  <2>4. l[n] \in Labels
    BY <1>1, <1>7, <2>1
  <2>5. best[n][l[n]] \in Int /\ best[n][eos] \in Int /\ best[n][l[n]] <= best[n][eos]
    BY <1>1, <1>2, <2>4
  <2>6. Costs'[l] = -Score(lattice, l)[n]
    BY <1>8
  <2>. QED BY <1>11, <2>2, <2>3, <2>5, <2>6
<1>13. /\ Costs = <<>> /\ DOMAIN Costs' # {}
       /\ Reported' \in {l \in DOMAIN Costs' : \A m \in DOMAIN Costs' : Costs'[l] <= Costs'[m]}
       /\ Price' = Costs'[Reported']
       /\ given' = <<>> /\ found' = found
  <2>1. Costs = <<>>
    BY <1>5 DEF Costs
  <2>2. t \in DOMAIN Costs'
    BY <1>4, <1>7, <1>8
  <2>3. given' = <<>> /\ found' = found
    BY <1>3 DEF IInv, LatticeInv
  <2>. QED BY <1>9, <1>10, <1>11, <1>12, <2>1, <2>2, <2>3
<1>. QED BY <1>13 DEF NBestSearch!Ask, NBestSearch!Cheapest, Costs, Reported, Price

\* The bound of an end is not above the cost of a labelling that ends so.
LEMMA BoundIsBelow ==
  ASSUME IInv, ReportsIInv, asked, NEW e \in agenda, NEW l \in Labellings, Ends(e, l)
  PROVE  e.fx \in Int /\ e.fx <= -Score(lattice, l)[Len(lattice)]
<1>. DEFINE n == Len(lattice)
            s == Score(lattice, l)
            a == lattice[e.x].node[l[e.x]]
            b == best[e.x][l[e.x]]
<1>1. /\ e.x \in 1..n /\ e.gx \in Int
      /\ e.fx = e.gx + lattice[e.x].node[e.y[e.x]] - best[e.x][e.y[e.x]]
  BY DEF IInv, SearchInv, Waits
<1>2. /\ lattice \in Seq(Column) /\ best \in Seq([Labels -> Int])
      /\ Len(best) = n /\ n \in Nat /\ l \in [1..n -> Labels]
  BY DEF IInv, LatticeInv, SearchInv, Labellings
<1>3. e.x \in e.x..n /\ e.x \in 0..n /\ n \in 0..n
  BY <1>1, <1>2
<1>4. e.y[e.x] = l[e.x]
  BY <1>3 DEF Ends
<1>5. e.gx = s[e.x] - s[n] - a
  BY DEF ReportsIInv, CostInv
<1>6. s[e.x] <= b
  BY <1>1, <1>2, BestIsBest DEF IInv, Forwarded
<1>7. a \in Int /\ b \in Int
  <2>1. l[e.x] \in Labels /\ lattice[e.x] \in Column /\ best[e.x] \in [Labels -> Int]
    <3>1. e.x \in 1..Len(best)
      BY <1>1, <1>2
    <3>2. e.x \in 1..Len(lattice)
      BY <1>1
    <3>. QED BY <1>2, <3>1, <3>2
  <2>. QED BY <2>1 DEF Column
<1>8. s[e.x] \in Int /\ s[n] \in Int
  BY <1>2, <1>3, Scores
<1>9. e.fx = e.gx + a - b
  BY <1>1, <1>4
<1>10. e.fx \in Int /\ e.fx <= -s[n]
  <2>. HIDE DEF a, b, s, n
  <2>. QED BY <1>5, <1>6, <1>7, <1>8, <1>9
<1>. QED BY <1>10

\* next gives a cheapest labelling of those it has not given.
LEMMA ReportGives ==
  ASSUME IInv, ReportsIInv, Report
  PROVE  NBestSearch!Give
<1>. DEFINE n == Len(lattice)
<1>1. PICK e \in agenda : /\ Top(e) /\ e.x = 1 /\ cost_' = e.gx /\ given' = Append(given, e.y)
                          /\ result_' = [i \in DOMAIN result_ |->
                                           IF i <= Len(lattice) THEN e.y[i] ELSE result_[i]]
  BY DEF Report
<1>2. /\ at = "next" /\ at' = "idle" /\ found' = TRUE /\ UNCHANGED <<lattice, best>> /\ asked
  BY DEF Report, forward, IInv, SearchInv
<1>3. /\ lattice \in Seq(Column) /\ n \in Nat /\ n > 0 /\ DOMAIN lattice = 1..n
      /\ Labellings = [1..n -> Labels]
  BY <1>2 DEF IInv, LatticeInv, SearchInv, Labellings
<1>4. Parsed /\ Parsed'
  BY <1>2, <1>3 DEF Parsed
<1>5. Costs' = Costs
  BY <1>2, <1>4, CostsStay
<1>6. /\ DOMAIN Costs = Labellings /\ Costs # <<>>
      /\ \A l \in Labellings : Costs[l] = -Score(lattice, l)[n]
  BY <1>4, CostsOfLattice
<1>7. Waits(e)
  BY <1>2 DEF IInv, SearchInv
<1>8. e.y \in Labellings /\ Ends(e, e.y)
  BY <1>1, <1>3, <1>7 DEF Waits, Ends
<1>9. Reported' = e.y
  <2>1. Reported' = [i \in 1..n |-> result_'[i]]
    BY <1>2, <1>3, <1>4 DEF Reported
  <2>2. ASSUME NEW i \in 1..n PROVE result_'[i] = e.y[i]
    <3>1. DOMAIN result_ = 1..Len(x_) /\ n <= Len(x_) /\ Len(x_) \in Nat
      BY DEF ReportsIInv, ResultInv, IInv, TextInv
    <3>2. i \in DOMAIN result_ /\ i <= Len(lattice)
      BY <1>3, <3>1
    <3>. QED BY <1>1, <3>2
  <2>. HIDE DEF n
  <2>. QED BY <1>3, <1>8, <2>1, <2>2
<1>10. e.gx = -Score(lattice, e.y)[n] /\ e.fx = e.gx
  <2>. DEFINE s == Score(lattice, e.y)
              a == lattice[1].node[e.y[1]]
  <2>1. e.gx = s[1] - s[n] - a
    BY <1>1, <1>2, <1>8 DEF ReportsIInv, CostInv
  <2>2. 1 \in 1..n /\ 1 \in 0..n /\ n \in 0..n
    BY <1>3
  <2>3. s[1] = 0 + a /\ s[1] \in Int /\ s[n] \in Int
    <3>1. /\ \A i \in 0..n : s[i] \in Int
          /\ \A i \in 1..n :
               s[i] = (IF i = 1 THEN 0 ELSE s[i - 1] + lattice[i].path[e.y[i - 1]][e.y[i]])
                      + lattice[i].node[e.y[i]]
      BY <1>3, <1>8, Scores
    <3>. HIDE DEF s, n
    <3>. QED BY <2>2, <3>1
  <2>4. a \in Int
    <3>1. lattice[1] \in Column /\ e.y[1] \in Labels
      BY <1>3, <1>8, <2>2
    <3>. QED BY <3>1 DEF Column
  <2>5. e.gx = -s[n]
    <3>. HIDE DEF s, a, n
    <3>. QED BY <2>1, <2>3, <2>4
  <2>6. e.fx = e.gx + a - best[1][e.y[1]] /\ e.gx \in Int
    BY <1>1, <1>7 DEF Waits
  <2>7. best[1] = lattice[1].node
    <3>1. Len(best) > 0
      BY <1>2, <1>3 DEF IInv, LatticeInv
    <3>. QED BY <3>1 DEF IInv, Bellman
  <2>8. e.fx = e.gx
    BY <2>4, <2>6, <2>7
  <2>. QED BY <2>5, <2>8
<1>11. Price' = Costs[e.y]
  BY <1>1, <1>4, <1>6, <1>8, <1>10 DEF Price
<1>12. ASSUME NEW l \in Labellings
       PROVE  IF \E i \in DOMAIN given : given[i] = l
              THEN ~\E f \in agenda : Ends(f, l)
              ELSE \E f \in agenda : Ends(f, l) /\ \A g \in agenda : Ends(g, l) => g = f
  BY <1>2 DEF IInv, NoneIsLost
<1>13. ~\E i \in DOMAIN given : given[i] = e.y
  BY <1>8, <1>12
<1>14. ASSUME NEW l \in Labellings, ~\E i \in DOMAIN given : given[i] = l
       PROVE  Costs[e.y] <= Costs[l]
  <2>1. PICK f \in agenda : Ends(f, l)
    BY <1>12, <1>14
  <2>2. f.fx \in Int /\ f.fx <= -Score(lattice, l)[n]
    BY <1>2, <2>1, BoundIsBelow
  <2>3. e.fx <= f.fx
    BY <1>1 DEF Top
  <2>4. e.fx \in Int
    BY <1>2, <1>8, BoundIsBelow
  <2>5. Score(lattice, l)[n] \in Int
    BY <1>3, <1>14, Scores
  <2>6. Costs[e.y] = e.fx /\ Costs[l] = -Score(lattice, l)[n]
    BY <1>6, <1>8, <1>10
  <2>. HIDE DEF n
  <2>. QED BY <2>2, <2>3, <2>4, <2>5, <2>6
<1>15. /\ e.y \in {l \in Labellings : ~\E i \in DOMAIN given : given[i] = l}
       /\ \A m \in {l \in Labellings : ~\E i \in DOMAIN given : given[i] = l} : Costs[e.y] <= Costs[m]
  BY <1>8, <1>13, <1>14
<1>16. DOMAIN Costs \ {given[i] : i \in DOMAIN given}
         = {l \in Labellings : ~\E i \in DOMAIN given : given[i] = l}
  BY <1>6
<1>17. /\ Costs # <<>>
       /\ Reported' \in {l \in DOMAIN Costs \ {given[i] : i \in DOMAIN given} :
                           \A m \in DOMAIN Costs \ {given[i] : i \in DOMAIN given} : Costs[l] <= Costs[m]}
       /\ Price' = Costs[Reported'] /\ given' = Append(given, Reported')
       /\ found' = TRUE /\ Costs' = Costs
  BY <1>1, <1>2, <1>5, <1>6, <1>9, <1>11, <1>15, <1>16
<1>. QED BY <1>17 DEF NBestSearch!Give, NBestSearch!Cheapest, NBestSearch!Left, NBestSearch!Range,
                      Costs, Reported, Price

\* The agenda is empty: every labelling has been given.
LEMMA ExhaustedRefuses ==
  ASSUME IInv, ReportsIInv, Exhausted
  PROVE  NBestSearch!Refuse
<1>1. /\ at = "next" /\ at' = "idle" /\ asked /\ agenda = {} /\ found' = FALSE
      /\ UNCHANGED <<lattice, given, cost_, result_>> /\ lattice # <<>>
  BY DEF Exhausted, forward, results, IInv, SearchInv, LatticeInv
<1>2. Parsed /\ Parsed'
  BY <1>1 DEF Parsed
<1>3. UNCHANGED <<Costs, Reported, Price>>
  <2>1. Costs' = Costs
    BY <1>1, <1>2, CostsStay
  <2>. QED BY <1>1, <1>2, <2>1 DEF Reported, Price
<1>4. DOMAIN Costs = Labellings /\ Costs # <<>>
  BY <1>2, CostsOfLattice
<1>5. \A l \in Labellings : \E i \in DOMAIN given : given[i] = l
  BY <1>1 DEF IInv, NoneIsLost
<1>6. DOMAIN Costs \ {given[i] : i \in DOMAIN given} = {}
  BY <1>4, <1>5
<1>. QED BY <1>1, <1>3, <1>4, <1>6 DEF NBestSearch!Refuse, NBestSearch!Left, NBestSearch!Range,
                                       Costs, Reported, Price

\* Every step of the tagger is one of NBest, or one NBest does not see.
LEMMA StepImplements ==
  ASSUME IInv, ReportsIInv, [Next]_vars
  PROVE  \/ NBestSearch!Forget \/ NBestSearch!Ask \/ NBestSearch!Give \/ NBestSearch!Refuse
         \/ UNCHANGED NBestSearch!vars
<1>1. CASE UNCHANGED <<Costs, Reported, Price, given, found>>
  BY <1>1 DEF NBestSearch!vars, Costs, Reported, Price
<1>2. CASE clear \/ parse
  <2>1. ~Parsed' /\ given' = <<>> /\ found' = found
    BY <1>2 DEF clear, parse, Parsed
  <2>2. Costs' = <<>> /\ Reported' = <<>> /\ Price' = 0
    BY <2>1 DEF Costs, Reported, Price
  <2>. QED BY <2>1, <2>2 DEF NBestSearch!Forget, Costs, Reported, Price
<1>3. CASE add
  <2>1. /\ UNCHANGED <<lattice, given, found, cost_, at>>
        /\ result_' = Append(result_, 0)
    BY <1>3 DEF add, forward, search
  <2>2. /\ DOMAIN lattice = 1..Len(lattice) /\ Len(lattice) \in Nat
        /\ Len(lattice) <= Len(result_) /\ Len(result_) \in Nat /\ result_ \in Seq(Labels)
    BY DEF IInv, LatticeInv, ReportsIInv, ResultInv
  <2>3. ASSUME NEW i \in DOMAIN lattice PROVE result_'[i] = result_[i]
    <3>1. i \in 1..Len(result_)
      BY <2>2
    <3>. QED BY <2>1, <2>2, <3>1
  <2>4. Parsed' = Parsed
    BY <2>1 DEF Parsed
  <2>. QED BY <1>1, <2>1, <2>3, <2>4, Unseen
<1>4. CASE set_nbest \/ set_penalty \/ next \/ Expand \/ Model \/ UNCHANGED vars
  <2>1. /\ UNCHANGED <<lattice, given, found, cost_, result_>>
        /\ (at # "viterbi" /\ at' # "viterbi") \/ at' = at
    BY <1>4 DEF set_nbest, set_penalty, next, Expand, Model, results, forward, search, vars
  <2>2. Parsed' = Parsed
    BY <2>1 DEF Parsed
  <2>. QED BY <1>1, <2>1, <2>2, Unseen
<1>5. CASE Forward
  <2>1. UNCHANGED <<lattice, given, found, at>> /\ at = "viterbi"
    BY <1>5 DEF Forward, search
  <2>2. ~Parsed /\ Parsed' = Parsed
    BY <2>1 DEF Parsed
  <2>. QED BY <1>1, <2>1, <2>2, Unseen
<1>6. CASE Found
  BY <1>6, FoundAsks
<1>7. CASE Report
  BY <1>7, ReportGives
<1>8. CASE Exhausted
  BY <1>8, ExhaustedRefuses
<1>. QED BY <1>2, <1>3, <1>4, <1>5, <1>6, <1>7, <1>8 DEF Next, Calls, Steps

LEMMA InitImplements == Init => NBestSearch!Init
<1>. SUFFICES ASSUME Init PROVE NBestSearch!Init
  OBVIOUS
<1>1. ~Parsed /\ given = <<>> /\ found = TRUE
  BY DEF Init, Parsed
<1>. QED BY <1>1 DEF NBestSearch!Init

\* For every sentence, number of labels and score: what viterbi finds is a cheapest
\* labelling, and next gives the others in the order of their costs, each once.
THEOREM GivesTheNBest == Spec => ImplementsNBest
<1>1. IInv /\ ReportsIInv /\ [Next]_vars
        => [\/ NBestSearch!Forget \/ NBestSearch!Ask
            \/ NBestSearch!Give \/ NBestSearch!Refuse]_(NBestSearch!vars)
  BY StepImplements
<1>. QED BY InitImplements, <1>1, Invariance, ReportsInvariance, PTL
         DEF Spec, ImplementsNBest, NBestSearch!Spec
====
