---- MODULE OptimizerProofs ----
(***************************************************************************)
(* Proofs about the two optimizers of training.                            *)
(*                                                                         *)
(* LBFGS, for every number of weights, length of the rings and number of   *)
(* calls of a line search: when a line search gives up, the weights are at *)
(* the best step it found; and a direction is made of the newest pairs,    *)
(* wherever the rings have them.                                           *)
(*                                                                         *)
(* runMIRA, for every number of sentences and rounds, every shrinking      *)
(* size, and whatever comes of parsing a sentence.                         *)
(***************************************************************************)
EXTENDS LBFGS, MIRA, TLAPS, WellFoundedInduction

--------------------------------------------------------------------------
(* Where the vectors and numbers of w are. *)

Slots   == 0..(msize - 1)
Rhos    == (size + 1)..(size + msize)
Alphas  == (size + msize + 1)..(size + 2 * msize)
Steps   == (ispt + 1)..iypt
Changes == (iypt + 1)..(iypt + size * msize)

\* Each has its region.
LEMMA Regions ==
  /\ size \in Nat /\ size >= 1 /\ msize \in Nat /\ msize >= 1 /\ ispt \in Nat /\ iypt \in Nat
  /\ ispt = size + 2 * msize /\ iypt = ispt + size * msize /\ size * msize \in Nat
  /\ Part(0) = 1..size
  /\ Cells = 1..(iypt + size * msize)
<1>1. size \in Nat /\ size >= 1 /\ msize \in Nat /\ msize >= 1
  BY SizesAssumption
<1>2. size * msize \in Nat
  BY <1>1
<1>3. ispt \in Nat /\ iypt \in Nat /\ ispt = size + 2 * msize /\ iypt = ispt + size * msize
  BY <1>1, <1>2 DEF ispt, iypt
<1>4. Part(0) = 1..size
  BY <1>1 DEF Part
<1>5. size * (2 * msize + 1) + 2 * msize = iypt + size * msize
  <2>1. size * (2 * msize + 1) = size * msize + size * msize + size
    BY <1>1
  <2>. QED BY <1>1, <1>2, <1>3, <2>1
<1>6. Cells = 1..(iypt + size * msize)
  BY <1>5 DEF Cells
<1>. QED BY <1>1, <1>2, <1>3, <1>4, <1>6

\* The regions are parts of w, apart from each other.
LEMMA RegionsAreApart ==
  /\ Steps \subseteq Cells /\ Changes \subseteq Cells /\ Rhos \subseteq Cells /\ Alphas \subseteq Cells
  /\ Alphas \cap Steps = {} /\ Alphas \cap Changes = {} /\ Alphas \cap Rhos = {}
<1>. DEFINE all == size * msize
<1>1. Steps = (ispt + 1)..iypt /\ Changes = (iypt + 1)..(iypt + all)
  BY DEF Steps, Changes
<1>2. Rhos = (size + 1)..(size + msize) /\ Alphas = (size + msize + 1)..(size + 2 * msize)
  BY DEF Rhos, Alphas
<1>3. /\ all \in Nat /\ size \in Nat /\ msize \in Nat
      /\ ispt = size + 2 * msize /\ iypt = ispt + all /\ Cells = 1..(iypt + all)
  BY Regions
<1>. HIDE DEF all
<1>4. Steps \subseteq Cells /\ Changes \subseteq Cells
  BY <1>1, <1>3
<1>5. Rhos \subseteq Cells /\ Alphas \subseteq Cells
  BY <1>2, <1>3
<1>6. Alphas \cap Steps = {} /\ Alphas \cap Changes = {}
  BY <1>1, <1>2, <1>3
<1>7. Alphas \cap Rhos = {}
  BY <1>2, <1>3
<1>. QED BY <1>4, <1>5, <1>6, <1>7

\* A slot is within the regions.
LEMMA Addresses ==
  ASSUME NEW c \in Slots
  PROVE  /\ Rho(c) \in Rhos /\ Alpha(c) \in Alphas
         /\ Part(Step(c)) \subseteq Steps /\ Part(Change(c)) \subseteq Changes
<1>1. c \in Nat /\ c <= msize - 1
  BY Regions DEF Slots
<1>2. c * size \in Nat /\ c * size + size <= size * msize
  <2>1. msize - 1 - c \in Nat
    BY <1>1, Regions
  <2>2. (msize - 1 - c) * size >= 0
    BY <2>1, Regions
  <2>3. (msize - 1 - c) * size = size * msize - size - c * size
    BY <1>1, Regions
  <2>4. c * size \in Nat
    BY <1>1, Regions
  <2>. QED BY <2>2, <2>3, <2>4, Regions
<1>3. Rho(c) \in Rhos /\ Alpha(c) \in Alphas
  BY <1>1, Regions DEF Rho, Alpha, Rhos, Alphas
<1>. DEFINE a == c * size
            b == size * msize
<1>4. a \in Nat /\ b \in Nat /\ a + size <= b
  BY <1>2, Regions
<1>5. /\ Part(Step(c)) = (ispt + a + 1)..(ispt + a + size)
      /\ Part(Change(c)) = (iypt + a + 1)..(iypt + a + size)
  BY DEF Part, Step, Change
<1>6. /\ ispt \in Nat /\ iypt \in Nat /\ iypt = ispt + b /\ size \in Nat
      /\ Changes = (iypt + 1)..(iypt + b)
  BY Regions DEF Changes
<1>. HIDE DEF a, b
<1>7. Part(Step(c)) \subseteq Steps
  BY <1>4, <1>5, <1>6 DEF Steps
<1>8. Part(Change(c)) \subseteq Changes
  BY <1>4, <1>5, <1>6
<1>. QED BY <1>3, <1>7, <1>8

\* Two slots are apart.
LEMMA Apart ==
  ASSUME NEW c \in Slots, NEW d \in Slots, c # d
  PROVE  /\ Rho(c) # Rho(d) /\ Alpha(c) # Alpha(d)
         /\ Part(Step(c)) \cap Part(Step(d)) = {}
         /\ Part(Change(c)) \cap Part(Change(d)) = {}
<1>1. ASSUME NEW x \in Slots, NEW y \in Slots, x < y
      PROVE  x * size \in Nat /\ y * size \in Nat /\ x * size + size <= y * size
  <2>1. x \in Nat /\ y \in Nat /\ y - 1 - x \in Nat
    BY <1>1, Regions DEF Slots
  <2>2. (y - 1 - x) * size >= 0
    BY <2>1, Regions
  <2>3. (y - 1 - x) * size = y * size - size - x * size
    BY <2>1, Regions
  <2>4. x * size \in Nat /\ y * size \in Nat
    BY <2>1, Regions
  <2>. QED BY <2>2, <2>3, <2>4, Regions
<1>2. c \in Int /\ d \in Int /\ (c < d \/ d < c)
  BY Regions DEF Slots
<1>. DEFINE a == c * size
            b == d * size
<1>3. a \in Nat /\ b \in Nat /\ (a + size <= b \/ b + size <= a)
  BY <1>1, <1>2
<1>4. /\ Part(Step(c)) = (ispt + a + 1)..(ispt + a + size)
      /\ Part(Step(d)) = (ispt + b + 1)..(ispt + b + size)
      /\ Part(Change(c)) = (iypt + a + 1)..(iypt + a + size)
      /\ Part(Change(d)) = (iypt + b + 1)..(iypt + b + size)
  BY DEF Part, Step, Change
<1>5. ispt \in Nat /\ iypt \in Nat /\ size \in Nat
  BY Regions
<1>6. Rho(c) # Rho(d) /\ Alpha(c) # Alpha(d)
  BY <1>2, Regions DEF Rho, Alpha
<1>. HIDE DEF a, b
<1>. QED BY <1>3, <1>4, <1>5, <1>6

\* The slot t before slot p, around the ring.
At(p, t) == IF t <= p THEN p - t ELSE p - t + msize

LEMMA Around ==
  ASSUME NEW p \in Slots, NEW t \in 0..msize
  PROVE  /\ At(p, t) \in Slots /\ At(p, 0) = p /\ After(p) \in Slots
         /\ t < msize => Before(At(p, t)) = At(p, t + 1)
         /\ t > 0 => After(At(p, t)) = At(p, t - 1)
         /\ t < msize => At(After(p), t + 1) = At(p, t)
         /\ RhoWritten(p) = Rho(At(p, 1))
         /\ \A j \in 1..msize : t > 0 /\ t # j => At(p, t) # At(p, j)
         /\ t \in 1..(msize - 1) => At(p, t) # p
BY Regions DEF Slots, At, Before, After, RhoWritten, Rho

--------------------------------------------------------------------------
(* What is written to w. *)

LEMMA Written ==
  ASSUME NEW mem, DOMAIN mem = Cells, NEW cells \in SUBSET Cells, NEW v
  PROVE  /\ DOMAIN Put(mem, cells, v) = Cells
         /\ \A c \in Cells : Put(mem, cells, v)[c] = IF c \in cells THEN v ELSE mem[c]
BY DEF Put

LEMMA WrittenElsewhere ==
  ASSUME NEW mem, DOMAIN mem = Cells, NEW cells \in SUBSET Cells, NEW v, NEW at,
         Part(at) \subseteq Cells, cells \cap Part(at) = {}
  PROVE  Vector(Put(mem, cells, v), at) = Vector(mem, at)
BY Written DEF Vector

LEMMA WrittenHere ==
  ASSUME NEW mem, DOMAIN mem = Cells, NEW at \in Int, Part(at) \subseteq Cells, NEW v
  PROVE  Vector(Fill(mem, at, v), at) = {v}
<1>1. at + 1 \in Part(at)
  BY Regions DEF Part
<1>. QED BY <1>1, Written DEF Vector, Fill

\* Nothing of a slot is written.
LEMMA SlotStays ==
  ASSUME NEW m1, NEW m2, NEW c \in Slots, NEW cells,
         \A a \in Cells : a \notin cells => m2[a] = m1[a],
         cells \cap Part(Step(c)) = {}, cells \cap Part(Change(c)) = {}, Rho(c) \notin cells
  PROVE  Slot(m2, c) = Slot(m1, c)
<1>1. /\ Part(Step(c)) \subseteq Cells /\ Part(Change(c)) \subseteq Cells /\ Rho(c) \in Cells
  <2>1. Part(Step(c)) \subseteq Steps /\ Part(Change(c)) \subseteq Changes /\ Rho(c) \in Rhos
    BY Addresses
  <2>. QED BY <2>1, RegionsAreApart
<1>2. Vector(m2, Step(c)) = Vector(m1, Step(c))
  BY <1>1 DEF Vector
<1>3. Vector(m2, Change(c)) = Vector(m1, Change(c))
  BY <1>1 DEF Vector
<1>4. m2[Rho(c)] = m1[Rho(c)]
  BY <1>1
<1>. QED BY <1>2, <1>3, <1>4 DEF Slot

--------------------------------------------------------------------------
(* The two loops. *)

LEMMA Least ==
  ASSUME NEW S \in SUBSET Nat, S # {}
  PROVE  \E n \in S : \A m \in S : n <= m
<1>. DEFINE R == OpToRel(<, Nat)
<1>1. IsWellFoundedOn(R, Nat)
  BY NatLessThanWellFounded
<1>2. \A x, y \in Nat : x < y => <<x, y>> \in R
  BY DEF OpToRel
<1>. HIDE DEF R
<1>3. PICK n \in S : \A y \in S : ~(<<y, n>> \in R)
  BY <1>1, WFMin
<1>4. \A m \in S : ~(m < n)
  BY <1>2, <1>3
<1>. QED BY <1>3, <1>4

\* Induction as far as it can be cited here: a set of numbers up to m that holds 0
\* and, with a number, the next one, holds m.
LEMMA UpTo ==
  ASSUME NEW m \in Nat, NEW P \in SUBSET Nat, 0 \in P,
         \A n \in 0..(m - 1) : n \in P => n + 1 \in P
  PROVE  \A n \in 0..m : n \in P
<1>. DEFINE S == {n \in 0..m : n \notin P}
<1>1. SUFFICES ASSUME S # {} PROVE FALSE
  OBVIOUS
<1>2. S \in SUBSET Nat
  OBVIOUS
<1>3. \E n \in S : \A k \in S : n <= k
  <2>. HIDE DEF S
  <2>. QED BY <1>1, <1>2, Least
<1>4. PICK n \in S : \A k \in S : n <= k
  BY <1>3
<1>5. n \in 1..m /\ n - 1 \in 0..(m - 1) /\ n - 1 \notin S
  BY <1>4
<1>. QED BY <1>4, <1>5

\* One turn of each loop.
BackTurn(k, b) ==
  LET cp == Before(b.cp)
  IN  [cp   |-> cp,
       w    |-> Put(b.w, {Alpha(cp)}, Is("alpha", <<k, Slot(b.w, cp)>>)),
       used |-> Append(b.used, Slot(b.w, cp))]
ForthTurn(mem, f) ==
  [cp |-> After(f.cp), used |-> Append(f.used, <<mem[Alpha(f.cp)], Slot(mem, f.cp)>>)]

BackStart(p, mem0) == [cp |-> p, w |-> mem0, used |-> <<>>]
ForthStart(cp0)    == [cp |-> cp0, used |-> <<>>]

\* The functions that the loops are defined by.
IsBack(f, k, p, mem0, n) ==
  f = [t \in 0..n |-> IF t = 0 THEN BackStart(p, mem0) ELSE BackTurn(k, f[t - 1])]
IsForth(f, cp0, mem, n) ==
  f = [t \in 0..n |-> IF t = 0 THEN ForthStart(cp0) ELSE ForthTurn(mem, f[t - 1])]

\* There are such functions, of any number of turns.
LEMMA SomeBack ==
  ASSUME NEW k, NEW p, NEW mem0, NEW m \in Nat
  PROVE  \E f : IsBack(f, k, p, mem0, m)
<1>. DEFINE P == {n \in Nat : \E f : IsBack(f, k, p, mem0, n)}
            start == BackStart(p, mem0)
<1>1. 0 \in P
  <2>1. IsBack([n \in 0..0 |-> start], k, p, mem0, 0)
    BY DEF IsBack
  <2>. QED BY <2>1
<1>2. ASSUME NEW n \in 0..(m - 1), n \in P PROVE n + 1 \in P
  <2>1. PICK f : IsBack(f, k, p, mem0, n)
    BY <1>2
  <2>. DEFINE g == [t \in 0..(n + 1) |-> IF t = n + 1 THEN BackTurn(k, f[n]) ELSE f[t]]
  <2>2. \A t \in 0..n : f[t] = IF t = 0 THEN start ELSE BackTurn(k, f[t - 1])
    BY <2>1 DEF IsBack
  <2>3. (\A t \in 0..n : g[t] = f[t]) /\ g[n + 1] = BackTurn(k, f[n])
    OBVIOUS
  <2>4. g = [t \in 0..(n + 1) |-> g[t]]
    OBVIOUS
  <2>. HIDE DEF g, start
  <2>5. ASSUME NEW t \in 0..(n + 1)
        PROVE  g[t] = IF t = 0 THEN start ELSE BackTurn(k, g[t - 1])
    <3>1. CASE t = n + 1
      <4>1. t # 0 /\ t - 1 = n /\ g[n] = f[n]
        BY <2>3, <3>1
      <4>. QED BY <2>3, <3>1, <4>1
    <3>2. CASE t \in 0..n
      <4>1. t # 0 => t - 1 \in 0..n
        BY <3>2
      <4>2. t # 0 => g[t - 1] = f[t - 1]
        BY <2>3, <4>1
      <4>. QED BY <2>2, <2>3, <3>2, <4>2
    <3>. QED BY <3>1, <3>2
  <2>6. IsBack(g, k, p, mem0, n + 1)
    BY <2>4, <2>5 DEF IsBack, start
  <2>. QED BY <2>6
<1>3. m \in P
  <2>. HIDE DEF P
  <2>1. P \in SUBSET Nat
    BY DEF P
  <2>. QED BY <1>1, <1>2, <2>1, UpTo
<1>. QED BY <1>3

LEMMA SomeForth ==
  ASSUME NEW cp0, NEW mem, NEW m \in Nat
  PROVE  \E f : IsForth(f, cp0, mem, m)
<1>. DEFINE P == {n \in Nat : \E f : IsForth(f, cp0, mem, n)}
            start == ForthStart(cp0)
<1>1. 0 \in P
  <2>1. IsForth([n \in 0..0 |-> start], cp0, mem, 0)
    BY DEF IsForth
  <2>. QED BY <2>1
<1>2. ASSUME NEW n \in 0..(m - 1), n \in P PROVE n + 1 \in P
  <2>1. PICK f : IsForth(f, cp0, mem, n)
    BY <1>2
  <2>. DEFINE g == [t \in 0..(n + 1) |-> IF t = n + 1 THEN ForthTurn(mem, f[n]) ELSE f[t]]
  <2>2. \A t \in 0..n : f[t] = IF t = 0 THEN start ELSE ForthTurn(mem, f[t - 1])
    BY <2>1 DEF IsForth
  <2>3. (\A t \in 0..n : g[t] = f[t]) /\ g[n + 1] = ForthTurn(mem, f[n])
    OBVIOUS
  <2>4. g = [t \in 0..(n + 1) |-> g[t]]
    OBVIOUS
  <2>. HIDE DEF g, start
  <2>5. ASSUME NEW t \in 0..(n + 1)
        PROVE  g[t] = IF t = 0 THEN start ELSE ForthTurn(mem, g[t - 1])
    <3>1. CASE t = n + 1
      <4>1. t # 0 /\ t - 1 = n /\ g[n] = f[n]
        BY <2>3, <3>1
      <4>. QED BY <2>3, <3>1, <4>1
    <3>2. CASE t \in 0..n
      <4>1. t # 0 => t - 1 \in 0..n
        BY <3>2
      <4>2. t # 0 => g[t - 1] = f[t - 1]
        BY <2>3, <4>1
      <4>. QED BY <2>2, <2>3, <3>2, <4>2
    <3>. QED BY <3>1, <3>2
  <2>6. IsForth(g, cp0, mem, n + 1)
    BY <2>4, <2>5 DEF IsForth, start
  <2>. QED BY <2>6
<1>3. m \in P
  <2>. HIDE DEF P
  <2>1. P \in SUBSET Nat
    BY DEF P
  <2>. QED BY <1>1, <1>2, <2>1, UpTo
<1>. QED BY <1>3

LEMMA BackByTurns ==
  ASSUME NEW k, NEW p, NEW mem0, Bound(k) \in Nat
  PROVE  \E f : IsBack(f, k, p, mem0, Bound(k)) /\ Back(k, p, mem0) = f[Bound(k)]
<1>. DEFINE f == CHOOSE g : IsBack(g, k, p, mem0, Bound(k))
<1>1. IsBack(f, k, p, mem0, Bound(k))
  BY SomeBack
<1>2. Back(k, p, mem0) = f[Bound(k)]
  BY DEF Back, IsBack, BackStart, BackTurn
<1>. QED BY <1>1, <1>2

LEMMA ForthByTurns ==
  ASSUME NEW k, NEW cp0, NEW mem, Bound(k) \in Nat
  PROVE  \E f : IsForth(f, cp0, mem, Bound(k)) /\ Forth(k, cp0, mem) = f[Bound(k)].used
<1>. DEFINE f == CHOOSE g : IsForth(g, cp0, mem, Bound(k))
<1>1. IsForth(f, cp0, mem, Bound(k))
  BY SomeForth
<1>2. Forth(k, cp0, mem) = f[Bound(k)].used
  BY DEF Forth, IsForth, ForthStart, ForthTurn
<1>. QED BY <1>1, <1>2

LEMMA OneMore ==
  ASSUME NEW n \in Nat, NEW P
  PROVE  Append([j \in 1..n |-> P[j]], P[n + 1]) = [j \in 1..(n + 1) |-> P[j]]
OBVIOUS

\* t turns of the first loop have used the slots of P, and left their numbers.
BackAt(b, t, k, p, mem0, P) ==
  /\ b.cp = At(p, t)
  /\ DOMAIN b.w = Cells
  /\ \A c \in Cells : c \notin Alphas => b.w[c] = mem0[c]
  /\ \A j \in 1..t : b.w[Alpha(At(p, j))] = Is("alpha", <<k, P[j]>>)
  /\ b.used = [j \in 1..t |-> P[j]]

LEMMA BackTurnKeeps ==
  ASSUME NEW k, NEW p \in Slots, NEW n \in 0..msize, NEW mem0, NEW P, NEW b,
         NEW t \in 0..(n - 1), BackAt(b, t, k, p, mem0, P),
         \A j \in 1..n : Slot(mem0, At(p, j)) = P[j]
  PROVE  BackAt(BackTurn(k, b), t + 1, k, p, mem0, P)
<1>. DEFINE cp == Before(b.cp)
            v  == Is("alpha", <<k, Slot(b.w, cp)>>)
            u  == BackTurn(k, b)
<1>1. /\ n \in Nat /\ msize \in Nat /\ t \in Nat /\ t + 1 \in 1..n /\ t + 1 \in 1..msize
      /\ t \in 0..msize /\ t < msize
  BY Regions
<1>2. cp = At(p, t + 1) /\ cp \in Slots
  BY <1>1, Around DEF BackAt
<1>3. u.cp = cp /\ u.w = Put(b.w, {Alpha(cp)}, v) /\ u.used = Append(b.used, Slot(b.w, cp))
  BY DEF BackTurn
<1>. HIDE DEF cp, v, u
<1>4. Alpha(cp) \in Alphas /\ Alpha(cp) \in Cells
  BY <1>2, Addresses, Regions DEF Alphas
<1>5. Slot(b.w, cp) = P[t + 1]
  <2>1. Slot(b.w, cp) = Slot(mem0, cp)
    <3>1. /\ Alphas \cap Part(Step(cp)) = {} /\ Alphas \cap Part(Change(cp)) = {}
          /\ Rho(cp) \notin Alphas
      BY <1>2, Addresses, Regions DEF Steps, Changes, Rhos, Alphas
    <3>2. \A a \in Cells : a \notin Alphas => b.w[a] = mem0[a]
      BY DEF BackAt
    <3>. QED BY <1>2, <3>1, <3>2, SlotStays
  <2>. QED BY <1>1, <1>2, <2>1
<1>6. v = Is("alpha", <<k, P[t + 1]>>)
  BY <1>5 DEF v
<1>7. /\ DOMAIN u.w = Cells
      /\ \A c \in Cells : u.w[c] = IF c = Alpha(cp) THEN v ELSE b.w[c]
  BY <1>3, <1>4, Written DEF BackAt
<1>8. \A c \in Cells : c \notin Alphas => u.w[c] = mem0[c]
  BY <1>4, <1>7 DEF BackAt
<1>9. ASSUME NEW j \in 1..(t + 1)
      PROVE  u.w[Alpha(At(p, j))] = Is("alpha", <<k, P[j]>>)
  <2>1. CASE j = t + 1
    BY <1>2, <1>4, <1>6, <1>7, <2>1
  <2>2. CASE j \in 1..t
    <3>1. j \in 1..msize /\ j \in 0..msize /\ t + 1 \in 0..msize /\ t + 1 > 0 /\ t + 1 # j
      BY <1>1, <2>2
    <3>2. At(p, j) \in Slots /\ At(p, j) # cp
      BY <1>2, <3>1, Around
    <3>3. Alpha(At(p, j)) # Alpha(cp) /\ Alpha(At(p, j)) \in Cells
      <4>1. Alpha(At(p, j)) # Alpha(cp)
        BY <1>2, <3>2, Apart
      <4>2. Alpha(At(p, j)) \in Alphas
        BY <3>2, Addresses
      <4>. QED BY <4>1, <4>2, Regions DEF Alphas
    <3>. QED BY <1>7, <2>2, <3>3 DEF BackAt
  <2>. QED BY <1>1, <2>1, <2>2
<1>10. u.used = [j \in 1..(t + 1) |-> P[j]]
  BY <1>1, <1>3, <1>5, OneMore DEF BackAt
<1>. QED BY <1>2, <1>3, <1>7, <1>8, <1>9, <1>10 DEF BackAt, u

LEMMA BackLoop ==
  ASSUME NEW k, NEW p \in Slots, Bound(k) \in 0..msize, NEW mem0, DOMAIN mem0 = Cells, NEW P,
         \A j \in 1..Bound(k) : Slot(mem0, At(p, j)) = P[j]
  PROVE  BackAt(Back(k, p, mem0), Bound(k), k, p, mem0, P)
<1>. DEFINE n == Bound(k)
<1>1. n \in Nat /\ n \in 0..msize
  BY Regions
<1>2. PICK f : IsBack(f, k, p, mem0, n) /\ Back(k, p, mem0) = f[n]
  BY <1>1, BackByTurns
<1>. HIDE DEF n
<1>. DEFINE S == {t \in Nat : t \in 0..n /\ BackAt(f[t], t, k, p, mem0, P)}
<1>3. \A t \in 0..n : f[t] = IF t = 0 THEN BackStart(p, mem0) ELSE BackTurn(k, f[t - 1])
  BY <1>2 DEF IsBack
<1>4. 0 \in S
  <2>1. f[0] = BackStart(p, mem0)
    BY <1>1, <1>3
  <2>2. At(p, 0) = p /\ (\A j \in 1..0 : FALSE)
    BY Around, Regions
  <2>3. BackAt(f[0], 0, k, p, mem0, P)
    <3>1. f[0].cp = p /\ f[0].w = mem0 /\ f[0].used = <<>>
      BY <2>1 DEF BackStart
    <3>2. <<>> = [j \in 1..0 |-> P[j]]
      OBVIOUS
    <3>. QED BY <2>2, <3>1, <3>2 DEF BackAt
  <2>. QED BY <1>1, <2>3
<1>5. ASSUME NEW t \in 0..(n - 1), t \in S PROVE t + 1 \in S
  <2>1. t + 1 \in 0..n /\ t + 1 # 0 /\ (t + 1) - 1 = t /\ t + 1 \in Nat
    BY <1>1
  <2>2. f[t + 1] = BackTurn(k, f[t])
    BY <1>3, <2>1
  <2>3. BackAt(BackTurn(k, f[t]), t + 1, k, p, mem0, P)
    BY <1>1, <1>5, BackTurnKeeps DEF n
  <2>. QED BY <2>1, <2>2, <2>3
<1>6. n \in S
  <2>. HIDE DEF S
  <2>1. S \in SUBSET Nat
    BY DEF S
  <2>. QED BY <1>1, <1>4, <1>5, <2>1, UpTo
<1>. QED BY <1>2, <1>6 DEF n

\* t turns of the second loop, of n, have used them in the other order.
ForthUsed(t, n, k, P) == [j \in 1..t |-> <<Is("alpha", <<k, P[n - j + 1]>>), P[n - j + 1]>>]
ForthAt(f, t, n, k, p, P) == f.cp = At(p, n - t) /\ f.used = ForthUsed(t, n, k, P)

LEMMA ForthLoop ==
  ASSUME NEW k, NEW p \in Slots, Bound(k) \in 0..msize, NEW mem, NEW P,
         \A j \in 1..Bound(k) : /\ Slot(mem, At(p, j)) = P[j]
                                /\ mem[Alpha(At(p, j))] = Is("alpha", <<k, P[j]>>)
  PROVE  Forth(k, At(p, Bound(k)), mem) = ForthUsed(Bound(k), Bound(k), k, P)
<1>. DEFINE n == Bound(k)
            Q == [j \in 1..n |-> <<Is("alpha", <<k, P[n - j + 1]>>), P[n - j + 1]>>]
<1>1. n \in Nat /\ n \in 0..msize /\ msize \in Nat
  BY Regions
<1>2. PICK f : IsForth(f, At(p, n), mem, n) /\ Forth(k, At(p, n), mem) = f[n].used
  BY <1>1, ForthByTurns
<1>0. \A j \in 1..n : Slot(mem, At(p, j)) = P[j] /\ mem[Alpha(At(p, j))] = Is("alpha", <<k, P[j]>>)
  OBVIOUS
<1>. HIDE DEF n
<1>. DEFINE S == {t \in Nat : t \in 0..n /\ ForthAt(f[t], t, n, k, p, P)}
<1>3. \A t \in 0..n : f[t] = IF t = 0 THEN ForthStart(At(p, n)) ELSE ForthTurn(mem, f[t - 1])
  BY <1>2 DEF IsForth
<1>4. 0 \in S
  <2>1. f[0] = ForthStart(At(p, n))
    BY <1>1, <1>3
  <2>2. f[0].cp = At(p, n - 0) /\ f[0].used = <<>>
    <3>1. n - 0 = n
      BY <1>1
    <3>. QED BY <2>1, <3>1 DEF ForthStart
  <2>3. ForthAt(f[0], 0, n, k, p, P)
    BY <2>2 DEF ForthAt, ForthUsed
  <2>. QED BY <1>1, <2>3
<1>5. ASSUME NEW t \in 0..(n - 1), t \in S PROVE t + 1 \in S
  <2>1. t + 1 \in 0..n /\ t + 1 # 0 /\ (t + 1) - 1 = t /\ t + 1 \in Nat /\ t \in Nat
    BY <1>1
  <2>2. f[t + 1] = ForthTurn(mem, f[t])
    BY <1>3, <2>1
  <2>3. ForthAt(f[t], t, n, k, p, P)
    BY <1>5
  <2>. DEFINE h == n - t
  <2>4. h \in 1..n /\ h \in 0..msize /\ h > 0 /\ h - 1 = n - (t + 1) /\ h = n - (t + 1) + 1
    BY <1>1
  <2>5. f[t].cp = At(p, h)
    BY <2>3 DEF ForthAt
  <2>. HIDE DEF h
  <2>6. After(At(p, h)) = At(p, h - 1)
    BY <2>4, Around
  <2>7. f[t + 1].cp = At(p, n - (t + 1))
    BY <2>2, <2>4, <2>5, <2>6 DEF ForthTurn
  <2>8. f[t + 1].used = Append(f[t].used, <<Is("alpha", <<k, P[h]>>), P[h]>>)
    BY <1>0, <2>2, <2>4, <2>5 DEF ForthTurn
  <2>9. f[t + 1].used = ForthUsed(t + 1, n, k, P)
    <3>1. \A j \in 1..t : Q[j] = <<Is("alpha", <<k, P[n - j + 1]>>), P[n - j + 1]>>
      BY <1>1
    <3>2. Q[t + 1] = <<Is("alpha", <<k, P[h]>>), P[h]>>
      BY <2>1, <2>4
    <3>3. \A j \in 1..(t + 1) : Q[j] = <<Is("alpha", <<k, P[n - j + 1]>>), P[n - j + 1]>>
      BY <1>1
    <3>. HIDE DEF Q
    <3>4. f[t].used = [j \in 1..t |-> Q[j]]
      BY <2>3, <3>1 DEF ForthAt, ForthUsed
    <3>5. f[t + 1].used = [j \in 1..(t + 1) |-> Q[j]]
      BY <2>1, <2>8, <3>2, <3>4, OneMore
    <3>. QED BY <3>3, <3>5 DEF ForthUsed
  <2>. QED BY <2>1, <2>7, <2>9 DEF ForthAt
<1>6. n \in S
  <2>. HIDE DEF S
  <2>1. S \in SUBSET Nat
    BY DEF S
  <2>. QED BY <1>1, <1>4, <1>5, <2>1, UpTo
<1>7. f[n].used = ForthUsed(n, n, k, P)
  BY <1>6 DEF ForthAt
<1>. QED BY <1>2, <1>7 DEF n

--------------------------------------------------------------------------
(* What is in the rings. *)

\* Pair and what a direction is made of, by the calls ss that iterations began in.
PairOf(ss, k) ==
  LET s == {Is("step", {Is("direction", k)})}
      y == {Is("change", <<{Is("gradient", ss[k])}, ss[k + 1]>>)}
  IN  [s |-> s, y |-> y, rho |-> Is("rho", <<s, y>>)]

MadeOf(ss, k) ==
  [back  |-> [t \in 1..Bound(k) |-> PairOf(ss, k - t)],
   forth |-> [t \in 1..Bound(k) |->
                <<Is("alpha", <<k, PairOf(ss, k - Bound(k) + t - 1)>>),
                  PairOf(ss, k - Bound(k) + t - 1)>>],
   scale |-> <<PairOf(ss, k - 1).s, PairOf(ss, k - 1).y>>]

\* Iteration k has its direction in slot p, and behind it around the ring the pairs
\* of the iterations before, the newest first.
InRing(mem, k, p, ss) ==
  /\ DOMAIN mem = Cells
  /\ Vector(mem, 0) = {Is("gradient", ss[k])}
  /\ Vector(mem, Step(p)) = {Is("direction", k)}
  /\ \A t \in 1..(msize - 1) : t < k => Slot(mem, At(p, t)) = PairOf(ss, k - t)

\* The memory with the direction of iteration k in slot p.
WithDirection(mem, k, p, call) ==
  Fill(Fill(mem, Step(p), Is("direction", k)), 0, Is("gradient", call))

LEMMA WorkIsApart ==
  ASSUME NEW c \in Slots, NEW mem, DOMAIN mem = Cells, NEW v
  PROVE  /\ DOMAIN Fill(mem, 0, v) = Cells
         /\ Slot(Fill(mem, 0, v), c) = Slot(mem, c)
         /\ Vector(Fill(mem, 0, v), Step(c)) = Vector(mem, Step(c))
         /\ Vector(Fill(mem, 0, v), Change(c)) = Vector(mem, Change(c))
         /\ \A a \in Cells : a \in Alphas => Fill(mem, 0, v)[a] = mem[a]
<1>1. /\ Part(0) \in SUBSET Cells
      /\ Part(0) \cap Part(Step(c)) = {} /\ Part(0) \cap Part(Change(c)) = {}
      /\ Rho(c) \notin Part(0) /\ Part(0) \cap Alphas = {}
      /\ Part(Step(c)) \subseteq Cells /\ Part(Change(c)) \subseteq Cells
  BY Addresses, Regions DEF Steps, Changes, Rhos, Alphas
<1>2. /\ DOMAIN Fill(mem, 0, v) = Cells
      /\ \A a \in Cells : Fill(mem, 0, v)[a] = IF a \in Part(0) THEN v ELSE mem[a]
  BY <1>1, Written DEF Fill
<1>3. Slot(Fill(mem, 0, v), c) = Slot(mem, c)
  BY <1>1, <1>2, SlotStays
<1>4. /\ Vector(Fill(mem, 0, v), Step(c)) = Vector(mem, Step(c))
      /\ Vector(Fill(mem, 0, v), Change(c)) = Vector(mem, Change(c))
  BY <1>1, <1>2 DEF Vector
<1>. QED BY <1>1, <1>2, <1>3, <1>4

LEMMA StepIsApart ==
  ASSUME NEW p \in Slots, NEW mem, DOMAIN mem = Cells, NEW v
  PROVE  /\ DOMAIN Fill(mem, Step(p), v) = Cells
         /\ Vector(Fill(mem, Step(p), v), Step(p)) = {v}
         /\ Vector(Fill(mem, Step(p), v), 0) = Vector(mem, 0)
         /\ \A c \in Slots : c # p => Slot(Fill(mem, Step(p), v), c) = Slot(mem, c)
<1>1. /\ Part(Step(p)) \in SUBSET Cells /\ Part(0) \subseteq Cells
      /\ Part(0) \cap Part(Step(p)) = {}
      /\ Step(p) \in Int
  <2>1. Step(p) \in Int
    BY Regions DEF Slots, Step
  <2>. QED BY <2>1, Addresses, Regions DEF Steps
<1>2. /\ DOMAIN Fill(mem, Step(p), v) = Cells
      /\ \A a \in Cells : Fill(mem, Step(p), v)[a] = IF a \in Part(Step(p)) THEN v ELSE mem[a]
  BY <1>1, Written DEF Fill
<1>3. Vector(Fill(mem, Step(p), v), Step(p)) = {v}
  BY <1>1, WrittenHere
<1>4. Vector(Fill(mem, Step(p), v), 0) = Vector(mem, 0)
  BY <1>1, <1>2 DEF Vector
<1>5. ASSUME NEW c \in Slots, c # p PROVE Slot(Fill(mem, Step(p), v), c) = Slot(mem, c)
  <2>1. Part(Step(p)) \cap Part(Step(c)) = {}
    BY <1>5, Apart
  <2>2. Part(Step(p)) \cap Part(Change(c)) = {} /\ Rho(c) \notin Part(Step(p))
    BY Addresses, Regions DEF Steps, Changes, Rhos
  <2>. QED BY <1>2, <2>1, <2>2, SlotStays
<1>. QED BY <1>2, <1>3, <1>4, <1>5

LEMMA ChangeIsApart ==
  ASSUME NEW p \in Slots, NEW mem, DOMAIN mem = Cells, NEW v
  PROVE  /\ DOMAIN Fill(mem, Change(p), v) = Cells
         /\ Vector(Fill(mem, Change(p), v), Change(p)) = {v}
         /\ Vector(Fill(mem, Change(p), v), Step(p)) = Vector(mem, Step(p))
         /\ \A c \in Slots : c # p => Slot(Fill(mem, Change(p), v), c) = Slot(mem, c)
<1>1. /\ Part(Change(p)) \in SUBSET Cells /\ Part(Step(p)) \subseteq Cells
      /\ Part(Step(p)) \cap Part(Change(p)) = {} /\ Change(p) \in Int
  <2>1. Change(p) \in Int
    BY Regions DEF Slots, Change
  <2>. QED BY <2>1, Addresses, Regions DEF Steps, Changes
<1>2. /\ DOMAIN Fill(mem, Change(p), v) = Cells
      /\ \A a \in Cells : Fill(mem, Change(p), v)[a] = IF a \in Part(Change(p)) THEN v ELSE mem[a]
  BY <1>1, Written DEF Fill
<1>3. Vector(Fill(mem, Change(p), v), Change(p)) = {v}
  BY <1>1, WrittenHere
<1>4. Vector(Fill(mem, Change(p), v), Step(p)) = Vector(mem, Step(p))
  BY <1>1, <1>2 DEF Vector
<1>5. ASSUME NEW c \in Slots, c # p PROVE Slot(Fill(mem, Change(p), v), c) = Slot(mem, c)
  <2>1. Part(Change(p)) \cap Part(Change(c)) = {}
    BY <1>5, Apart
  <2>2. Part(Change(p)) \cap Part(Step(c)) = {} /\ Rho(c) \notin Part(Change(p))
    BY Addresses, Regions DEF Steps, Changes, Rhos
  <2>. QED BY <1>2, <2>1, <2>2, SlotStays
<1>. QED BY <1>2, <1>3, <1>4, <1>5

\* With the direction the pairs that are not in its slot stay.
LEMMA DirectionInRing ==
  ASSUME NEW k \in Nat, NEW p \in Slots, NEW mem, DOMAIN mem = Cells, NEW ss,
         \A t \in 1..(msize - 1) : t < k => Slot(mem, At(p, t)) = PairOf(ss, k - t)
  PROVE  InRing(WithDirection(mem, k, p, ss[k]), k, p, ss)
<1>. DEFINE m1 == Fill(mem, Step(p), Is("direction", k))
            m2 == Fill(m1, 0, Is("gradient", ss[k]))
<1>1. /\ DOMAIN m1 = Cells /\ Vector(m1, Step(p)) = {Is("direction", k)}
      /\ \A c \in Slots : c # p => Slot(m1, c) = Slot(mem, c)
  BY StepIsApart
<1>2. WithDirection(mem, k, p, ss[k]) = m2
  BY DEF WithDirection
<1>3. Vector(m2, 0) = {Is("gradient", ss[k])}
  <2>1. Part(0) \subseteq Cells
    BY Regions
  <2>. HIDE DEF m1
  <2>. QED BY <1>1, <2>1, WrittenHere
<1>. HIDE DEF m1
<1>4. /\ DOMAIN m2 = Cells
      /\ \A c \in Slots : Slot(m2, c) = Slot(m1, c) /\ Vector(m2, Step(c)) = Vector(m1, Step(c))
  BY <1>1, WorkIsApart, Regions DEF Slots
<1>. HIDE DEF m2
<1>5. ASSUME NEW t \in 1..(msize - 1), t < k PROVE Slot(m2, At(p, t)) = PairOf(ss, k - t)
  <2>1. t \in 0..msize /\ At(p, t) \in Slots /\ At(p, t) # p
    BY Around, Regions
  <2>. QED BY <1>1, <1>4, <1>5, <2>1
<1>. QED BY <1>1, <1>2, <1>3, <1>4, <1>5 DEF InRing

\* The number of the newest pair, written when the next iteration begins.
Given(n, p, mem) ==
  Put(mem, {RhoWritten(p)}, Is("rho", <<Slot(mem, n).s, Slot(mem, n).y>>))

\* The pairs are those a new iteration is to be made of, but for the newest one's number.
InSlots(mem, k, p, ss) ==
  /\ DOMAIN mem = Cells
  /\ Slot(mem, At(p, 1)).s = PairOf(ss, k - 1).s
  /\ Slot(mem, At(p, 1)).y = PairOf(ss, k - 1).y
  /\ \A t \in 2..Bound(k) : Slot(mem, At(p, t)) = PairOf(ss, k - t)

LEMMA BoundIs == \A k \in Nat : k >= 2 => /\ Bound(k) \in 1..msize /\ Bound(k) <= k - 1
                                          /\ \A t \in 1..(msize - 1) : t < k => t <= Bound(k)
BY Regions DEF Bound

LEMMA GivenPairs ==
  ASSUME NEW k \in Nat, k >= 2, NEW p \in Slots, NEW mem, NEW ss, InSlots(mem, k, p, ss)
  PROVE  /\ DOMAIN Given(At(p, 1), p, mem) = Cells
         /\ \A t \in 1..Bound(k) : Slot(Given(At(p, 1), p, mem), At(p, t)) = PairOf(ss, k - t)
<1>. DEFINE n == At(p, 1)
            g == Given(n, p, mem)
            v == Is("rho", <<Slot(mem, n).s, Slot(mem, n).y>>)
<1>1. Bound(k) \in 1..msize /\ 1 \in 0..msize
  BY BoundIs, Regions
<1>2. n \in Slots /\ RhoWritten(p) = Rho(n)
  BY <1>1, Around
<1>3. Rho(n) \in Rhos /\ Rho(n) \in Cells
  BY <1>2, Addresses, Regions DEF Rhos
<1>. HIDE DEF n
<1>4. DOMAIN g = Cells /\ \A a \in Cells : g[a] = IF a = Rho(n) THEN v ELSE mem[a]
  BY <1>2, <1>3, Written DEF Given, InSlots
<1>5. v = PairOf(ss, k - 1).rho
  BY DEF InSlots, PairOf, n
<1>. HIDE DEF g, v
<1>6. Slot(g, n) = PairOf(ss, k - 1)
  <2>1. Part(Step(n)) \subseteq Cells /\ Part(Change(n)) \subseteq Cells
        /\ Rho(n) \notin Part(Step(n)) /\ Rho(n) \notin Part(Change(n))
    BY <1>2, <1>3, Addresses, Regions DEF Steps, Changes, Rhos
  <2>2. Vector(g, Step(n)) = Vector(mem, Step(n)) /\ Vector(g, Change(n)) = Vector(mem, Change(n))
    BY <1>4, <2>1 DEF Vector
  <2>3. Vector(mem, Step(n)) = PairOf(ss, k - 1).s /\ Vector(mem, Change(n)) = PairOf(ss, k - 1).y
    BY DEF InSlots, Slot, n
  <2>4. g[Rho(n)] = PairOf(ss, k - 1).rho
    BY <1>3, <1>4, <1>5
  <2>. QED BY <2>2, <2>3, <2>4 DEF Slot, PairOf
<1>7. ASSUME NEW t \in 2..Bound(k) PROVE Slot(g, At(p, t)) = PairOf(ss, k - t)
  <2>1. t \in 0..msize /\ 1 \in 0..msize /\ t \in 1..msize /\ t # 1
    BY <1>1, Regions
  <2>2. At(p, t) \in Slots /\ At(p, t) # n
    <3>1. \A j \in 1..msize : 1 # j => At(p, 1) # At(p, j)
      BY <2>1, Around
    <3>. QED BY <2>1, <3>1, Around DEF n
  <2>3. Rho(At(p, t)) # Rho(n)
    BY <1>2, <2>2, Apart
  <2>4. {Rho(n)} \cap Part(Step(At(p, t))) = {} /\ {Rho(n)} \cap Part(Change(At(p, t))) = {}
    BY <1>3, <2>2, Addresses, Regions DEF Steps, Changes, Rhos
  <2>5. Slot(g, At(p, t)) = Slot(mem, At(p, t))
    <3>. DEFINE cells == {Rho(n)}
    <3>1. (\A a \in Cells : a \notin cells => g[a] = mem[a]) /\ Rho(At(p, t)) \notin cells
      BY <1>4, <2>3
    <3>2. cells \cap Part(Step(At(p, t))) = {} /\ cells \cap Part(Change(At(p, t))) = {}
      BY <2>4
    <3>. HIDE DEF cells
    <3>. QED BY <2>2, <3>1, <3>2, SlotStays
  <2>. QED BY <2>5 DEF InSlots
<1>8. \A t \in 1..Bound(k) : t = 1 \/ t \in 2..Bound(k)
  BY <1>1
<1>. QED BY <1>4, <1>6, <1>7, <1>8 DEF g, n

\* What Begin makes of them.
BackOf(k, p, mem) == Back(k, p, Fill(Given(At(p, 1), p, mem), 0, Is("work", k)))

LEMMA DirectionIsMade ==
  ASSUME NEW k \in Nat, k >= 2, NEW p \in Slots, NEW mem, NEW ss, InSlots(mem, k, p, ss)
  PROVE  /\ InRing(WithDirection(Fill(BackOf(k, p, mem).w, 0, Is("work", k)), k, p, ss[k]),
                   k, p, ss)
         /\ [back  |-> BackOf(k, p, mem).used,
             forth |-> Forth(k, BackOf(k, p, mem).cp, BackOf(k, p, mem).w),
             scale |-> <<Slot(mem, At(p, 1)).s, Slot(mem, At(p, 1)).y>>] = MadeOf(ss, k)
<1>. DEFINE n == Bound(k)
            P == [t \in 1..n |-> PairOf(ss, k - t)]
            g == Given(At(p, 1), p, mem)
            f == Fill(g, 0, Is("work", k))
            b == BackOf(k, p, mem)
<1>1. n \in 1..msize /\ n \in 0..msize /\ n \in Nat /\ n <= k - 1
      /\ \A t \in 1..(msize - 1) : t < k => t <= n
  BY BoundIs, Regions
<1>2. DOMAIN g = Cells /\ \A t \in 1..n : Slot(g, At(p, t)) = PairOf(ss, k - t)
  BY GivenPairs
<1>3. \A t \in 1..n : P[t] = PairOf(ss, k - t)
  OBVIOUS
<1>4. \A t \in 1..n : t \in 0..msize /\ At(p, t) \in Slots
  <2>1. \A t \in 1..n : t \in 0..msize
    BY <1>1, Regions
  <2>. QED BY <2>1, Around
<1>. HIDE DEF n, P, g
<1>5. DOMAIN f = Cells /\ \A c \in Slots : Slot(f, c) = Slot(g, c)
  <2>1. 0 \in Slots
    BY Regions DEF Slots
  <2>. QED BY <1>2, <2>1, WorkIsApart
<1>6. \A t \in 1..n : Slot(f, At(p, t)) = P[t]
  BY <1>2, <1>3, <1>4, <1>5
<1>7. b = Back(k, p, f)
  BY DEF BackOf, g
<1>. HIDE DEF f, b
<1>8. BackAt(b, n, k, p, f, P)
  BY <1>1, <1>5, <1>6, <1>7, BackLoop DEF n
<1>9. \A t \in 1..n : Slot(b.w, At(p, t)) = P[t]
  <2>1. ASSUME NEW t \in 1..n PROVE Slot(b.w, At(p, t)) = Slot(f, At(p, t))
    <3>1. At(p, t) \in Slots
      BY <1>4
    <3>2. /\ Alphas \cap Part(Step(At(p, t))) = {} /\ Alphas \cap Part(Change(At(p, t))) = {}
          /\ Rho(At(p, t)) \notin Alphas
      BY <3>1, Addresses, RegionsAreApart
    <3>3. \A a \in Cells : a \notin Alphas => b.w[a] = f[a]
      BY <1>8 DEF BackAt
    <3>. QED BY <3>1, <3>2, <3>3, SlotStays
  <2>. QED BY <1>6, <2>1
<1>10. Forth(k, b.cp, b.w) = ForthUsed(n, n, k, P)
  <2>1. b.cp = At(p, n) /\ \A j \in 1..n : b.w[Alpha(At(p, j))] = Is("alpha", <<k, P[j]>>)
    BY <1>8 DEF BackAt
  <2>2. \A j \in 1..n : /\ Slot(b.w, At(p, j)) = P[j]
                        /\ b.w[Alpha(At(p, j))] = Is("alpha", <<k, P[j]>>)
    BY <1>9, <2>1
  <2>3. Forth(k, At(p, n), b.w) = ForthUsed(n, n, k, P)
    BY <1>1, <2>2, ForthLoop DEF n
  <2>. QED BY <2>1, <2>3
<1>11. b.used = [t \in 1..n |-> PairOf(ss, k - t)]
  <2>1. b.used = [t \in 1..n |-> P[t]]
    BY <1>8 DEF BackAt
  <2>. QED BY <1>3, <2>1
<1>12. Forth(k, b.cp, b.w) =
         [j \in 1..n |-> <<Is("alpha", <<k, PairOf(ss, k - n + j - 1)>>),
                           PairOf(ss, k - n + j - 1)>>]
  <2>1. ASSUME NEW j \in 1..n PROVE P[n - j + 1] = PairOf(ss, k - n + j - 1)
    <3>1. n - j + 1 \in 1..n /\ k - (n - j + 1) = k - n + j - 1
      BY <1>1
    <3>2. P[n - j + 1] = PairOf(ss, k - (n - j + 1))
      BY <1>3, <3>1
    <3>. QED BY <3>1, <3>2
  <2>. QED BY <1>10, <2>1 DEF ForthUsed
<1>13. Slot(mem, At(p, 1)).s = PairOf(ss, k - 1).s /\ Slot(mem, At(p, 1)).y = PairOf(ss, k - 1).y
  BY DEF InSlots
<1>14. InRing(WithDirection(Fill(b.w, 0, Is("work", k)), k, p, ss[k]), k, p, ss)
  <2>. DEFINE l == Fill(b.w, 0, Is("work", k))
  <2>1. DOMAIN l = Cells /\ \A c \in Slots : Slot(l, c) = Slot(b.w, c)
    <3>1. 0 \in Slots /\ DOMAIN b.w = Cells
      BY <1>8, Regions DEF Slots, BackAt
    <3>. QED BY <3>1, WorkIsApart
  <2>. HIDE DEF l
  <2>2. ASSUME NEW t \in 1..(msize - 1), t < k PROVE Slot(l, At(p, t)) = PairOf(ss, k - t)
    <3>1. t \in 1..n
      BY <1>1, <2>2
    <3>. QED BY <1>3, <1>4, <1>9, <2>1, <3>1
  <2>. QED BY <2>1, <2>2, DirectionInRing DEF l
<1>. QED BY <1>11, <1>12, <1>13, <1>14 DEF MadeOf, n, b
--------------------------------------------------------------------------
(* The line search. *)

\* What would end the search at the next call has sent it to its best step.
Ended == LastCalls(search.nfev) \/ search.infoc = 0 \/ search.narrow

Searches ==
  [info : -1..6, nfev : 0..maxfev, infoc : 0..4, brackt : BOOLEAN, narrow : BOOLEAN, stx : BOOLEAN]

\* A line search that goes on has a call left.
SearchType ==
  /\ returned \in {-1, 0, 1}
  /\ search \in Searches
  /\ returned = 1 => search.nfev < maxfev

IInv ==
  /\ SearchType
  /\ returned = 1 /\ search.brackt /\ Ended => search.stx
  /\ GivesUpAtTheBest

LEMMA NewSearchHolds ==
  ASSUME returned' \in {-1, 0, 1}, search' = NewSearch \/ search' = [NewSearch EXCEPT !.info = 0]
  PROVE  IInv'
<1>0. maxfev \in Nat /\ maxfev > 0
  BY SizesAssumption
<1>1. /\ search' \in Searches
      /\ search'.brackt = FALSE /\ search'.nfev = 0
  <2>1. /\ NewSearch \in Searches
        /\ NewSearch.brackt = FALSE /\ NewSearch.nfev = 0
    BY <1>0 DEF NewSearch, Searches
  <2>2. [NewSearch EXCEPT !.info = 0] \in Searches
    BY <2>1 DEF Searches
  <2>3. [NewSearch EXCEPT !.info = 0].brackt = FALSE /\ [NewSearch EXCEPT !.info = 0].nfev = 0
    BY DEF NewSearch
  <2>. QED BY <2>1, <2>2, <2>3
<1>. QED BY <1>0, <1>1 DEF IInv, SearchType, GivesUpAtTheBest

LEMMA InitHolds == Init => IInv
<1>. SUFFICES ASSUME Init PROVE IInv
  OBVIOUS
<1>0. maxfev \in Nat /\ maxfev > 0
  BY SizesAssumption
<1>1. /\ search \in Searches
      /\ search.brackt = FALSE /\ search.nfev = 0 /\ returned = 1
  BY <1>0 DEF Init, NewSearch, Searches
<1>. QED BY <1>0, <1>1 DEF IInv, SearchType, GivesUpAtTheBest

LEMMA SearchKeeps ==
  ASSUME IInv, Search
  PROVE  IInv'
<1>1. PICK infoc \in Cases, outside, narrow \in BOOLEAN :
        LET brackt == search.brackt \/ infoc \in {1, 2}
            ends   == outside \/ LastCalls(search.nfev + 1) \/ infoc = 0 \/ narrow
        IN  search' = [info |-> -1, nfev |-> search.nfev + 1, brackt |-> brackt, infoc |-> infoc,
                       narrow |-> brackt /\ narrow, stx |-> brackt /\ ends]
  BY DEF Search
<1>. DEFINE brackt == search.brackt \/ infoc \in {1, 2}
            ends   == outside \/ LastCalls(search.nfev + 1) \/ infoc = 0 \/ narrow
<1>2. /\ search'.info = -1 /\ search'.nfev = search.nfev + 1 /\ search'.brackt = brackt
      /\ search'.infoc = infoc /\ search'.narrow = (brackt /\ narrow)
      /\ search'.stx = (brackt /\ ends)
  BY <1>1
<1>0. maxfev \in Nat /\ search.nfev \in Nat /\ search.nfev + 1 < maxfev
  <2>1. maxfev \in Nat /\ search.nfev \in 0..maxfev
    BY SizesAssumption DEF IInv, SearchType, Searches
  <2>2. ~(search.nfev + 1 >= maxfev)
    BY DEF Search, Info
  <2>. QED BY <2>1, <2>2
<1>3. /\ infoc \in 0..4
      /\ brackt \in BOOLEAN /\ (brackt /\ narrow) \in BOOLEAN /\ (brackt /\ ends) \in BOOLEAN
  <2>1. infoc \in 0..4
    BY DEF Cases
  <2>2. search.brackt \in BOOLEAN
    BY DEF IInv, SearchType, Searches
  <2>3. brackt \in BOOLEAN /\ (brackt /\ narrow) \in BOOLEAN /\ (brackt /\ ends) \in BOOLEAN
    BY <2>2
  <2>. QED BY <2>1, <2>3
<1>4. search' \in Searches
  <2>. HIDE DEF brackt, ends
  <2>1. search' = [info |-> -1, nfev |-> search.nfev + 1, brackt |-> brackt, infoc |-> infoc,
                   narrow |-> brackt /\ narrow, stx |-> brackt /\ ends]
    BY <1>1 DEF brackt, ends
  <2>2. search.nfev + 1 \in 0..maxfev /\ -1 \in -1..6
    BY <1>0
  <2>. QED BY <1>3, <2>1, <2>2 DEF Searches
<1>5. SearchType'
  <2>1. returned' \in {-1, 0, 1} /\ search'.nfev < maxfev
    BY <1>0, <1>2 DEF Search, IInv, SearchType
  <2>. QED BY <1>4, <2>1 DEF SearchType
<1>6. search'.brackt /\ Ended' => search'.stx
  <2>1. Ended' <=> LastCalls(search'.nfev) \/ search'.infoc = 0 \/ search'.narrow
    BY DEF Ended, LastCalls
  <2>2. Ended' => ends \/ ~brackt
    BY <1>2, <2>1
  <2>. QED BY <1>2, <2>2, Zenon
<1>7. GivesUpAtTheBest'
  BY <1>2 DEF GivesUpAtTheBest
<1>. QED BY <1>5, <1>6, <1>7 DEF IInv

LEMMA SearchFailsKeeps ==
  ASSUME IInv, SearchFails
  PROVE  IInv'
<1>1. PICK atmin, atmax \in BOOLEAN :
        search' = [search EXCEPT !.info = Info(FALSE, atmin, atmax), !.nfev = @ + 1]
  BY DEF SearchFails
<1>2. returned = 1 /\ returned' = -1
  BY DEF SearchFails, Call
<1>3. /\ search'.info = Info(FALSE, atmin, atmax) /\ search'.brackt = search.brackt
      /\ search'.stx = search.stx
  BY <1>1 DEF IInv, SearchType, Searches
<1>4. search.nfev \in 0..maxfev /\ search.nfev < maxfev /\ maxfev \in Nat
  BY <1>2, SizesAssumption DEF IInv, SearchType, Searches
<1>5. Info(FALSE, atmin, atmax) \in {0, 2, 3, 4, 5, 6}
  BY DEF Info
<1>6. SearchType'
  <2>. DEFINE info == Info(FALSE, atmin, atmax)
  <2>1. info \in -1..6
    <3>1. {0, 2, 3, 4, 5, 6} \subseteq -1..6
      OBVIOUS
    <3>. QED BY <1>5, <3>1, Zenon
  <2>2. search' = [search EXCEPT !.info = info, !.nfev = search.nfev + 1]
    BY <1>1, Zenon
  <2>. HIDE DEF info
  <2>3. search' \in Searches
    <3>1. search \in Searches
      BY DEF IInv, SearchType
    <3>2. search.nfev + 1 \in 0..maxfev
      BY <1>4
    <3>. QED BY <2>1, <2>2, <3>1, <3>2 DEF Searches
  <2>. QED BY <1>2, <2>3 DEF SearchType
<1>7. ASSUME search.brackt, Info(FALSE, atmin, atmax) \in {2, 3, 6} PROVE search.stx
  <2>1. search.nfev + 1 >= maxfev => LastCalls(search.nfev)
    BY <1>4 DEF LastCalls
  <2>2. \/ search.narrow \/ search.nfev + 1 >= maxfev \/ search.stx \/ search.infoc = 0
    BY <1>7 DEF Info
  <2>. QED BY <1>2, <1>7, <2>1, <2>2 DEF IInv, Ended
<1>8. GivesUpAtTheBest'
  BY <1>3, <1>7 DEF GivesUpAtTheBest
<1>. QED BY <1>2, <1>6, <1>8 DEF IInv

LEMMA NextKeeps == IInv /\ [Next]_vars => IInv'
<1>. SUFFICES ASSUME IInv, [Next]_vars PROVE IInv'
  OBVIOUS
<1>1. CASE FirstCall
  BY <1>1, NewSearchHolds DEF FirstCall, StartSearch
<1>2. CASE Search
  BY <1>2, SearchKeeps
<1>3. CASE SearchFails
  BY <1>3, SearchFailsKeeps
<1>4. CASE NextIteration
  BY <1>4, NewSearchHolds DEF NextIteration, StartSearch
<1>5. CASE Terminate
  BY <1>5, NewSearchHolds DEF Terminate
<1>6. CASE UNCHANGED vars
  BY <1>6 DEF IInv, SearchType, Ended, LastCalls, GivesUpAtTheBest, vars
<1>. QED BY <1>1, <1>2, <1>3, <1>4, <1>5, <1>6 DEF Next

\* A line search that has bracketed a minimum and gives up leaves the weights at the
\* best step, whatever the numbers are: each test that can end it at its next call sends
\* it there at this one, the last call of all included.
THEOREM AlwaysGivesUpAtTheBest == Spec => []GivesUpAtTheBest
<1>1. IInv => GivesUpAtTheBest
  BY DEF IInv
<1>. QED BY InitHolds, NextKeeps, <1>1, PTL DEF Spec

--------------------------------------------------------------------------
(* The rings. *)

\* The inductive invariant of the rings.
RingIInv ==
  /\ calls \in 0..MaxCalls /\ iter \in Nat /\ point \in Slots
  /\ DOMAIN w = Cells
  /\ starts \in Seq(1..MaxCalls)
  /\ iter = 0 /\ returned = 1 => starts = <<>>
  /\ iter > 0 => Len(starts) = iter /\ InRing(w, iter, point, starts)
  /\ PairsAreTheNewest

LEMMA MadeIs ==
  ASSUME made = Nothing \/ made = MadeOf(starts, iter)
  PROVE  PairsAreTheNewest
BY DEF PairsAreTheNewest, MadeOf, PairOf, Pair

LEMMA RingInit == Init => RingIInv
<1>. SUFFICES ASSUME Init PROVE RingIInv
  OBVIOUS
<1>1. /\ calls \in 0..MaxCalls /\ iter = 0 /\ point = 0 /\ DOMAIN w = Cells
      /\ starts = <<>> /\ made = Nothing
  BY SizesAssumption DEF Init
<1>2. PairsAreTheNewest
  BY <1>1, MadeIs
<1>3. point \in Slots
  BY <1>1, Regions DEF Slots
<1>. QED BY <1>1, <1>2, <1>3 DEF RingIInv

\* What an accepted step leaves: its pair is the newest, behind it are the others.
LEMMA StoredInSlots ==
  ASSUME RingIInv, iter > 0, NEW call
  PROVE  LET m1 == Fill(w, Step(point), Is("step", Vector(w, Step(point))))
             m2 == Fill(m1, Change(point), Is("change", <<Vector(w, 0), call>>))
         IN  InSlots(m2, iter + 1, After(point), Append(starts, call))
<1>. DEFINE x  == Is("step", Vector(w, Step(point)))
            y  == Is("change", <<Vector(w, 0), call>>)
            m1 == Fill(w, Step(point), x)
            m2 == Fill(m1, Change(point), y)
            ss == Append(starts, call)
            p  == After(point)
<1>1. /\ iter \in Nat /\ point \in Slots /\ DOMAIN w = Cells
      /\ Len(starts) = iter /\ starts \in Seq(1..MaxCalls)
      /\ Vector(w, 0) = {Is("gradient", starts[iter])}
      /\ Vector(w, Step(point)) = {Is("direction", iter)}
      /\ \A t \in 1..(msize - 1) : t < iter => Slot(w, At(point, t)) = PairOf(starts, iter - t)
  BY DEF RingIInv, InRing
<1>2. /\ \A j \in 1..iter : ss[j] = starts[j]
      /\ ss[iter + 1] = call
  BY <1>1
<1>3. /\ p \in Slots /\ At(p, 1) = point
      /\ \A t \in 2..msize : At(p, t) = At(point, t - 1)
  <2>1. 0 \in 0..msize /\ 0 < msize /\ 0 + 1 = 1
    BY Regions
  <2>2. p \in Slots /\ At(p, 1) = point
    BY <1>1, <2>1, Around
  <2>3. ASSUME NEW t \in 2..msize PROVE At(p, t) = At(point, t - 1)
    <3>1. t - 1 \in 0..msize /\ t - 1 < msize /\ (t - 1) + 1 = t
      BY Regions
    <3>2. At(p, (t - 1) + 1) = At(point, t - 1)
      BY <1>1, <3>1, Around
    <3>. QED BY <3>1, <3>2
  <2>. QED BY <2>2, <2>3
<1>. HIDE DEF ss, p, y
<1>4. /\ DOMAIN m1 = Cells /\ Vector(m1, Step(point)) = {x}
      /\ \A c \in Slots : c # point => Slot(m1, c) = Slot(w, c)
  BY <1>1, StepIsApart
<1>. HIDE DEF m1
<1>5. /\ DOMAIN m2 = Cells /\ Vector(m2, Change(point)) = {y}
      /\ Vector(m2, Step(point)) = Vector(m1, Step(point))
      /\ \A c \in Slots : c # point => Slot(m2, c) = Slot(m1, c)
  <2>1. \A mem, v : DOMAIN mem = Cells =>
          /\ DOMAIN Fill(mem, Change(point), v) = Cells
          /\ Vector(Fill(mem, Change(point), v), Change(point)) = {v}
          /\ Vector(Fill(mem, Change(point), v), Step(point)) = Vector(mem, Step(point))
          /\ \A c \in Slots : c # point => Slot(Fill(mem, Change(point), v), c) = Slot(mem, c)
    BY <1>1, ChangeIsApart
  <2>. QED BY <1>4, <2>1
<1>. HIDE DEF m2
<1>6. Slot(m2, point).s = PairOf(ss, iter).s
  <2>1. Slot(m2, point).s = {Is("step", {Is("direction", iter)})}
    BY <1>1, <1>4, <1>5 DEF Slot
  <2>. QED BY <2>1 DEF PairOf
<1>7. Slot(m2, point).y = PairOf(ss, iter).y
  <2>0. iter \in 1..iter
    BY <1>1
  <2>1. y = Is("change", <<{Is("gradient", ss[iter])}, ss[iter + 1]>>)
    BY <1>1, <1>2, <2>0 DEF y
  <2>2. Slot(m2, point).y = {y}
    BY <1>5 DEF Slot
  <2>. QED BY <2>1, <2>2 DEF PairOf
<1>8. ASSUME NEW t \in 2..Bound(iter + 1)
      PROVE  Slot(m2, At(p, t)) = PairOf(ss, (iter + 1) - t)
  <2>1. iter + 1 \in Nat /\ iter + 1 >= 2 /\ msize \in Nat
    BY <1>1, Regions
  <2>2. Bound(iter + 1) \in 1..msize /\ Bound(iter + 1) <= (iter + 1) - 1
    BY <2>1, BoundIs
  <2>3. /\ t \in 2..msize /\ t - 1 \in 1..(msize - 1) /\ t - 1 < iter /\ t - 1 \in 0..msize
        /\ iter - (t - 1) = (iter + 1) - t
        /\ (iter + 1) - t \in 1..iter /\ ((iter + 1) - t) + 1 \in 1..iter
    BY <1>1, <2>1, <2>2
  <2>4. At(p, t) = At(point, t - 1) /\ At(point, t - 1) \in Slots /\ At(point, t - 1) # point
    BY <1>1, <1>3, <2>3, Around
  <2>5. Slot(m2, At(p, t)) = Slot(w, At(point, t - 1))
    BY <1>4, <1>5, <2>4
  <2>6. Slot(w, At(point, t - 1)) = PairOf(starts, (iter + 1) - t)
    BY <1>1, <2>3
  <2>7. PairOf(starts, (iter + 1) - t) = PairOf(ss, (iter + 1) - t)
    <3>1. /\ ss[(iter + 1) - t] = starts[(iter + 1) - t]
          /\ ss[((iter + 1) - t) + 1] = starts[((iter + 1) - t) + 1]
      BY <1>2, <2>3
    <3>. QED BY <3>1 DEF PairOf
  <2>. QED BY <2>5, <2>6, <2>7
<1>9. PairOf(ss, (iter + 1) - 1) = PairOf(ss, iter)
  <2>1. (iter + 1) - 1 = iter
    BY <1>1
  <2>. QED BY <2>1
<1>10. InSlots(m2, iter + 1, p, ss)
  <2>1. /\ Slot(m2, At(p, 1)).s = PairOf(ss, (iter + 1) - 1).s
        /\ Slot(m2, At(p, 1)).y = PairOf(ss, (iter + 1) - 1).y
    BY <1>3, <1>6, <1>7, <1>9
  <2>2. /\ DOMAIN m2 = Cells
        /\ \A t \in 2..Bound(iter + 1) : Slot(m2, At(p, t)) = PairOf(ss, (iter + 1) - t)
    BY <1>5, <1>8
  <2>. QED BY <2>1, <2>2 DEF InSlots
<1>. QED BY <1>10 DEF m1, m2, ss, p, y

\* Begin by the operators above.
LEMMA BeginIs ==
  ASSUME NEW k \in Nat, k >= 2, NEW p, NEW mem, Begin(k, At(p, 1), p, mem)
  PROVE  /\ iter' = k /\ point' = p /\ starts' = Append(starts, calls')
         /\ w' = WithDirection(Fill(BackOf(k, p, mem).w, 0, Is("work", k)), k, p, calls')
         /\ made' = [back  |-> BackOf(k, p, mem).used,
                     forth |-> Forth(k, BackOf(k, p, mem).cp, BackOf(k, p, mem).w),
                     scale |-> <<Slot(mem, At(p, 1)).s, Slot(mem, At(p, 1)).y>>]
<1>1. k # 1
  OBVIOUS
<1>. QED BY <1>1 DEF Begin, BackOf, Given, WithDirection

LEMMA CallIs ==
  ASSUME RingIInv, Call
  PROVE  calls' \in 1..MaxCalls /\ calls' \in 0..MaxCalls /\ returned = 1
BY SizesAssumption DEF RingIInv, Call

LEMMA FirstCallKeepsRing ==
  ASSUME RingIInv, FirstCall
  PROVE  RingIInv'
<1>1. /\ calls' \in 1..MaxCalls /\ calls' \in 0..MaxCalls /\ starts = <<>> /\ DOMAIN w = Cells
  BY CallIs DEF FirstCall, RingIInv
<1>2. /\ iter' = 1 /\ point' = 0 /\ starts' = Append(starts, calls') /\ made' = Nothing
      /\ w' = WithDirection(w, 1, 0, calls')
  BY DEF FirstCall, Begin, WithDirection
<1>3. starts' \in Seq(1..MaxCalls) /\ Len(starts') = 1 /\ starts'[1] = calls'
  BY <1>1, <1>2
<1>4. 0 \in Slots
  BY Regions DEF Slots
<1>5. InRing(WithDirection(w, 1, 0, starts'[1]), 1, 0, starts')
  <2>1. \A t \in 1..(msize - 1) : t < 1 => Slot(w, At(0, t)) = PairOf(starts', 1 - t)
    OBVIOUS
  <2>. QED BY <1>1, <1>4, <2>1, DirectionInRing
<1>6. InRing(w', iter', point', starts')
  BY <1>2, <1>3, <1>5
<1>7. PairsAreTheNewest'
  BY <1>2 DEF PairsAreTheNewest
<1>8. DOMAIN w' = Cells
  BY <1>6 DEF InRing
<1>. QED BY <1>1, <1>2, <1>3, <1>4, <1>6, <1>7, <1>8 DEF RingIInv

LEMMA NextIterationKeepsRing ==
  ASSUME RingIInv, NextIteration
  PROVE  RingIInv'
<1>. DEFINE k   == iter + 1
            p   == After(point)
            mem == Stored
<1>1. /\ calls' \in 1..MaxCalls /\ calls' \in 0..MaxCalls /\ iter \in Nat /\ iter > 0
      /\ starts \in Seq(1..MaxCalls) /\ Len(starts) = iter /\ point \in Slots
  BY CallIs DEF NextIteration, RingIInv
<1>2. k \in Nat /\ k >= 2
  BY <1>1
<1>3. p \in Slots /\ At(p, 1) = point
  <2>1. 0 \in 0..msize /\ 0 < msize /\ 0 + 1 = 1
    BY Regions
  <2>. QED BY <1>1, <2>1, Around
<1>4. Begin(k, At(p, 1), p, mem)
  BY <1>3 DEF NextIteration
<1>5. InSlots(mem, k, p, Append(starts, calls'))
  BY <1>1, StoredInSlots DEF Stored
<1>. HIDE DEF k, p, mem
<1>6. /\ iter' = k /\ point' = p /\ starts' = Append(starts, calls')
      /\ w' = WithDirection(Fill(BackOf(k, p, mem).w, 0, Is("work", k)), k, p, calls')
      /\ made' = [back  |-> BackOf(k, p, mem).used,
                  forth |-> Forth(k, BackOf(k, p, mem).cp, BackOf(k, p, mem).w),
                  scale |-> <<Slot(mem, At(p, 1)).s, Slot(mem, At(p, 1)).y>>]
  BY <1>2, <1>4, BeginIs
<1>7. starts' \in Seq(1..MaxCalls) /\ Len(starts') = k /\ starts'[k] = calls'
  BY <1>1, <1>6 DEF k
<1>8. /\ InRing(WithDirection(Fill(BackOf(k, p, mem).w, 0, Is("work", k)), k, p, starts'[k]),
                k, p, starts')
      /\ [back  |-> BackOf(k, p, mem).used,
          forth |-> Forth(k, BackOf(k, p, mem).cp, BackOf(k, p, mem).w),
          scale |-> <<Slot(mem, At(p, 1)).s, Slot(mem, At(p, 1)).y>>] = MadeOf(starts', k)
  <2>1. InSlots(mem, k, p, starts')
    BY <1>5, <1>6
  <2>. QED BY <1>2, <1>3, <2>1, DirectionIsMade
<1>9. InRing(w', iter', point', starts')
  BY <1>6, <1>7, <1>8
<1>10. PairsAreTheNewest'
  <2>1. made' = MadeOf(starts', iter')
    BY <1>6, <1>8
  <2>. QED BY <2>1 DEF PairsAreTheNewest, MadeOf, PairOf, Pair
<1>11. DOMAIN w' = Cells
  BY <1>9 DEF InRing
<1>. QED BY <1>1, <1>2, <1>3, <1>6, <1>7, <1>9, <1>10, <1>11 DEF RingIInv

LEMMA OthersKeepRing ==
  ASSUME RingIInv, Search \/ SearchFails \/ Terminate \/ UNCHANGED vars
  PROVE  RingIInv'
<1>1. CASE Search \/ SearchFails
  <2>1. calls' \in 0..MaxCalls /\ UNCHANGED <<iter, point, w, made, starts>> /\ iter > 0
    BY <1>1, CallIs DEF Search, SearchFails, memory
  <2>2. PairsAreTheNewest'
    BY <2>1 DEF RingIInv, PairsAreTheNewest, Pair
  <2>3. InRing(w', iter', point', starts') /\ DOMAIN w' = Cells
    BY <2>1 DEF RingIInv
  <2>. QED BY <2>1, <2>2, <2>3 DEF RingIInv
<1>2. CASE Terminate
  <2>1. /\ calls' \in 0..MaxCalls /\ returned' = 0 /\ iter' = 0 /\ point' = 0
        /\ DOMAIN w' = Cells /\ made' = Nothing /\ starts' = starts
    BY <1>2, CallIs DEF Terminate
  <2>2. 0 \in Slots
    BY Regions DEF Slots
  <2>3. PairsAreTheNewest'
    BY <2>1 DEF PairsAreTheNewest
  <2>. QED BY <2>1, <2>2, <2>3 DEF RingIInv
<1>3. CASE UNCHANGED vars
  BY <1>3 DEF RingIInv, PairsAreTheNewest, Pair, vars, memory
<1>. QED BY <1>1, <1>2, <1>3

\* Wherever the rings have them, behind the slot of the direction come the pairs of
\* the iterations before, each number in the slot of its pair.
THEOREM RingInvariance == Spec => []RingIInv
<1>1. RingIInv /\ [Next]_vars => RingIInv'
  BY FirstCallKeepsRing, NextIterationKeepsRing, OthersKeepRing DEF Next
<1>. QED BY RingInit, <1>1, PTL DEF Spec

\* A direction is made of the pairs of the last msize iterations, each with its own
\* numbers, for every length of the rings and however often they have wrapped.
THEOREM PairsAreAlwaysTheNewest == Spec => []PairsAreTheNewest
<1>1. RingIInv => PairsAreTheNewest
  BY DEF RingIInv
<1>. QED BY RingInvariance, <1>1, PTL

\* Nothing is written outside w and a line search keeps within its calls.
THEOREM TypeCorrect == Spec => []TypeOK
<1>1. IInv /\ RingIInv => TypeOK
  <2>. SUFFICES ASSUME IInv, RingIInv PROVE TypeOK
    OBVIOUS
  <2>1. search.info \in -1..6 /\ search.infoc \in 0..4 /\ search.nfev \in 0..maxfev
    BY DEF IInv, SearchType, Searches
  <2>. QED BY <2>1 DEF IInv, SearchType, RingIInv, TypeOK, Slots
<1>. QED BY InitHolds, NextKeeps, RingInvariance, <1>1, PTL DEF Spec

--------------------------------------------------------------------------
(* Training with one sentence after the other: runMIRA. *)

\* Behind a round without violations nobody is left out: every sentence up to the
\* one that is next has been parsed in this round.
Rechecking ==
  converge = 1 /\ status = "training" =>
    active_set = i /\ \A s \in Sentences : s >= i => shrink[s] = 0

\* The count of a sentence, which may wrap, is never above the true number.
Earned == \A s \in Sentences : shrink[s] <= right[s]

\* The inductive invariant.
MIRAInv ==
  /\ MIRATypeOK /\ Rechecking /\ Earned /\ ConvergedOnAll
  /\ status # "converged" => converge < 2
  /\ status = "training" => itr < maxitr

\* The widths as numbers, so that the ranges up to them need not be expanded.
LEMMA Widths == UCHAR_MAX \in Nat /\ USHRT_MAX \in Nat /\ ShrinkingSizes \subseteq Nat \ {0}
<1>1. UCHAR_MAX \in Nat /\ USHRT_MAX \in Nat
  BY DEF UCHAR_MAX, USHRT_MAX
<1>. QED BY <1>1, ShrinkingSizesAssumption

\* The invariant holds before the first round.
LEMMA InitMIRAInv == MIRAInit => MIRAInv
<1>. SUFFICES ASSUME MIRAInit PROVE MIRAInv
  OBVIOUS
<1>1. MIRATypeOK
  BY SizeAssumption, Widths DEF MIRAInit, MIRATypeOK, None, Sentences
<1>2. Rechecking /\ Earned /\ ConvergedOnAll
  BY DEF MIRAInit, Rechecking, Earned, ConvergedOnAll, None
<1>. QED BY <1>1, <1>2, SizeAssumption DEF MIRAInit, MIRAInv

\* A sentence is passed over or parsed.
LEMMA SentenceKeeps ==
  MIRAInv /\ (Skip \/ ParseRight \/ ParseWrong) => MIRAInv'
<1>. SUFFICES ASSUME MIRAInv, Skip \/ ParseRight \/ ParseWrong PROVE MIRAInv'
  OBVIOUS
<1>. USE DEF MIRAInv, Parse, Training, LeftOut
<1>1. /\ i \in Sentences /\ i' = i + 1 /\ status = "training" /\ status' = status
      /\ x_size \in Nat /\ shrinking_size \in Nat \ {0} /\ active_set \in 0..i
      /\ UNCHANGED <<shrinking_size, itr, converge>>
  BY SizeAssumption, Widths
     DEF Skip, ParseRight, ParseWrong, MIRATypeOK, Sentences
<1>2. CASE Skip
  <2>1. MIRATypeOK'
    BY <1>1, <1>2 DEF Skip, MIRATypeOK, Sentences
  <2>2. Rechecking' /\ Earned' /\ ConvergedOnAll'
    BY <1>1, <1>2 DEF Skip, Rechecking, Earned, ConvergedOnAll, Sentences
  <2>. QED BY <1>1, <2>1, <2>2
<1>3. CASE ParseRight
  <2>1. shrink[i] \in 0..UCHAR_MAX /\ right[i] \in Nat /\ (shrink[i] + 1) % (UCHAR_MAX + 1) \in 0..UCHAR_MAX
        /\ (shrink[i] + 1) % (UCHAR_MAX + 1) <= shrink[i] + 1
    BY <1>1, Widths DEF MIRATypeOK
  <2>2. /\ active_set' = active_set + 1 /\ UNCHANGED max_kkt_violation
        /\ shrink' = [shrink EXCEPT ![i] = (shrink[i] + 1) % (UCHAR_MAX + 1)]
        /\ right' = [right EXCEPT ![i] = right[i] + 1]
    BY <1>3 DEF ParseRight
  <2>3. MIRATypeOK'
    <3>1. i + 1 \in 0..x_size /\ active_set + 1 \in 0..(i + 1)
      BY <1>1 DEF Sentences
    <3>2. shrink' \in [Sentences -> 0..UCHAR_MAX] /\ right' \in [Sentences -> Nat]
      <4>1. shrink \in [Sentences -> 0..UCHAR_MAX] /\ right \in [Sentences -> Nat] /\ right[i] + 1 \in Nat
        BY <2>1 DEF MIRATypeOK
      <4>. QED BY <4>1, <2>1, <2>2
    <3>3. UNCHANGED <<shrinking_size, itr, converge, max_kkt_violation, status>>
      BY <1>1, <2>2
    <3>. QED BY <1>1, <2>2, <3>1, <3>2, <3>3 DEF MIRATypeOK
  <2>4. Earned'
    BY <1>1, <2>1, <2>2 DEF MIRATypeOK, Earned
  <2>5. Rechecking' /\ ConvergedOnAll'
    BY <1>1, <2>2 DEF MIRATypeOK, Rechecking, ConvergedOnAll, Sentences
  <2>. QED BY <1>1, <2>3, <2>4, <2>5
<1>4. CASE ParseWrong
  <2>1. /\ active_set' = active_set + 1 /\ max_kkt_violation' \in 0..1
        /\ shrink' = [shrink EXCEPT ![i] = 0]
        /\ right' = [right EXCEPT ![i] = 0]
    BY <1>4 DEF ParseWrong, MIRATypeOK
  <2>2. MIRATypeOK'
    BY <1>1, <2>1, Widths DEF MIRATypeOK, Sentences
  <2>3. Earned'
    BY <1>1, <2>1 DEF MIRATypeOK, Earned
  <2>4. Rechecking' /\ ConvergedOnAll'
    BY <1>1, <2>1 DEF MIRATypeOK, Rechecking, ConvergedOnAll, Sentences
  <2>. QED BY <1>1, <2>2, <2>3, <2>4
<1>. QED BY <1>2, <1>3, <1>4

\* A round ends.
LEMMA RoundKeeps == MIRAInv /\ (Violated \/ Satisfied) => MIRAInv'
<1>. SUFFICES ASSUME MIRAInv, Violated \/ Satisfied PROVE MIRAInv'
  OBVIOUS
<1>. USE DEF MIRAInv, RoundIsOver, NextRound
<1>1. /\ status = "training" /\ i = x_size /\ x_size \in Nat /\ maxitr \in Nat /\ itr < maxitr
      /\ UNCHANGED shrinking_size
  BY SizeAssumption DEF Violated, Satisfied
<1>2. CASE Violated
  <2>1. MIRATypeOK'
    BY <1>1, <1>2 DEF Violated, MIRATypeOK
  <2>2. Rechecking' /\ Earned' /\ ConvergedOnAll'
    BY <1>1, <1>2 DEF Violated, Rechecking, Earned, ConvergedOnAll
  <2>. QED BY <1>1, <1>2, <2>1, <2>2 DEF Violated, MIRATypeOK
<1>3. CASE Satisfied
  <2>1. /\ shrink' \in [Sentences -> {0}] /\ right' \in [Sentences -> {0}]
        /\ \A s \in Sentences : shrink'[s] = 0 /\ right'[s] = 0
    BY <1>3 DEF Satisfied, TakeAllIn, None
  <2>2. CASE converge = 1
    <3>1. status' = "converged" /\ converge' = 2 /\ UNCHANGED <<itr, i, active_set, max_kkt_violation>>
      BY <1>3, <2>2 DEF Satisfied
    <3>2. active_set = x_size /\ max_kkt_violation = 0
      BY <1>1, <1>3, <2>2 DEF Satisfied, Rechecking
    <3>3. MIRATypeOK'
      BY <1>1, <2>1, <3>1, Widths DEF MIRATypeOK
    <3>. QED BY <2>1, <3>1, <3>2, <3>3 DEF Rechecking, Earned, ConvergedOnAll
  <2>3. CASE converge # 1
    <3>1. converge' = 1 /\ i' = 0 /\ active_set' = 0 /\ max_kkt_violation' = 0 /\ itr' = itr + 1
          /\ status' = IF itr + 1 < maxitr THEN "training" ELSE "stopped"
      BY <1>1, <1>3, <2>3 DEF Satisfied, MIRATypeOK
    <3>2. MIRATypeOK'
      BY <1>1, <2>1, <3>1, Widths DEF MIRATypeOK
    <3>. QED BY <1>1, <2>1, <3>1, <3>2 DEF Rechecking, Earned, ConvergedOnAll, MIRATypeOK
  <2>. QED BY <2>2, <2>3
<1>. QED BY <1>2, <1>3

\* The inductive invariant of runMIRA.
THEOREM MIRAInvariance == MIRASpec => []MIRAInv
<1>1. MIRAInv /\ [MIRANext]_miraVars => MIRAInv'
  <2>1. ASSUME MIRAInv, UNCHANGED miraVars PROVE MIRAInv'
    BY <2>1 DEF miraVars, MIRAInv, MIRATypeOK, Rechecking, Earned, ConvergedOnAll
  <2>. QED BY <2>1, SentenceKeeps, RoundKeeps DEF MIRANext
<1>. QED BY <1>1, InitMIRAInv, PTL DEF MIRASpec

\* The variables of runMIRA keep their types, the count of a sentence its byte.
THEOREM MIRATypeCorrect == MIRASpec => []MIRATypeOK
<1>1. MIRAInv => MIRATypeOK
  BY DEF MIRAInv
<1>. QED BY <1>1, MIRAInvariance, PTL

\* Whatever was left out before, training converges on a round over all sentences.
THEOREM AlwaysConvergedOnAll == MIRASpec => []ConvergedOnAll
<1>1. MIRAInv => ConvergedOnAll
  BY DEF MIRAInv
<1>. QED BY <1>1, MIRAInvariance, PTL

\* No sentence is left out before its time, at any shrinking x_size: that the count
\* wraps can only keep sentences in.
THEOREM LeavingOutIsEarned == MIRASpec => []LeftOutIsEarned
<1>1. MIRAInv => LeftOutIsEarned
  BY Widths DEF MIRAInv, MIRATypeOK, Earned, LeftOutIsEarned, LeftOut
<1>. QED BY <1>1, MIRAInvariance, PTL
====
