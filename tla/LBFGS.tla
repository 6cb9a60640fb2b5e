---- MODULE LBFGS ----
(***************************************************************************)
(* LBFGS of CRF++: the optimizer runCRF calls once a round with the value  *)
(* and the gradient at the weights x, to be given new weights back.        *)
(*                                                                         *)
(* A call either goes on with the line search of the iteration it is in,   *)
(* or ends that iteration and begins the next.  All vectors live in one    *)
(* array w: a scratch vector, for each of the last msize iterations a      *)
(* number rho and a number alpha, the steps of these iterations, and how   *)
(* the gradient changed in them; these four are rings.                     *)
(*                                                                         *)
(* Numbers are left out.  A cell of w says what number it holds, a test on *)
(* numbers is nondeterministic, and a gradient is the number of the call   *)
(* it came with.  The tests that send a line search to its best step are   *)
(* the same ones that end it at the next call.                             *)
(***************************************************************************)
EXTENDS Integers, Sequences

CONSTANTS
  size,       \* the number of weights
  msize,      \* the length of the rings
  maxfev,     \* the most calls of a line search
  MaxCalls    \* bound: the calls made

\* There are weights, a ring is not empty, and a line search has a call at least.
ASSUME SizesAssumption ==
  size \in Nat \ {0} /\ msize \in Nat \ {0} /\ maxfev \in Nat \ {0} /\ MaxCalls \in Nat

VARIABLES
  calls,      \* how often optimize was called
  returned,   \* what it returned: 1 for go on, 0 for done, -1 for an error
  iter, point,
  w,
  made,       \* what the direction was made of: the slots of the two loops
  search,     \* the line search
  starts      \* by iteration: the call it began in

memory == <<w, made>>
vars   == <<calls, returned, iter, point, memory, search, starts>>

--------------------------------------------------------------------------
\* Where a vector of w begins, or a number is.
Cells      == 1..(size * (2 * msize + 1) + 2 * msize)
Rho(cp)    == size + cp + 1
Alpha(cp)  == size + msize + cp + 1
ispt       == size + 2 * msize
iypt       == ispt + size * msize
Step(cp)   == ispt + cp * size
Change(cp) == iypt + cp * size

\* What a cell holds.
Nothing    == [what |-> "nothing", of |-> <<>>]
Is(s, of)  == [what |-> s, of |-> of]

Part(at)            == (at + 1)..(at + size)
Vector(mem, at)     == {mem[c] : c \in Part(at)}
Put(mem, cells, what) == [c \in DOMAIN mem \cup cells |-> IF c \in cells THEN what ELSE mem[c]]
Fill(mem, at, what)   == Put(mem, Part(at), what)

\* Nothing is bracketed yet, and infoc is not the 0 of a step that failed.
NewSearch == [info |-> -1, nfev |-> 0, brackt |-> FALSE, infoc |-> 1, narrow |-> FALSE, stx |-> FALSE]

Init ==
  /\ calls = 0 /\ returned = 1
  /\ iter = 0 /\ point = 0
  /\ w = [c \in Cells |-> Nothing] /\ made = Nothing
  /\ search = NewSearch
  /\ starts = <<>>

--------------------------------------------------------------------------
Bound(k) == IF k - 1 <= msize THEN k - 1 ELSE msize

\* Mutant of Before: the slot before the first one is the first.
BeforeUnwrapped(cp) == IF cp = 0 THEN 0 ELSE cp - 1

Before(cp) == IF cp = 0 THEN msize - 1 ELSE cp - 1
After(cp)  == IF cp + 1 = msize THEN 0 ELSE cp + 1

\* The cell of the number of the slot before p.
RhoWritten(p) == size + (IF p = 0 THEN msize ELSE p)

\* What the loops use of a slot.
Slot(mem, cp) ==
  [s |-> Vector(mem, Step(cp)), y |-> Vector(mem, Change(cp)), rho |-> mem[Rho(cp)]]

\* The first loop of iteration k, from the newest pair back, over the memory and
\* the slots used; it leaves a number in each slot.
Back(k, p, mem0) ==
  LET back[i \in 0..Bound(k)] ==
        IF i = 0 THEN [cp |-> p, w |-> mem0, used |-> <<>>]
        ELSE LET b  == back[i - 1]
                 cp == Before(b.cp)
             IN  [cp   |-> cp,
                  w    |-> Put(b.w, {Alpha(cp)}, Is("alpha", <<k, Slot(b.w, cp)>>)),
                  used |-> Append(b.used, Slot(b.w, cp))]
  IN  back[Bound(k)]

\* The second loop, from the oldest pair on, with the numbers the first one left.
Forth(k, cp0, mem) ==
  LET forth[i \in 0..Bound(k)] ==
        IF i = 0 THEN [cp |-> cp0, used |-> <<>>]
        ELSE LET f == forth[i - 1]
             IN  [cp |-> After(f.cp), used |-> Append(f.used, <<mem[Alpha(f.cp)], Slot(mem, f.cp)>>)]
  IN  forth[Bound(k)].used

\* Iteration k begins, whose slot is p: its direction is made of the memory the last
\* one left, with the scale of its pair, which is in slot n.
Begin(k, n, p, mem) ==
  LET last  == Slot(mem, n)
      given == Put(mem, {RhoWritten(p)}, Is("rho", <<last.s, last.y>>))
      back  == Back(k, p, Fill(given, 0, Is("work", k)))
      later == Fill(back.w, 0, Is("work", k))
  IN  /\ iter' = k /\ point' = p
      /\ starts' = Append(starts, calls')
      /\ w' = Fill(Fill(IF k = 1 THEN mem ELSE later, Step(p), Is("direction", k)),
                   0, Is("gradient", calls'))
      /\ made' = IF k = 1 THEN Nothing
                 ELSE [back |-> back.used, forth |-> Forth(k, back.cp, back.w),
                       scale |-> <<last.s, last.y>>]

\* mcsrch starts, unless the direction goes up: then its info is still 0.
StartSearch ==
  \/ search' = NewSearch /\ returned' = 1
  \/ search' = [NewSearch EXCEPT !.info = 0] /\ returned' = -1

Call == returned = 1 /\ calls < MaxCalls /\ calls' = calls + 1

FirstCall ==
  /\ Call /\ iter = 0
  /\ Begin(1, 0, 0, w)
  /\ StartSearch

\* Mutant of LastCalls: the last call of all is meant.
LastCall(nfev) == nfev >= maxfev

\* The next call of the line search is the last one it may have.
LastCalls(nfev) == nfev >= maxfev - 1

\* Mutant of Info: a call more than maxfev.
InfoLate(good, atmin, atmax) ==
  IF good THEN 1
  ELSE IF search.brackt /\ search.narrow THEN 2
  ELSE IF search.nfev >= maxfev THEN 3
  ELSE IF atmin THEN 4
  ELSE IF atmax THEN 5
  ELSE IF search.brackt /\ (search.stx \/ search.infoc = 0) THEN 6
  ELSE 0

\* mcsrch at L45: whether the step is good enough, or at one of its limits.
Info(good, atmin, atmax) ==
  IF good THEN 1
  ELSE IF search.brackt /\ search.narrow THEN 2
  ELSE IF search.nfev + 1 >= maxfev THEN 3
  ELSE IF atmin THEN 4
  ELSE IF atmax THEN 5
  ELSE IF search.brackt /\ (search.stx \/ search.infoc = 0) THEN 6
  ELSE 0

\* mcstep: which of its cases the new step is from, 0 when it makes none.
Cases == IF search.brackt THEN 0..4 ELSE 1..4

\* No end in sight: mcstep brackets the minimum in its first two cases.
Search ==
  /\ Call /\ iter > 0
  /\ Info(FALSE, FALSE, FALSE) = 0
  /\ \E infoc \in Cases, outside, narrow \in BOOLEAN :
       LET brackt == search.brackt \/ infoc \in {1, 2}
           ends   == outside \/ LastCalls(search.nfev + 1) \/ infoc = 0 \/ narrow
       IN  search' = [info |-> -1, nfev |-> search.nfev + 1, brackt |-> brackt, infoc |-> infoc,
                      narrow |-> brackt /\ narrow, stx |-> brackt /\ ends]
  /\ UNCHANGED <<returned, iter, point, memory, starts>>

SearchFails ==
  /\ Call /\ iter > 0
  /\ \E atmin, atmax \in BOOLEAN :
       LET info == Info(FALSE, atmin, atmax)
       IN  info # 0 /\ search' = [search EXCEPT !.info = info, !.nfev = @ + 1]
  /\ returned' = -1
  /\ UNCHANGED <<iter, point, memory, starts>>

\* The step is good enough: it is stored with the change of the gradient.
Stored ==
  LET change == Is("change", <<Vector(w, 0), calls'>>)
  IN  Fill(Fill(w, Step(point), Is("step", Vector(w, Step(point)))), Change(point), change)

NextIteration ==
  /\ Call /\ iter > 0
  /\ Begin(iter + 1, point, After(point), Stored)
  /\ StartSearch

\* The gradient is small enough: clear.
Terminate ==
  /\ Call /\ iter > 0
  /\ returned' = 0
  /\ iter' = 0 /\ point' = 0
  /\ w' = [c \in Cells |-> Nothing] /\ made' = Nothing
  /\ search' = NewSearch
  /\ UNCHANGED starts

Next == FirstCall \/ Search \/ SearchFails \/ NextIteration \/ Terminate

Spec == Init /\ [][Next]_vars

--------------------------------------------------------------------------
\* The calls of a line search are counted up to maxfev, and w keeps its length:
\* nothing is written outside.
TypeOK ==
  /\ calls \in 0..MaxCalls /\ returned \in {-1, 0, 1}
  /\ iter \in Nat /\ point \in 0..(msize - 1)
  /\ DOMAIN w = Cells
  /\ search.info \in -1..6 /\ search.infoc \in 0..4 /\ search.nfev \in 0..maxfev
  /\ starts \in Seq(1..MaxCalls)

\* What iteration k left: its step, and the change of the gradient from the call it
\* began in to the one it ended in.
Pair(k) ==
  LET s == {Is("step", {Is("direction", k)})}
      y == {Is("change", <<{Is("gradient", starts[k])}, starts[k + 1]>>)}
  IN  [s |-> s, y |-> y, rho |-> Is("rho", <<s, y>>)]

\* A direction is made of the pairs of the last msize iterations and of no other,
\* from the newest to the oldest and back, each with the number rho of its own pair
\* and the number alpha this direction left in its slot, and with the scale of the
\* newest: in whatever slots the rings have them.
PairsAreTheNewest ==
  made # Nothing =>
    LET oldest == iter - Bound(iter)
    IN  made = [back  |-> [i \in 1..Bound(iter) |-> Pair(iter - i)],
                forth |-> [i \in 1..Bound(iter) |->
                             <<Is("alpha", <<iter, Pair(oldest + i - 1)>>), Pair(oldest + i - 1)>>],
                scale |-> <<Pair(iter - 1).s, Pair(iter - 1).y>>]

\* A line search that gives up after it has bracketed a minimum leaves the weights
\* at the best step it has found, except where a limit of the step ends it.
GivesUpAtTheBest ==
  returned = -1 /\ search.info \in {2, 3, 6} /\ search.brackt => search.stx
====
