---- MODULE ParseDateProofs ----
(***************************************************************************)
(* Proofs about ParseDate.  The first part, up to RootAlwaysAdvances, uses *)
(* nothing of DateSearch's assumptions: it holds for every parser.  Then,  *)
(* for every parser that reads dates as DateSearch assumes and for every   *)
(* sentence: the search reports what the parser reads, where a token       *)
(* begins, and loses no date.                                              *)
(***************************************************************************)
EXTENDS DateSearch, SequenceTheorems, TLAPS

\* The slices of the running calls lie in the sentence, one in another, and the
\* call at depth d has lost at least d - 1 tokens at the back.
Nested(s, n) ==
  /\ Len(s) > 0
  /\ \A d \in 1..Len(s) : s[d].lo <= s[d].hi /\ s[d].hi + d <= n + 1
  /\ \A d, e \in 1..Len(s) : d < e => s[d].lo <= s[e].lo /\ s[e].hi < s[d].hi

\* The inductive invariant.
IInv == TypeOK /\ text \in Inputs /\ Nested(stack, Len(text))

\* Returning to the call at a depth and moving its start forward within its slice
\* keeps the slices nested; the outermost call never moves back.
LEMMA ResumeKeeps ==
  ASSUME NEW s \in Seq(Frame), NEW n \in Nat, Nested(s, n),
         NEW depth \in 1..Len(s), NEW i \in 0..(s[depth].hi - s[depth].lo)
  PROVE  LET t == Append(SubSeq(s, 1, depth - 1),
                         [lo |-> s[depth].lo + i, hi |-> s[depth].hi])
         IN  /\ t \in Seq(Frame)
             /\ Nested(t, n)
             /\ t[1].lo = s[1].lo + (IF depth = 1 THEN i ELSE 0)
<1> DEFINE u == SubSeq(s, 1, depth - 1)
           f == [lo |-> s[depth].lo + i, hi |-> s[depth].hi]
           t == Append(u, f)
<1>1. /\ Len(s) \in Nat /\ depth \in Nat \ {0} /\ depth <= Len(s)
      /\ \A d \in 1..Len(s) : s[d] \in Frame /\ s[d].lo \in Nat /\ s[d].hi \in Nat
  <2>1. Len(s) \in Nat
    BY LenProperties
  <2>2. \A d \in 1..Len(s) : s[d] \in Frame
    BY ElementOfSeq
  <2>. QED BY <2>1, <2>2 DEF Frame
<1>2. /\ u \in Seq(Frame)
      /\ Len(u) = depth - 1
      /\ \A d \in 1..(depth - 1) : u[d] = s[d]
  <2>1. \A d \in 1..(depth - 1) : s[d] \in Frame
    BY <1>1
  <2>2. /\ u \in Seq(Frame)
        /\ Len(u) = IF 1 <= depth - 1 THEN (depth - 1) - 1 + 1 ELSE 0
        /\ \A d \in 1..((depth - 1) - 1 + 1) : u[d] = s[1 + d - 1]
    BY <2>1, <1>1, SubSeqProperties
  <2>. HIDE DEF u
  <2>. QED BY <2>2, <1>1
<1>3. f \in Frame /\ f.lo = s[depth].lo + i /\ f.hi = s[depth].hi /\ f.lo <= f.hi
  BY <1>1 DEF Frame
<1>. HIDE DEF u, f
<1>5. /\ t \in Seq(Frame)
      /\ Len(t) = depth
      /\ \A d \in 1..depth : t[d] = IF d = depth THEN f ELSE s[d]
  BY <1>1, <1>2, <1>3, AppendProperties
<1>. HIDE DEF t
<1>6. Nested(t, n)
  <2>1. \A d \in 1..depth : t[d].lo <= t[d].hi /\ t[d].hi + d <= n + 1
    BY <1>1, <1>3, <1>5 DEF Nested
  <2>2. ASSUME NEW d \in 1..depth, NEW e \in 1..depth, d < e
        PROVE  t[d].lo <= t[e].lo /\ t[e].hi < t[d].hi
    <3>0. d \in 1..Len(s) /\ e \in 1..Len(s)
      BY <1>1
    <3>1a. s[d].lo <= s[e].lo /\ s[e].hi < s[d].hi
      BY <3>0, <2>2 DEF Nested
    <3>1b. t[d] = s[d]
      BY <1>1, <1>5, <2>2
    <3>1. t[d] = s[d] /\ s[d].lo <= s[e].lo /\ s[e].hi < s[d].hi
      BY <3>1a, <3>1b
    <3>2. CASE e = depth
      BY <1>1, <1>3, <1>5, <3>1, <3>2
    <3>3. CASE e # depth
      BY <1>1, <1>5, <3>1, <3>3
    <3>. QED BY <3>2, <3>3
  <2>. QED BY <1>1, <1>5, <2>1, <2>2 DEF Nested
<1>7. t[1].lo = s[1].lo + (IF depth = 1 THEN i ELSE 0)
  BY <1>1, <1>3, <1>5
<1>. QED BY <1>5, <1>6, <1>7 DEF t, u, f

\* getIndexOfTheNextWordTokenIndex returns an index of its token list, and one
\* behind the token it starts at.
LEMMA NextWordInSlice ==
  ASSUME NEW f \in Frame, f.lo <= f.hi, NEW start \in Nat,
         NEW i \in 0..(f.hi - f.lo), NextWord(f, start, i)
  PROVE  i > start \/ i = f.hi - f.lo
BY DEF NextWord, WordStarts, Frame

\* What an accepting or a rejecting parse returns is an index of the slice, or of
\* the EOF behind it when the parser rejects.
LEMMA AtInSlice ==
  ASSUME text \in Inputs, Top \in Frame, Top.hi <= Len(text), Top.lo < Top.hi
  PROVE  /\ Parse(Slice(Top)).answer = "accept" => At \in 0..(Top.hi - Top.lo - 1)
         /\ Parse(Slice(Top)).answer = "reject" => At \in 0..(Top.hi - Top.lo)
<1>1. /\ Len(text) \in Nat
      /\ Top.lo \in 0..Len(text) /\ Top.hi \in 0..Len(text)
  BY LenProperties, InputsAssumption DEF Frame
<1>2. Parse(Slice(Top)) \in Answers(Top.hi - Top.lo)
  BY <1>1, ParserAssumption DEF Slice
<1>. QED BY <1>2 DEF Answers, At

\* The first call of parseRecursive, on the whole sentence, has the invariant.
LEMMA InitIInv == Init => IInv
<1>. SUFFICES ASSUME Init PROVE IInv
  OBVIOUS
<1>. DEFINE f == [lo |-> 0, hi |-> Len(text)]
<1>1. text \in Seq(Kinds) /\ Len(text) \in Nat
  BY InputsAssumption, LenProperties DEF Init
<1>2. f \in Frame
  BY <1>1 DEF Frame
<1>3. stack \in Seq(Frame) /\ Len(stack) = 1 /\ stack[1] = f
  BY <1>2 DEF Init
<1>4. Nested(stack, Len(text))
  BY <1>1, <1>3 DEF Nested
<1>. QED BY <1>1, <1>3, <1>4 DEF IInv, TypeOK, Init

\* What the invariant says of the call at the top and of the outermost one.
LEMMA TopInText ==
  ASSUME IInv
  PROVE  /\ Depth \in Nat \ {0} /\ Len(text) \in Nat
         /\ Top \in Frame /\ Top.lo <= Top.hi /\ Top.hi + Depth <= Len(text) + 1
         /\ stack[1] \in Frame /\ stack[1].lo <= Top.lo
         /\ stack[1].hi >= Top.hi /\ (Depth > 1 => stack[1].hi > Top.hi)
<1>1. Depth \in Nat \ {0} /\ Len(text) \in Nat
  BY LenProperties, InputsAssumption DEF IInv, TypeOK, Nested, Depth
<1>2. Depth \in 1..Len(stack) /\ 1 \in 1..Len(stack)
  BY <1>1 DEF Depth
<1>3. Top \in Frame /\ stack[1] \in Frame
  BY <1>2, ElementOfSeq DEF IInv, TypeOK, Top
<1>4. Top.lo <= Top.hi /\ Top.hi + Depth <= Len(text) + 1
  BY <1>2 DEF IInv, Nested, Top
<1>5. Depth > 1 => stack[1].lo <= Top.lo /\ Top.hi < stack[1].hi
  BY <1>2, <1>1 DEF IInv, Nested, Top
<1>6. Depth = 1 => stack[1] = Top
  BY DEF Top
<1>. QED BY <1>1, <1>3, <1>4, <1>5, <1>6 DEF Frame

\* An accepting call, the outermost one or an inner one, keeps the invariant, and
\* the outermost call moves on.
LEMMA AcceptKeeps ==
  ASSUME IInv, AcceptInRoot \/ AcceptInBackOff
  PROVE  IInv' /\ stack'[1].lo > stack[1].lo /\ stack'[1].lo >= stack[1].lo
<1>1. /\ Top \in Frame /\ Top.lo < Top.hi /\ Top.hi <= Len(text)
      /\ stack[1] \in Frame /\ stack[1].lo < stack[1].hi
      /\ At \in Nat /\ At \in 0..(Top.hi - Top.lo - 1)
  <2>1. Top.lo < Top.hi /\ Parse(Slice(Top)).answer = "accept"
    BY DEF AcceptInRoot, AcceptInBackOff, Parsed
  <2>2. Top \in Frame /\ Top.hi <= Len(text)
    BY TopInText DEF Frame
  <2>3. At \in 0..(Top.hi - Top.lo - 1)
    BY <2>1, <2>2, AtInSlice DEF IInv
  <2>. QED BY <2>1, <2>2, <2>3, TopInText DEF Frame
<1>2. PICK i \in 1..(stack[1].hi - stack[1].lo) : Resume(1, i)
  <2>1. CASE AcceptInRoot
    <3>1. Top = stack[1]
      BY <2>1 DEF AcceptInRoot, Top
    <3>2. Smaller(At + 2, Top.hi - Top.lo) \in 1..(Top.hi - Top.lo)
      BY <1>1 DEF Smaller, Frame
    <3>. QED BY <2>1, <3>1, <3>2 DEF AcceptInRoot
  <2>2. CASE AcceptInBackOff
    <3>1. PICK i \in 0..(stack[1].hi - stack[1].lo) :
            NextWord(stack[1], At + 1, i) /\ Resume(1, i)
      BY <2>2 DEF AcceptInBackOff
    <3>2. /\ At + 1 \in Nat /\ stack[1] \in Frame /\ stack[1].lo <= stack[1].hi
          /\ stack[1].lo \in Nat /\ stack[1].hi \in Nat
      BY <1>1 DEF Frame
    <3>3. i > At + 1 \/ i = stack[1].hi - stack[1].lo
      BY <3>1, <3>2, NextWordInSlice
    <3>4. i \in 1..(stack[1].hi - stack[1].lo)
      BY <1>1, <3>1, <3>2, <3>3
    <3>. QED BY <3>1, <3>4
  <2>. QED BY <2>1, <2>2
<1>3. /\ stack' \in Seq(Frame)
      /\ Nested(stack', Len(text))
      /\ stack'[1].lo = stack[1].lo + i
  <2>1. 1 \in 1..Len(stack) /\ i \in 0..(stack[1].hi - stack[1].lo) /\ Len(text) \in Nat
    BY TopInText, <1>2 DEF Depth
  <2>. QED BY <2>1, <1>2, ResumeKeeps DEF IInv, TypeOK, Resume
<1>4. results' \in Seq(Span)
  <2>1. [from |-> Top.lo, to |-> Top.lo + At] \in Span
    BY <1>1 DEF Frame, Span
  <2>2. results' = Append(results, [from |-> Top.lo, to |-> Top.lo + At])
    BY DEF AcceptInRoot, AcceptInBackOff
  <2>. QED BY <2>1, <2>2, AppendProperties DEF IInv, TypeOK
<1>5. UNCHANGED <<text, status>>
  BY DEF AcceptInRoot, AcceptInBackOff
<1>6. IInv'
  BY <1>3, <1>4, <1>5 DEF IInv, TypeOK
<1>7. stack[1].lo \in Nat /\ i \in Nat /\ i > 0
  BY <1>1, <1>2 DEF Frame
<1>. QED BY <1>3, <1>6, <1>7

\* A step that moves one of the running calls forward and reports nothing.
LEMMA MoveKeeps ==
  ASSUME IInv, NEW depth \in 1..Depth,
         NEW i \in 0..(stack[depth].hi - stack[depth].lo),
         Resume(depth, i), UNCHANGED <<text, results, status>>
  PROVE  IInv' /\ stack'[1].lo >= stack[1].lo
<1>1. /\ stack' \in Seq(Frame)
      /\ Nested(stack', Len(text))
      /\ stack'[1].lo = stack[1].lo + (IF depth = 1 THEN i ELSE 0)
  BY TopInText, ResumeKeeps DEF IInv, TypeOK, Resume, Depth
<1>2. stack'[1].lo >= stack[1].lo
  BY <1>1, TopInText DEF Frame
<1>. QED BY <1>1, <1>2 DEF IInv, TypeOK

\* The call parseRecursive makes of itself on the tokens in front of the offending
\* one keeps the invariant: it has lost a token at the back.
LEMMA BackOffKeeps ==
  ASSUME IInv, BackOff
  PROVE  IInv' /\ stack'[1].lo >= stack[1].lo
<1>. DEFINE f == [lo |-> Top.lo, hi |-> Top.lo + At - 1]
            n == Len(text)
<1>1. /\ Top \in Frame /\ Top.lo < Top.hi /\ Top.hi + Depth <= n + 1
      /\ Depth \in Nat \ {0} /\ n \in Nat /\ Top.hi <= n
  BY TopInText DEF BackOff, Parsed, Frame
<1>2. At \in 1..(Top.hi - Top.lo)
  BY <1>1, AtInSlice DEF BackOff, Parsed, IInv, Frame
<1>3. /\ f \in Frame /\ f.lo = Top.lo /\ f.lo <= f.hi /\ f.hi < Top.hi
      /\ f.hi + (Depth + 1) <= n + 1
  BY <1>1, <1>2 DEF Frame
<1>4. stack' = Append(stack, f)
  BY DEF BackOff
<1>. HIDE DEF f
<1>5. /\ stack' \in Seq(Frame)
      /\ Len(stack') = Depth + 1
      /\ stack'[Depth + 1] = f
      /\ \A d \in 1..Depth : stack'[d] = stack[d]
  BY <1>3, <1>4, AppendProperties DEF IInv, TypeOK, Depth
<1>6. \A d \in 1..Depth : stack[d].lo <= Top.lo /\ stack[d].hi >= Top.hi
                          /\ stack[d] \in Frame
  <2>. SUFFICES ASSUME NEW d \in 1..Depth
                PROVE  stack[d].lo <= Top.lo /\ stack[d].hi >= Top.hi /\ stack[d] \in Frame
    OBVIOUS
  <2>1. stack[d] \in Frame
    BY ElementOfSeq DEF IInv, TypeOK, Depth
  <2>2. CASE d = Depth
    BY <1>1, <2>1, <2>2 DEF Top, Frame
  <2>3. CASE d # Depth
    <3>1. d < Depth /\ Depth \in 1..Depth
      BY <1>1, <2>3
    <3>2. stack[d].lo <= stack[Depth].lo /\ stack[Depth].hi < stack[d].hi
      BY <3>1 DEF IInv, Nested, Depth
    <3>. QED BY <1>1, <2>1, <3>2 DEF Top, Frame
  <2>. QED BY <2>2, <2>3
<1>7. Nested(stack', n)
  <2>1. \A d \in 1..(Depth + 1) :
          stack'[d].lo <= stack'[d].hi /\ stack'[d].hi + d <= n + 1
    BY <1>1, <1>3, <1>5 DEF IInv, Nested, Depth
  <2>2. ASSUME NEW d \in 1..(Depth + 1), NEW e \in 1..(Depth + 1), d < e
        PROVE  stack'[d].lo <= stack'[e].lo /\ stack'[e].hi < stack'[d].hi
    <3>0. d \in 1..Depth /\ stack'[d] = stack[d]
      BY <1>1, <1>5, <2>2
    <3>1. CASE e = Depth + 1
      <4>1. stack'[e] = f /\ f.lo = Top.lo /\ f.hi < Top.hi /\ f.hi \in Nat /\ Top.hi \in Nat
        BY <1>1, <1>3, <1>5, <3>1 DEF Frame
      <4>2. stack[d].lo <= Top.lo /\ stack[d].hi >= Top.hi /\ stack[d].hi \in Nat
        BY <1>6, <3>0 DEF Frame
      <4>. QED BY <3>0, <4>1, <4>2
    <3>2. CASE e # Depth + 1
      BY <1>1, <1>5, <2>2, <3>0, <3>2 DEF IInv, Nested, Depth
    <3>. QED BY <3>1, <3>2
  <2>. QED BY <1>1, <1>5, <2>1, <2>2 DEF Nested
<1>8. stack'[1] = stack[1] /\ UNCHANGED <<text, results, status>>
  BY <1>1, <1>5 DEF BackOff
<1>. QED BY <1>5, <1>7, <1>8, TopInText DEF IInv, TypeOK, Frame

\* Every step keeps the invariant, never moves the outermost call back, and moves
\* it forward when it reports.
LEMMA NextKeeps ==
  ASSUME IInv, [Next]_vars
  PROVE  /\ IInv'
         /\ stack'[1].lo >= stack[1].lo
         /\ results' # results => stack'[1].lo > stack[1].lo
<1>. USE TopInText
<1>1. CASE AcceptInRoot \/ AcceptInBackOff
  BY <1>1, AcceptKeeps
<1>2. CASE Drop
  <2>1. Depth \in 1..Depth /\ stack[Depth] = Top
    BY DEF Top
  <2>2. At \in 0..(Top.hi - Top.lo - 1) /\ Top.lo < Top.hi
    BY <1>2, AtInSlice DEF Drop, Parsed, IInv, Frame
  <2>3. Smaller(At + 2, Top.hi - Top.lo) \in 0..(Top.hi - Top.lo)
    BY <2>2 DEF Smaller, Frame
  <2>. QED BY <1>2, <2>1, <2>3, MoveKeeps DEF Drop
<1>3. CASE SkipWord
  <2>1. Depth \in 1..Depth /\ stack[Depth] = Top
    BY DEF Top
  <2>. QED BY <1>3, <2>1, MoveKeeps DEF SkipWord
<1>4. CASE BackOff
  BY <1>4, BackOffKeeps DEF BackOff
<1>5. CASE ReturnEmpty
  <2>1. Depth - 1 \in 1..Depth
    BY <1>5 DEF ReturnEmpty
  <2>. QED BY <1>5, <2>1, MoveKeeps DEF ReturnEmpty
<1>6. CASE Finish \/ Throw \/ UNCHANGED vars
  BY <1>6 DEF Finish, Throw, vars, IInv, TypeOK, Frame
<1>. QED BY <1>1, <1>2, <1>3, <1>4, <1>5, <1>6 DEF Next

\* The invariant holds throughout ParseDate.parse, whatever the parser answers.
THEOREM Invariance == Spec => []IInv
<1>1. IInv /\ [Next]_vars => IInv'
  BY NextKeeps
<1>. QED BY InitIInv, <1>1, PTL DEF Spec

\* The variables of parseRecursive keep their types.
THEOREM TypeCorrect == Spec => []TypeOK
<1>1. IInv => TypeOK
  BY DEF IInv
<1>. QED BY <1>1, Invariance, PTL

\* Whatever the parser answers, every slice lies in the sentence and the recursion
\* is at most one call deeper than the sentence has tokens.
THEOREM CallsAlwaysShrink == Spec => []CallsShrink
<1>1. IInv => CallsShrink
  <2>. SUFFICES ASSUME IInv PROVE CallsShrink
    OBVIOUS
  <2>1. Depth \in 1..(Len(text) + 1)
    BY TopInText DEF Frame
  <2>2. \A d \in 1..Depth : stack[d] \in Frame
    BY ElementOfSeq DEF IInv, TypeOK, Depth
  <2>3. \A d \in 1..Depth : stack[d].lo <= stack[d].hi /\ stack[d].hi <= Len(text)
    BY <2>2, TopInText DEF IInv, Nested, Depth, Frame
  <2>. QED BY <2>1, <2>3 DEF CallsShrink, IInv, Nested, Depth
<1>. QED BY <1>1, Invariance, PTL

\* Whatever the parser answers, the outermost call only moves forward.
THEOREM RootAlwaysAdvances == Spec => RootAdvances
<1>. DEFINE Advance == /\ stack'[1].lo >= stack[1].lo
                       /\ results' # results => stack'[1].lo > stack[1].lo
<1>1. IInv /\ [Next]_vars => [Advance]_vars
  BY NextKeeps
<1>2. Spec => [][Advance]_vars
  BY <1>1, Invariance, PTL DEF Spec
<1>. QED BY <1>2 DEF RootAdvances
--------------------------------------------------------------------------
--------------------------------------------------------------------------
(* The parser on a slice of a sentence. *)

\* The tokens with indices c..g of the sentence t are a date, or one but for extra
\* tokens.
DateAt(t, c, g)  == Date(SubSeq(t, c + 1, g + 1))
LooseAt(t, c, g) == LooseDate(SubSeq(t, c + 1, g + 1))

\* What the call at the top has read when its parser has answered.
LEMMA TopAnswer ==
  ASSUME IInv, Top.lo < Top.hi
  PROVE  /\ Len(text) \in Nat /\ Top.lo \in Nat /\ Top.hi \in Nat /\ Top.hi <= Len(text)
         /\ Top.lo \in 0..Len(text) /\ Top.hi \in (Top.lo + 1)..Len(text)
         /\ Parsed("accept") =>
              /\ At \in Nat /\ At \in 0..(Top.hi - Top.lo - 1)
              /\ Top.lo + At \in Top.lo..(Len(text) - 1)
              /\ LooseAt(text, Top.lo, Top.lo + At)
         /\ Parsed("reject") =>
              /\ At \in Nat /\ At \in 0..(Top.hi - Top.lo)
              /\ \A g \in Top.lo..(Top.hi - 1) : DateAt(text, Top.lo, g) => g + 1 < Top.lo + At
<1>1. /\ Len(text) \in Nat /\ Top.lo \in Nat /\ Top.hi \in Nat /\ Top.hi <= Len(text)
      /\ Top.lo \in 0..Len(text) /\ Top.hi \in 0..Len(text)
      /\ Top.hi \in (Top.lo + 1)..Len(text)
      /\ text \in Inputs /\ Top \in Frame
  <2>1. Len(text) \in Nat /\ Top \in Frame /\ Top.hi + Depth <= Len(text) + 1
        /\ Depth \in Nat \ {0}
    BY TopInText
  <2>2. text \in Inputs
    BY DEF IInv
  <2>. QED BY <2>1, <2>2 DEF Frame
<1>. DEFINE parsed == Parse(SubSeq(text, Top.lo + 1, Top.hi))
<1>2. At = parsed.at /\ \A a : Parsed(a) => parsed.answer = a
  BY DEF At, Slice, Parsed
<1>3. /\ parsed.answer = "accept" => LooseDate(SubSeq(text, Top.lo + 1, Top.lo + parsed.at + 1))
      /\ parsed.answer = "reject" =>
           \A end \in (Top.lo + 1)..Top.hi :
             Date(SubSeq(text, Top.lo + 1, end)) => end < Top.lo + parsed.at
  BY <1>1, ReadsAssumption
<1>4. /\ Parse(Slice(Top)).answer = "accept" => At \in 0..(Top.hi - Top.lo - 1)
      /\ Parse(Slice(Top)).answer = "reject" => At \in 0..(Top.hi - Top.lo)
  BY <1>1, AtInSlice
<1>. HIDE DEF parsed
<1>5. ASSUME Parsed("accept")
      PROVE  /\ At \in Nat /\ At \in 0..(Top.hi - Top.lo - 1)
             /\ Top.lo + At \in Top.lo..(Len(text) - 1)
             /\ LooseAt(text, Top.lo, Top.lo + At)
  <2>1. At \in 0..(Top.hi - Top.lo - 1)
    BY <1>4, <1>5 DEF Parsed
  <2>2. LooseDate(SubSeq(text, Top.lo + 1, Top.lo + At + 1))
    BY <1>2, <1>3, <1>5
  <2>. QED BY <1>1, <2>1, <2>2 DEF LooseAt
<1>6. ASSUME Parsed("reject")
      PROVE  /\ At \in Nat /\ At \in 0..(Top.hi - Top.lo)
             /\ \A g \in Top.lo..(Top.hi - 1) : DateAt(text, Top.lo, g) => g + 1 < Top.lo + At
  <2>1. At \in 0..(Top.hi - Top.lo)
    BY <1>4, <1>6 DEF Parsed
  <2>2. ASSUME NEW g \in Top.lo..(Top.hi - 1), DateAt(text, Top.lo, g)
        PROVE  g + 1 < Top.lo + At
    <3>1. g + 1 \in (Top.lo + 1)..Top.hi
      BY <1>1
    <3>. QED BY <1>2, <1>3, <1>6, <2>2, <3>1 DEF DateAt
  <2>. QED BY <2>1, <2>2
<1>. QED BY <1>1, <1>5, <1>6

--------------------------------------------------------------------------
(* What the search has looked at. *)

\* A date with something else than a separator behind it.
GluedDate(t, c, g) ==
  /\ c \in 0..(Len(t) - 1) /\ g \in c..(Len(t) - 1)
  /\ LooseAt(t, c, g)
  /\ g + 1 < Len(t) /\ t[g + 2] \notin Separators

\* The token with index p stands behind a separator or where a search that passes
\* over a glued date goes on.
Begins(t, p) ==
  \/ p = 0
  \/ t[p] \in Separators
  \/ p > 1 /\ \E c \in 0..(p - 2) : GluedDate(t, c, p - 2)

\* A date that begins a word and shares no token with a glued one: it has to be
\* reported.
DueDate(t, b, g) ==
  /\ b \in 0..(Len(t) - 1) /\ g \in b..(Len(t) - 1)
  /\ DateAt(t, b, g)
  /\ b = 0 \/ t[b] = "WS"
  /\ \A c, e \in 0..(Len(t) - 1) : GluedDate(t, c, e) => e < b \/ g < c

\* No call has gone past a due date that lies in its slice.
NonePassed(t, s) ==
  \A e \in 1..Len(s) : \A b, g \in 0..(Len(t) - 1) :
    DueDate(t, b, g) /\ s[1].lo <= b => s[e].lo <= b \/ s[e].hi <= g

\* A due date where a call stands is where the calls above it stand, and in their
\* slices.
InnerReach(t, s) ==
  \A e, f \in 1..Len(s) : \A b, g \in 0..(Len(t) - 1) :
    e < f /\ DueDate(t, b, g) /\ s[e].lo = b /\ g < s[e].hi
      => s[f].lo = b /\ g < s[f].hi

\* A due date the outermost call has gone past is reported, at least in part.
PassedReported(t, s, found) ==
  \A b, g \in 0..(Len(t) - 1) :
    DueDate(t, b, g) /\ b < s[1].lo
      => \E k \in 1..Len(found) : b <= found[k].to /\ found[k].from <= g

\* A call stands at the end of its slice or where a date can be reported.
AllBegin(t, s) ==
  \A e \in 1..Len(s) : s[e].lo = s[e].hi \/ Begins(t, s[e].lo)

\* No date is lost, and none is reported that does not begin at a token.
SearchInv(t, s, found) ==
  /\ s[1].hi = Len(t)
  /\ NonePassed(t, s) /\ InnerReach(t, s)
  /\ PassedReported(t, s, found)
  /\ AllBegin(t, s)

\* A call of a stack has moved its start, and the calls above it are gone.
Moved(s, u, d, i) ==
  /\ u \in Seq(Frame) /\ Len(u) = d
  /\ \A e \in 1..(d - 1) : u[e] = s[e]
  /\ u[d].lo = s[d].lo + i /\ u[d].hi = s[d].hi

\* What resuming a call makes of the stack.
LEMMA ResumeMoves ==
  ASSUME IInv, NEW d \in 1..Depth, NEW i \in 0..(stack[d].hi - stack[d].lo), Resume(d, i)
  PROVE  Moved(stack, stack', d, i)
<1>1. /\ Len(stack) \in Nat /\ d \in Nat \ {0} /\ d <= Len(stack)
      /\ \A e \in 1..Len(stack) : stack[e] \in Frame
  <2>1. Len(stack) \in Nat
    BY LenProperties DEF IInv, TypeOK
  <2>. QED BY <2>1, ElementOfSeq DEF IInv, TypeOK, Depth
<1>. DEFINE f == [lo |-> stack[d].lo + i, hi |-> stack[d].hi]
            u == SubSeq(stack, 1, d - 1)
<1>2. stack[d].lo \in Nat /\ stack[d].hi \in Nat /\ i \in Nat
  <2>1. stack[d].lo \in Nat /\ stack[d].hi \in Nat
    BY <1>1 DEF Frame
  <2>. QED BY <2>1
<1>3. f \in Frame /\ f.lo = stack[d].lo + i /\ f.hi = stack[d].hi
  BY <1>2 DEF Frame
<1>4. u \in Seq(Frame) /\ Len(u) = d - 1 /\ \A e \in 1..(d - 1) : u[e] = stack[e]
  <2>1. \A e \in 1..(d - 1) : stack[e] \in Frame
    BY <1>1
  <2>2. /\ u \in Seq(Frame)
        /\ Len(u) = IF 1 <= d - 1 THEN (d - 1) - 1 + 1 ELSE 0
        /\ \A e \in 1..((d - 1) - 1 + 1) : u[e] = stack[1 + e - 1]
    BY <2>1, <1>1, SubSeqProperties
  <2>. HIDE DEF u
  <2>. QED BY <2>2, <1>1
<1>5. stack' = Append(u, f)
  BY DEF Resume
<1>. HIDE DEF u, f
<1>6. /\ stack' \in Seq(Frame) /\ Len(stack') = d
      /\ \A e \in 1..(d - 1) : stack'[e] = u[e]
      /\ stack'[d] = f
  BY <1>1, <1>3, <1>4, <1>5, AppendProperties
<1>. QED BY <1>3, <1>4, <1>6 DEF Moved

\* The token in front of where getIndexOfTheNextWordTokenIndex points is the first
\* WHITE_SPACE at or behind start.
LEMMA NextWordIsFirst ==
  ASSUME NEW f \in Frame, f.lo < f.hi \/ f.lo = f.hi, f.hi <= Len(text), Len(text) \in Nat,
         NEW start \in Nat, NEW i \in 0..(f.hi - f.lo), NextWord(f, start, i)
  PROVE  /\ f.lo + i = f.hi \/ (i > start /\ text[f.lo + i] = "WS")
         /\ \A p \in (f.lo + start)..(f.hi - 1) : text[p + 1] = "WS" => f.lo + i <= p + 1
<1>0. f.lo \in Nat /\ f.hi \in Nat
  BY DEF Frame
<1>1. ASSUME NEW p \in (f.lo + start)..(f.hi - 1), text[p + 1] = "WS"
      PROVE  f.lo + i <= p + 1
  <2>1. p - f.lo \in start..(f.hi - f.lo) /\ p - f.lo # f.hi - f.lo /\ f.lo + (p - f.lo) + 1 = p + 1
    BY SMTT(30), <1>0
  <2>2. TokenAt(f, p - f.lo) = "WS"
    BY <1>1, <2>1 DEF TokenAt
  <2>3. (p - f.lo) + 1 \in WordStarts(f, start)
    BY <2>1, <2>2 DEF WordStarts
  <2>4. i <= (p - f.lo) + 1
    BY <2>3 DEF NextWord
  <2>. QED BY <1>0, <2>4
<1>2. ASSUME i \in WordStarts(f, start)
      PROVE  f.lo + i = f.hi \/ (i > start /\ text[f.lo + i] = "WS")
  <2>1. PICK j \in start..(f.hi - f.lo) : TokenAt(f, j) = "WS" /\ i = j + 1
    BY <1>2 DEF WordStarts
  <2>2. j # f.hi - f.lo
    BY <2>1 DEF TokenAt
  <2>3. text[f.lo + j + 1] = "WS"
    BY <2>1, <2>2 DEF TokenAt
  <2>4. f.lo + j + 1 = f.lo + i
    BY <1>0, <2>1
  <2>. QED BY <2>1, <2>3, <2>4
<1>. QED BY <1>0, <1>1, <1>2 DEF NextWord

\* A call that moves on, past no due date in its slice, to a place where a date can
\* begin, keeps the invariant: nothing is reported.
LEMMA MoveLosesNone ==
  ASSUME NEW t \in Inputs, NEW s \in Seq(Frame), NEW found, NEW u,
         SearchInv(t, s, found), Nested(s, Len(t)),
         NEW d \in 1..Len(s), NEW i \in 0..(s[d].hi - s[d].lo), Moved(s, u, d, i),
         \A b, g \in 0..(Len(t) - 1) :
           DueDate(t, b, g) /\ s[1].lo <= b /\ s[d].lo <= b /\ b < s[d].lo + i => s[d].hi <= g,
         s[d].lo + i = s[d].hi \/ Begins(t, s[d].lo + i)
  PROVE  SearchInv(t, u, found)
<1>0. /\ Len(t) \in Nat /\ Len(s) \in Nat /\ d \in Nat /\ 1 <= d /\ d <= Len(s)
      /\ \A e \in 1..Len(s) : s[e].lo \in Nat /\ s[e].hi \in Nat
      /\ i \in Nat
  <2>1. Len(t) \in Nat /\ Len(s) \in Nat
    BY InputsAssumption, LenProperties
  <2>2. \A e \in 1..Len(s) : s[e] \in Frame
    BY ElementOfSeq
  <2>3. s[d].lo \in Nat /\ s[d].hi \in Nat
    BY <2>2 DEF Frame
  <2>. QED BY <2>1, <2>2, <2>3 DEF Frame
<1>1. /\ Len(u) = d
      /\ \A e \in 1..d : u[e].hi = s[e].hi
      /\ u[d].lo = s[d].lo + i
      /\ \A e \in 1..(d - 1) : u[e] = s[e]
      /\ \A e \in 1..d : e # d => e \in 1..(d - 1)
      /\ \A e \in 1..d : e \in 1..Len(s)
  <2>1. /\ Len(u) = d /\ u[d].lo = s[d].lo + i /\ u[d].hi = s[d].hi
        /\ \A e \in 1..(d - 1) : u[e] = s[e]
    BY DEF Moved
  <2>2. \A e \in 1..d : (e # d => e \in 1..(d - 1)) /\ e \in 1..Len(s)
    BY <1>0
  <2>. QED BY <2>1, <2>2
<1>2. u[1].hi = Len(t) /\ s[1].lo <= u[1].lo /\ (d > 1 => u[1].lo = s[1].lo)
  <2>1. d > 1 => 1 \in 1..(d - 1)
    BY <1>0
  <2>2. d = 1 => u[1].lo = s[1].lo + i
    BY <1>1
  <2>3. 1 \in 1..d /\ s[1].lo \in Nat
    BY <1>0
  <2>. QED BY <1>0, <1>1, <2>1, <2>2, <2>3 DEF SearchInv
<1>3. NonePassed(t, u)
  <2>. SUFFICES ASSUME NEW e \in 1..d, NEW b \in 0..(Len(t) - 1), NEW g \in 0..(Len(t) - 1),
                       DueDate(t, b, g), u[1].lo <= b, ~(s[e].hi <= g)
                PROVE  u[e].lo <= b
    BY <1>1 DEF NonePassed
  <2>0. 1 \in 1..Len(s) /\ 1 \in 1..d
    BY <1>0
  <2>1. e \in 1..Len(s) /\ s[1].lo <= b
    <3>1. s[1].lo \in Nat /\ u[1].lo \in Nat
      BY SMTT(30), <1>0, <1>1, <1>2, <2>0
    <3>. QED BY SMTT(30), <1>1, <1>2, <3>1
  <2>2. s[e].lo <= b
    BY <2>1 DEF SearchInv, NonePassed
  <2>3. CASE e = d
    <3>1. ~(b < s[d].lo + i)
      BY <2>1, <2>2, <2>3
    <3>. QED BY <1>0, <1>1, <2>3, <3>1
  <2>. QED BY <1>1, <2>2, <2>3
<1>4. InnerReach(t, u)
  <2>. SUFFICES ASSUME NEW e \in 1..d, NEW f \in 1..d,
                       NEW b \in 0..(Len(t) - 1), NEW g \in 0..(Len(t) - 1),
                       e < f, DueDate(t, b, g), u[e].lo = b, g < u[e].hi
                PROVE  u[f].lo = b /\ g < u[f].hi
    BY <1>1 DEF InnerReach
  <2>1. e \in 1..Len(s) /\ f \in 1..Len(s) /\ e # d /\ s[e].lo = b /\ g < s[e].hi
    <3>1. e # d
      BY <1>0
    <3>. QED BY <1>1, <3>1
  <2>2. s[f].lo = b /\ g < s[f].hi
    BY <2>1 DEF SearchInv, InnerReach
  <2>3. CASE f = d
    <3>1. s[1].lo <= b
      <4>1. CASE e = 1
        BY <2>1, <4>1, <1>0
      <4>2. CASE e # 1
        <5>1. 1 \in 1..Len(s) /\ 1 < e
          BY <1>0, <4>2
        <5>. QED BY <2>1, <5>1 DEF Nested
      <4>. QED BY <4>1, <4>2
    <3>2. ~(b < s[d].lo + i)
      <4>1. s[d].lo = b /\ g < s[d].hi
        BY <2>2, <2>3
      <4>2. s[d].lo <= b /\ ~(s[d].hi <= g)
        BY <1>0, <4>1
      <4>. QED BY <3>1, <4>2
    <3>. QED BY SMTT(30), <1>0, <1>1, <2>2, <2>3, <3>2
  <2>. QED BY <1>1, <2>2, <2>3
<1>5. PassedReported(t, u, found)
  <2>. SUFFICES ASSUME NEW b \in 0..(Len(t) - 1), NEW g \in 0..(Len(t) - 1),
                       DueDate(t, b, g), b < u[1].lo
                PROVE  b < s[1].lo
    BY DEF SearchInv, PassedReported
  <2>1. CASE d = 1
    <3>1. u[1].lo = s[1].lo + i /\ s[1].hi = Len(t)
      BY <1>1, <2>1 DEF SearchInv
    <3>2. ~(s[1].lo <= b)
      BY SMTT(30), <1>0, <2>1, <3>1
    <3>. QED BY SMTT(30), <1>0, <3>2
  <2>. QED BY <1>0, <1>2, <2>1
<1>6. AllBegin(t, u)
  <2>. SUFFICES ASSUME NEW e \in 1..d PROVE u[e].lo = u[e].hi \/ Begins(t, u[e].lo)
    BY <1>1 DEF AllBegin
  <2>1. CASE e = d
    BY <1>1, <2>1
  <2>2. CASE e # d
    BY <1>1, <2>2 DEF SearchInv, AllBegin
  <2>. QED BY <2>1, <2>2
<1>. QED BY <1>2, <1>3, <1>4, <1>5, <1>6 DEF SearchInv

\* No date that begins a word begins right behind what the parser has read as one.
LEMMA NotBehindDate ==
  ASSUME NEW t \in Inputs, NEW c \in 0..Len(t), NEW e \in c..(Len(t) - 1), LooseAt(t, c, e),
         NEW b \in 0..(Len(t) - 1), NEW g \in 0..(Len(t) - 1), DueDate(t, b, g)
  PROVE  b # e + 1
<1>1. Len(t) \in Nat /\ c \in Nat /\ e \in Nat /\ c <= e /\ e < Len(t) /\ b \in Nat
  BY InputsAssumption, LenProperties
<1>2. e + 1 \in 0..Len(t) /\ c < e + 1
  BY <1>1
<1>3. t[e + 1] # "WS"
  BY <1>2, EndsAssumption DEF LooseAt
<1>4. b = 0 \/ t[b] = "WS"
  BY DEF DueDate
<1>. QED BY <1>1, <1>3, <1>4

\* What follows an accepted date.
LEMMA BehindAccepted ==
  ASSUME IInv, Parsed("accept")
  PROVE  /\ Separated => \/ Top.lo + At + 1 = Top.hi
                         \/ Top.lo + At + 1 < Top.hi /\ text[Top.lo + At + 2] \in Separators
         /\ ~Separated => /\ Top.lo + At + 1 < Top.hi
                          /\ GluedDate(text, Top.lo, Top.lo + At)
<1>1. Top.lo < Top.hi
  BY DEF Parsed
<1>2. /\ Len(text) \in Nat /\ Top.lo \in Nat /\ Top.hi \in Nat /\ Top.hi <= Len(text)
      /\ At \in Nat /\ At \in 0..(Top.hi - Top.lo - 1)
      /\ Top.lo + At \in Top.lo..(Len(text) - 1)
      /\ LooseAt(text, Top.lo, Top.lo + At)
  BY <1>1, TopAnswer
<1>3. CASE At + 1 = Top.hi - Top.lo
  <2>1. Separated
    BY <1>3 DEF Separated, TokenAt, Separators
  <2>2. Top.lo + At + 1 = Top.hi
    BY <1>2, <1>3
  <2>. QED BY <2>1, <2>2
<1>4. CASE At + 1 # Top.hi - Top.lo
  <2>1. Top.lo + At + 1 < Top.hi /\ Top.lo + (At + 1) + 1 = Top.lo + At + 2
        /\ (Top.lo + At) + 2 = Top.lo + At + 2 /\ (Top.lo + At) + 1 < Len(text)
    <3>1. At < Top.hi - Top.lo - 1
      BY <1>2, <1>4
    <3>2. Top.lo + At + 1 < Top.hi
      BY <1>2, <3>1
    <3>. QED BY <1>2, <3>2
  <2>2. TokenAt(Top, At + 1) = text[Top.lo + At + 2]
    BY <1>4, <2>1 DEF TokenAt
  <2>3. Top.lo \in 0..(Len(text) - 1)
    BY <1>2
  <2>. QED BY <1>2, <2>1, <2>2, <2>3 DEF Separated, GluedDate
<1>. QED BY <1>3, <1>4

\* A glued date is passed over, and the token behind it: no due date begins there.
LEMMA DropLosesNone ==
  ASSUME IInv, SearchInv(text, stack, results), Drop
  PROVE  SearchInv(text, stack', results)
<1>. DEFINE i == Smaller(At + 2, Top.hi - Top.lo)
            e == Top.lo + At
<1>1. Parsed("accept") /\ ~Separated /\ Top.lo < Top.hi /\ Resume(Depth, i)
  BY DEF Drop, Parsed
<1>2. /\ Len(text) \in Nat /\ Top.lo \in Nat /\ Top.hi \in Nat /\ Top.hi <= Len(text)
      /\ At \in Nat /\ Top.lo \in 0..Len(text) /\ e \in Top.lo..(Len(text) - 1)
      /\ LooseAt(text, Top.lo, e)
  BY <1>1, TopAnswer
<1>3. Top.lo + At + 1 < Top.hi /\ GluedDate(text, Top.lo, e)
  BY <1>1, BehindAccepted
<1>4. i = At + 2 /\ i \in 0..(Top.hi - Top.lo)
  BY SMTT(30), <1>2, <1>3 DEF Smaller
<1>5. Depth \in 1..Len(stack) /\ Depth \in 1..Depth /\ stack[Depth] = Top
      /\ stack \in Seq(Frame) /\ text \in Inputs
  BY TopInText DEF Depth, Top, IInv, TypeOK
<1>6. Moved(stack, stack', Depth, i)
  BY <1>1, <1>4, <1>5, ResumeMoves
<1>7. ASSUME NEW b \in 0..(Len(text) - 1), NEW g \in 0..(Len(text) - 1),
             DueDate(text, b, g), Top.lo <= b, b < Top.lo + i
      PROVE  Top.hi <= g
  <2>1. b # e + 1
    BY <1>2, <1>5, <1>7, NotBehindDate
  <2>2. e < b \/ g < Top.lo
    <3>1. Top.lo \in 0..(Len(text) - 1) /\ e \in 0..(Len(text) - 1)
      BY <1>2
    <3>. QED BY <1>3, <1>7, <3>1 DEF DueDate
  <2>3. g \in b..(Len(text) - 1)
    BY <1>7 DEF DueDate
  <2>4. ~(g < Top.lo)
    BY <1>2, <1>7, <2>3
  <2>5. b > e + 1
    BY <1>2, <2>1, <2>2, <2>4
  <2>6. e + 1 = Top.lo + i - 1
    <3>1. e = Top.lo + At
      OBVIOUS
    <3>. HIDE DEF i, e
    <3>. QED BY SMTT(30), <1>2, <1>4, <3>1
  <2>. QED BY SMTT(30), <1>2, <1>4, <1>7, <2>5, <2>6
<1>8. Begins(text, Top.lo + i)
  <2>1. Top.lo + i > 1 /\ (Top.lo + i) - 2 = e /\ Top.lo \in 0..((Top.lo + i) - 2)
    BY SMTT(30), <1>2, <1>4
  <2>2. \E c \in 0..((Top.lo + i) - 2) : GluedDate(text, c, (Top.lo + i) - 2)
    BY <1>3, <2>1
  <2>. QED BY <2>1, <2>2 DEF Begins
<1>9. Nested(stack, Len(text))
  BY DEF IInv
<1>. HIDE DEF i, e
<1>. QED BY <1>4, <1>5, <1>6, <1>7, <1>8, <1>9, MoveLosesNone

\* To the next word of a call from where it stands: past no other word.
LEMMA NextWordLosesNone ==
  ASSUME IInv, SearchInv(text, stack, results), NEW d \in 1..Depth,
         NEW i \in 0..(stack[d].hi - stack[d].lo), NextWord(stack[d], 0, i), Resume(d, i),
         \A g \in 0..(Len(text) - 1) :
           stack[d].lo \in 0..(Len(text) - 1) /\ DueDate(text, stack[d].lo, g)
             => stack[d].hi <= g
  PROVE  SearchInv(text, stack', results)
<1>1. /\ Len(text) \in Nat /\ d \in 1..Len(stack)
      /\ stack \in Seq(Frame) /\ text \in Inputs /\ Nested(stack, Len(text))
  BY TopInText DEF Depth, IInv, TypeOK
<1>2. stack[d] \in Frame /\ stack[d].lo \in Nat /\ stack[d].hi \in Nat
  <2>1. stack[d] \in Frame
    BY <1>1, ElementOfSeq
  <2>. QED BY <2>1 DEF Frame
<1>3. stack[d].lo <= stack[d].hi /\ stack[d].hi <= Len(text)
  <2>1. stack[d].lo <= stack[d].hi /\ stack[d].hi + d <= Len(text) + 1
    BY <1>1 DEF Nested
  <2>. QED BY <1>1, <1>2, <2>1
<1>4. /\ stack[d].lo + i = stack[d].hi \/ (i > 0 /\ text[stack[d].lo + i] = "WS")
      /\ \A p \in stack[d].lo..(stack[d].hi - 1) :
           text[p + 1] = "WS" => stack[d].lo + i <= p + 1
  <2>1. stack[d].lo + 0 = stack[d].lo /\ 0 \in Nat
        /\ (stack[d].lo < stack[d].hi \/ stack[d].lo = stack[d].hi)
    BY <1>2, <1>3
  <2>2. /\ stack[d].lo + i = stack[d].hi \/ (i > 0 /\ text[stack[d].lo + i] = "WS")
        /\ \A p \in (stack[d].lo + 0)..(stack[d].hi - 1) :
             text[p + 1] = "WS" => stack[d].lo + i <= p + 1
    BY <1>1, <1>2, <1>3, <2>1, NextWordIsFirst
  <2>. QED BY <2>1, <2>2
<1>5. ASSUME NEW b \in 0..(Len(text) - 1), NEW g \in 0..(Len(text) - 1),
             DueDate(text, b, g), stack[d].lo <= b, b < stack[d].lo + i
      PROVE  stack[d].hi <= g
  <2>1. CASE b = stack[d].lo
    BY <1>5, <2>1
  <2>2. CASE b # stack[d].lo
    <3>1. text[b] = "WS"
      BY <1>2, <1>5, <2>2 DEF DueDate
    <3>2. b - 1 \in stack[d].lo..(stack[d].hi - 1) /\ (b - 1) + 1 = b
      <4>1. b > stack[d].lo /\ b < stack[d].hi
        BY SMTT(30), <1>2, <1>3, <1>5, <2>2
      <4>. QED BY <1>2, <4>1
    <3>3. stack[d].lo + i <= b
      BY <1>4, <3>1, <3>2
    <3>. QED BY <1>2, <1>5, <3>3
  <2>. QED BY <2>1, <2>2
<1>6. stack[d].lo + i = stack[d].hi \/ Begins(text, stack[d].lo + i)
  BY <1>4 DEF Begins, Separators
<1>7. Moved(stack, stack', d, i)
  BY ResumeMoves
<1>. QED BY <1>1, <1>5, <1>6, <1>7, MoveLosesNone

\* What cannot start a date is no due date.
LEMMA SkipWordLosesNone ==
  ASSUME IInv, SearchInv(text, stack, results), SkipWord
  PROVE  SearchInv(text, stack', results)
<1>1. Parsed("reject") /\ At = 0 /\ Top.lo < Top.hi
  BY DEF SkipWord, Parsed
<1>2. Depth \in 1..Depth /\ stack[Depth] = Top
  BY TopInText DEF Top
<1>3. PICK i \in 0..(Top.hi - Top.lo) : NextWord(Top, 0, i) /\ Resume(Depth, i)
  BY DEF SkipWord
<1>4. ASSUME NEW g \in 0..(Len(text) - 1), DueDate(text, Top.lo, g)
      PROVE  Top.hi <= g
  <2>1. /\ Len(text) \in Nat /\ Top.lo \in Nat /\ Top.hi \in Nat
        /\ \A k \in Top.lo..(Top.hi - 1) : DateAt(text, Top.lo, k) => k + 1 < Top.lo + At
    BY <1>1, TopAnswer
  <2>2. DateAt(text, Top.lo, g) /\ g >= Top.lo
    BY <1>4, <2>1 DEF DueDate
  <2>. QED BY <1>1, <2>1, <2>2
<1>. QED BY <1>2, <1>3, <1>4, NextWordLosesNone

\* A call whose back-off has found nothing stands at no due date.
LEMMA ReturnEmptyLosesNone ==
  ASSUME IInv, SearchInv(text, stack, results), ReturnEmpty
  PROVE  SearchInv(text, stack', results)
<1>. DEFINE d == Depth - 1
<1>1. /\ Depth \in Nat /\ d \in 1..Depth /\ d \in 1..Len(stack) /\ Depth \in 1..Len(stack)
      /\ d < Depth /\ stack[Depth] = Top /\ Top.lo = Top.hi
  BY TopInText DEF ReturnEmpty, Top, Depth
<1>2. PICK i \in 0..(stack[d].hi - stack[d].lo) : NextWord(stack[d], 0, i) /\ Resume(d, i)
  BY DEF ReturnEmpty
<1>. HIDE DEF d
<1>3. ASSUME NEW g \in 0..(Len(text) - 1), stack[d].lo \in 0..(Len(text) - 1),
             DueDate(text, stack[d].lo, g)
      PROVE  stack[d].hi <= g
  <2>1. stack[d] \in Frame /\ Len(text) \in Nat
    BY <1>1, ElementOfSeq, TopInText DEF IInv, TypeOK
  <2>2. ~(g < stack[d].hi)
    <3>1. SUFFICES ASSUME g < stack[d].hi PROVE FALSE
      OBVIOUS
    <3>2. Top.lo = stack[d].lo /\ g < Top.hi
      BY <1>1, <1>3, <3>1 DEF SearchInv, InnerReach
    <3>3. g \in stack[d].lo..(Len(text) - 1)
      BY <1>3 DEF DueDate
    <3>. QED BY <1>1, <2>1, <3>2, <3>3 DEF Frame
  <2>. QED BY <2>1, <2>2 DEF Frame
<1>. QED BY <1>1, <1>2, <1>3, NextWordLosesNone

\* The call on the tokens in front of the offending one reaches every due date that
\* begins where its caller stands.
LEMMA BackOffLosesNone ==
  ASSUME IInv, SearchInv(text, stack, results), BackOff
  PROVE  SearchInv(text, stack', results)
<1>. DEFINE f == [lo |-> Top.lo, hi |-> Top.lo + At - 1]
            t == text
            u == stack'
            s == stack
<1>1. Parsed("reject") /\ At > 0 /\ Top.lo < Top.hi /\ u = Append(s, f)
  BY DEF BackOff, Parsed
<1>2. /\ Len(t) \in Nat /\ Top.lo \in Nat /\ Top.hi \in Nat /\ Top.hi <= Len(t)
      /\ At \in Nat /\ At \in 0..(Top.hi - Top.lo)
      /\ \A g \in Top.lo..(Top.hi - 1) : DateAt(t, Top.lo, g) => g + 1 < Top.lo + At
  BY <1>1, TopAnswer
<1>3. /\ Depth \in Nat /\ Depth \in 1..Len(s) /\ Len(s) = Depth /\ s[Depth] = Top
      /\ s \in Seq(Frame)
  BY TopInText DEF Depth, Top, IInv, TypeOK
<1>4. f \in Frame /\ f.lo = Top.lo /\ f.hi = Top.lo + At - 1
  BY <1>1, <1>2 DEF Frame
<1>. HIDE DEF f, t, u, s
<1>5. /\ Len(u) = Depth + 1
      /\ \A e \in 1..Depth : u[e] = s[e]
      /\ u[Depth + 1] = f
  BY <1>1, <1>3, <1>4, AppendProperties
<1>6. u[1] = s[1]
  BY <1>3, <1>5
<1>7. /\ s[1].hi = Len(t) /\ NonePassed(t, s) /\ InnerReach(t, s)
      /\ PassedReported(t, s, results) /\ AllBegin(t, s)
  BY DEF SearchInv, t, s
<1>8. \A e \in 1..(Depth + 1) : e = Depth + 1 \/ e \in 1..Depth
  BY <1>3
<1>9. NonePassed(t, u)
  <2>. SUFFICES ASSUME NEW e \in 1..(Depth + 1),
                       NEW b \in 0..(Len(t) - 1), NEW g \in 0..(Len(t) - 1),
                       DueDate(t, b, g), s[1].lo <= b
                PROVE  u[e].lo <= b \/ u[e].hi <= g
    BY <1>5, <1>6 DEF NonePassed
  <2>1. CASE e = Depth + 1
    <3>1. Top.lo <= b \/ Top.hi <= g
      BY <1>3, <1>7 DEF NonePassed
    <3>2. f.hi < Top.hi
      BY <1>2, <1>4
    <3>. QED BY <1>2, <1>4, <1>5, <2>1, <3>1, <3>2
  <2>2. CASE e \in 1..Depth
    BY <1>3, <1>5, <1>7, <2>2 DEF NonePassed
  <2>. QED BY <1>8, <2>1, <2>2
<1>10. InnerReach(t, u)
  <2>. SUFFICES ASSUME NEW e \in 1..(Depth + 1), NEW k \in 1..(Depth + 1),
                       NEW b \in 0..(Len(t) - 1), NEW g \in 0..(Len(t) - 1),
                       e < k, DueDate(t, b, g), u[e].lo = b, g < u[e].hi
                PROVE  u[k].lo = b /\ g < u[k].hi
    BY <1>5 DEF InnerReach
  <2>1. e \in 1..Depth /\ u[e] = s[e]
    BY <1>3, <1>5
  <2>2. CASE k \in 1..Depth
    BY <1>3, <1>5, <1>7, <2>1, <2>2 DEF InnerReach
  <2>3. CASE k = Depth + 1
    <3>1. Top.lo = b /\ g < Top.hi
      <4>1. CASE e = Depth
        BY <1>3, <2>1, <4>1
      <4>2. CASE e # Depth
        <5>1. e < Depth
          BY <1>3, <2>1, <4>2
        <5>. QED BY <1>3, <1>7, <2>1, <5>1 DEF InnerReach
      <4>. QED BY <4>1, <4>2
    <3>2. DateAt(t, Top.lo, g) /\ g \in Top.lo..(Top.hi - 1)
      <4>1. DateAt(t, b, g) /\ g \in b..(Len(t) - 1)
        BY DEF DueDate
      <4>. QED BY <1>2, <3>1, <4>1
    <3>3. g + 1 < Top.lo + At
      BY <1>2, <3>2
    <3>4. g < f.hi
      BY <1>2, <1>4, <3>2, <3>3
    <3>. QED BY <1>4, <1>5, <2>3, <3>1, <3>4
  <2>. QED BY <1>8, <2>2, <2>3
<1>11. PassedReported(t, u, results)
  BY <1>6, <1>7 DEF PassedReported
<1>12. AllBegin(t, u)
  <2>. SUFFICES ASSUME NEW e \in 1..(Depth + 1)
                PROVE  u[e].lo = u[e].hi \/ Begins(t, u[e].lo)
    BY <1>5 DEF AllBegin
  <2>1. CASE e = Depth + 1
    <3>1. Begins(t, Top.lo)
      BY <1>1, <1>2, <1>3, <1>7 DEF AllBegin
    <3>. QED BY <1>4, <1>5, <2>1, <3>1
  <2>2. CASE e \in 1..Depth
    BY <1>3, <1>5, <1>7, <2>2 DEF AllBegin
  <2>. QED BY <1>8, <2>1, <2>2
<1>13. SearchInv(t, u, results)
  BY <1>6, <1>7, <1>9, <1>10, <1>11, <1>12 DEF SearchInv
<1>. QED BY <1>13 DEF t, u

\* What a report leaves behind: the outermost call, past every due date it takes.
LEMMA ReportLosesNone ==
  ASSUME IInv, SearchInv(text, stack, results), Parsed("accept"), Separated,
         results' = Append(results, [from |-> Top.lo, to |-> Top.lo + At]),
         NEW i \in 0..(stack[1].hi - stack[1].lo), Resume(1, i),
         \A b, g \in 0..(Len(text) - 1) :
           DueDate(text, b, g) /\ stack[1].lo <= b /\ b < stack[1].lo + i
             => b <= Top.lo + At /\ Top.lo <= g,
         stack[1].lo + i = stack[1].hi \/ Begins(text, stack[1].lo + i)
  PROVE  SearchInv(text, stack', results')
<1>. DEFINE r == [from |-> Top.lo, to |-> Top.lo + At]
            u == stack'
<1>1. Top.lo < Top.hi
  BY DEF Parsed
<1>2. Top.lo \in Nat /\ At \in Nat /\ Top.lo + At \in Nat
  BY <1>1, TopAnswer
<1>3. r \in Span /\ r.from = Top.lo /\ r.to = Top.lo + At
  BY <1>2 DEF Span
<1>. HIDE DEF r
<1>4. /\ Len(results') = Len(results) + 1 /\ Len(results) \in Nat
      /\ results'[Len(results) + 1] = r
      /\ \A k \in 1..Len(results) : results'[k] = results[k]
  <2>1. results' = Append(results, r) /\ results \in Seq(Span)
    BY DEF r, IInv, TypeOK
  <2>2. Len(results) \in Nat
    BY <2>1, LenProperties
  <2>. QED BY <1>3, <2>1, <2>2, AppendProperties
<1>5. 1 \in 1..Depth /\ stack[1].lo \in Nat /\ Len(text) \in Nat
  BY TopInText DEF Frame
<1>6. Moved(stack, u, 1, i)
  BY <1>5, ResumeMoves
<1>7. Len(u) = 1 /\ u[1].lo = stack[1].lo + i /\ u[1].hi = stack[1].hi
  BY <1>6 DEF Moved
<1>. HIDE DEF u
<1>8. u[1].hi = Len(text)
  BY <1>7 DEF SearchInv
<1>9. NonePassed(text, u) /\ InnerReach(text, u)
  <2>1. \A e \in 1..Len(u) : e = 1
    BY <1>7
  <2>. QED BY <2>1 DEF NonePassed, InnerReach
<1>10. AllBegin(text, u)
  <2>1. \A e \in 1..Len(u) : e = 1
    BY <1>7
  <2>. QED BY <1>7, <2>1 DEF AllBegin
<1>11. PassedReported(text, u, results')
  <2>. SUFFICES ASSUME NEW b \in 0..(Len(text) - 1), NEW g \in 0..(Len(text) - 1),
                       DueDate(text, b, g), b < u[1].lo
                PROVE  \E k \in 1..Len(results') : b <= results'[k].to /\ results'[k].from <= g
    BY DEF PassedReported
  <2>1. CASE b < stack[1].lo
    <3>1. PICK k \in 1..Len(results) : b <= results[k].to /\ results[k].from <= g
      BY <2>1 DEF SearchInv, PassedReported
    <3>2. k \in 1..Len(results') /\ results'[k] = results[k]
      BY <1>4
    <3>. QED BY <3>1, <3>2
  <2>2. CASE ~(b < stack[1].lo)
    <3>1. b <= r.to /\ r.from <= g
      BY <1>3, <1>5, <1>7, <2>2
    <3>2. Len(results) + 1 \in 1..Len(results')
      BY <1>4
    <3>. QED BY <1>4, <3>1, <3>2
  <2>. QED BY <2>1, <2>2
<1>12. SearchInv(text, u, results')
  BY <1>8, <1>9, <1>10, <1>11 DEF SearchInv
<1>. QED BY <1>12 DEF u

\* The outermost call goes on behind the date it reports.
LEMMA AcceptInRootLosesNone ==
  ASSUME IInv, SearchInv(text, stack, results), AcceptInRoot
  PROVE  SearchInv(text, stack', results')
<1>. DEFINE i == Smaller(At + 2, Top.hi - Top.lo)
<1>1. /\ Parsed("accept") /\ Separated /\ Top.lo < Top.hi /\ Resume(1, i)
      /\ results' = Append(results, [from |-> Top.lo, to |-> Top.lo + At])
      /\ stack[1] = Top
  BY DEF AcceptInRoot, Parsed, Top
<1>2. /\ Len(text) \in Nat /\ Top.lo \in Nat /\ Top.hi \in Nat /\ Top.hi <= Len(text)
      /\ At \in Nat /\ At \in 0..(Top.hi - Top.lo - 1)
      /\ Top.lo \in 0..Len(text) /\ Top.lo + At \in Top.lo..(Len(text) - 1)
      /\ LooseAt(text, Top.lo, Top.lo + At)
  BY <1>1, TopAnswer
<1>3. \/ Top.lo + At + 1 = Top.hi
      \/ Top.lo + At + 1 < Top.hi /\ text[Top.lo + At + 2] \in Separators
  BY <1>1, BehindAccepted
<1>4. i \in 0..(Top.hi - Top.lo) /\ i <= At + 2 /\ (i = Top.hi - Top.lo \/ i = At + 2)
  BY <1>2 DEF Smaller
<1>. HIDE DEF i
<1>4a. i \in Nat
  BY <1>2, <1>4
<1>5. ASSUME NEW b \in 0..(Len(text) - 1), NEW g \in 0..(Len(text) - 1),
             DueDate(text, b, g), Top.lo <= b, b < Top.lo + i
      PROVE  b <= Top.lo + At /\ Top.lo <= g
  <2>1. b # (Top.lo + At) + 1
    <3>1. text \in Inputs
      BY DEF IInv
    <3>. QED BY <1>2, <1>5, <3>1, NotBehindDate
  <2>2. g \in b..(Len(text) - 1)
    BY <1>5 DEF DueDate
  <2>3. b \in Nat /\ g \in Nat /\ b <= g
    BY <1>2, <2>2
  <2>4. Top.lo + i <= (Top.lo + At) + 2
    BY SMTT(30), <1>2, <1>4, <1>4a
  <2>5. b < (Top.lo + At) + 2
    BY SMTT(30), <1>2, <1>4a, <1>5, <2>3, <2>4
  <2>6. b <= Top.lo + At
    <3>1. Top.lo + At \in Nat
      BY <1>2
    <3>. QED BY <2>1, <2>3, <2>5, <3>1
  <2>7. Top.lo <= g
    BY <1>2, <1>5, <2>3
  <2>. QED BY <2>6, <2>7
<1>6. Top.lo + i = Top.hi \/ Begins(text, Top.lo + i)
  <2>1. CASE Top.lo + i # Top.hi
    <3>0. i # Top.hi - Top.lo
      BY <1>2, <1>4a, <2>1
    <3>0a. i = At + 2
      BY <1>4, <3>0
    <3>1. i = At + 2 /\ Top.lo + At + 1 # Top.hi /\ Top.lo + At + 2 = Top.lo + i
      BY SMTT(30), <1>2, <1>4, <3>0a
    <3>2. text[Top.lo + i] \in Separators
      BY <1>2, <1>3, <3>1
    <3>. QED BY <3>2 DEF Begins
  <2>. QED BY <2>1
<1>. QED BY <1>1, <1>4, <1>5, <1>6, ReportLosesNone

\* The outermost call goes on at the beginning of a word, and the words it passes
\* begin no due date but one the report takes a token of.
LEMMA AcceptInBackOffLosesNone ==
  ASSUME IInv, SearchInv(text, stack, results), AcceptInBackOff
  PROVE  SearchInv(text, stack', results')
<1>1. /\ Parsed("accept") /\ Separated /\ Top.lo < Top.hi
      /\ results' = Append(results, [from |-> Top.lo, to |-> Top.lo + At])
  BY DEF AcceptInBackOff, Parsed
<1>2. PICK i \in 0..(stack[1].hi - stack[1].lo) :
        NextWord(stack[1], At + 1, i) /\ Resume(1, i)
  BY DEF AcceptInBackOff
<1>3. /\ Len(text) \in Nat /\ Top.lo \in Nat /\ Top.hi \in Nat /\ Top.hi <= Len(text)
      /\ At \in Nat /\ At \in 0..(Top.hi - Top.lo - 1)
      /\ Top.lo \in 0..Len(text) /\ Top.lo + At \in Top.lo..(Len(text) - 1)
      /\ LooseAt(text, Top.lo, Top.lo + At)
  BY <1>1, TopAnswer
<1>4. /\ stack[1] \in Frame /\ stack[1].lo \in Nat /\ stack[1].hi \in Nat
      /\ stack[1].lo <= Top.lo /\ stack[1].hi = Len(text) /\ text \in Inputs
      /\ Depth \in 1..Len(stack) /\ stack[Depth] = Top
  BY TopInText DEF Frame, SearchInv, IInv, Depth, Top
<1>5. /\ stack[1].lo + i = stack[1].hi \/ (i > At + 1 /\ text[stack[1].lo + i] = "WS")
      /\ \A p \in (stack[1].lo + (At + 1))..(stack[1].hi - 1) :
           text[p + 1] = "WS" => stack[1].lo + i <= p + 1
  <2>1. At + 1 \in Nat /\ (stack[1].lo < stack[1].hi \/ stack[1].lo = stack[1].hi)
        /\ stack[1].hi <= Len(text)
    BY <1>3, <1>4
  <2>. QED BY <1>2, <1>3, <1>4, <2>1, NextWordIsFirst
<1>6. ASSUME NEW b \in 0..(Len(text) - 1), NEW g \in 0..(Len(text) - 1),
             DueDate(text, b, g), stack[1].lo <= b, b < stack[1].lo + i
      PROVE  b <= Top.lo + At /\ Top.lo <= g
  <2>0. b \in Nat /\ g \in Nat
    BY <1>3
  <2>1. b <= stack[1].lo + (At + 1)
    <3>1. CASE b = stack[1].lo
      <4>1. stack[1].lo \in Nat /\ At \in Nat
        BY <1>3, <1>4
      <4>. QED BY <3>1, <4>1
    <3>2. CASE b # stack[1].lo
      <4>1. SUFFICES ASSUME b > stack[1].lo + (At + 1) PROVE FALSE
        <5>0. stack[1].lo \in Nat /\ At \in Nat
          BY <1>3, <1>4
        <5>1. stack[1].lo + (At + 1) \in Nat
          BY <5>0
        <5>. QED BY <5>1, <2>0
      <4>2. text[b] = "WS"
        BY <1>4, <1>6, <3>2 DEF DueDate
      <4>3. b - 1 \in (stack[1].lo + (At + 1))..(stack[1].hi - 1) /\ (b - 1) + 1 = b
        <5>1. b \in Nat /\ b < stack[1].hi
          BY <1>3, <1>4
        <5>0. stack[1].lo \in Nat /\ At \in Nat
          BY <1>3, <1>4
        <5>2. stack[1].lo + (At + 1) \in Nat
          BY <5>0
        <5>3. b - 1 >= stack[1].lo + (At + 1)
          BY <2>0, <4>1, <5>2
        <5>. QED BY <1>4, <5>1, <5>2, <5>3
      <4>4. stack[1].lo + i <= b
        BY <1>5, <4>2, <4>3
      <4>. QED BY <1>4, <1>6, <4>4
    <3>. QED BY <3>1, <3>2, <2>0
  <2>2. Top.lo <= b \/ Top.hi <= g
    BY <1>4, <1>6 DEF SearchInv, NonePassed
  <2>3. b # (Top.lo + At) + 1
    BY <1>3, <1>4, <1>6, NotBehindDate
  <2>4. g \in b..(Len(text) - 1)
    BY <1>6 DEF DueDate
  <2>5. Top.lo <= g
    BY <1>1, <1>3, <2>2, <2>4
  <2>6. b <= Top.lo + At
    <3>0. /\ stack[1].lo \in Nat /\ Top.lo \in Nat /\ At \in Nat /\ stack[1].lo <= Top.lo
      BY <1>3, <1>4
    <3>1. stack[1].lo + (At + 1) <= (Top.lo + At) + 1
      BY <3>0
    <3>2. stack[1].lo + (At + 1) \in Nat /\ Top.lo + At \in Nat
      BY <3>0
    <3>3. b <= (Top.lo + At) + 1
      BY <2>0, <2>1, <3>1, <3>2
    <3>. QED BY <2>0, <2>3, <3>2, <3>3
  <2>. QED BY <2>5, <2>6
<1>7. stack[1].lo + i = stack[1].hi \/ Begins(text, stack[1].lo + i)
  BY <1>5 DEF Begins, Separators
<1>. QED BY <1>1, <1>2, <1>6, <1>7, ReportLosesNone

\* The search starts with the whole sentence.
LEMMA InitSearchInv == Init => SearchInv(text, stack, results)
<1>. SUFFICES ASSUME Init PROVE SearchInv(text, stack, results)
  OBVIOUS
<1>1. Len(text) \in Nat /\ text \in Inputs
  BY InputsAssumption, LenProperties DEF Init
<1>2. Len(stack) = 1 /\ stack[1].lo = 0 /\ stack[1].hi = Len(text)
  BY DEF Init
<1>3. \A e \in 1..Len(stack) : e = 1
  BY <1>2
<1>4. NonePassed(text, stack) /\ InnerReach(text, stack) /\ PassedReported(text, stack, results)
  BY <1>1, <1>2, <1>3 DEF NonePassed, InnerReach, PassedReported
<1>5. AllBegin(text, stack)
  BY <1>2, <1>3 DEF AllBegin, Begins
<1>. QED BY <1>2, <1>4, <1>5 DEF SearchInv

\* Every step keeps the invariant of the search.
LEMMA NextLosesNone ==
  ASSUME IInv, SearchInv(text, stack, results), [Next]_vars
  PROVE  SearchInv(text, stack, results)'
<1>1. text' = text
  BY DEF Next, vars, AcceptInRoot, AcceptInBackOff, Drop, SkipWord, BackOff, ReturnEmpty,
         Finish, Throw
<1>2. CASE AcceptInRoot
  BY <1>1, <1>2, AcceptInRootLosesNone
<1>3. CASE AcceptInBackOff
  BY <1>1, <1>3, AcceptInBackOffLosesNone
<1>4. CASE Drop
  BY <1>1, <1>4, DropLosesNone DEF Drop
<1>5. CASE SkipWord
  BY <1>1, <1>5, SkipWordLosesNone DEF SkipWord
<1>6. CASE BackOff
  BY <1>1, <1>6, BackOffLosesNone DEF BackOff
<1>7. CASE ReturnEmpty
  BY <1>1, <1>7, ReturnEmptyLosesNone DEF ReturnEmpty
<1>8. CASE Finish \/ Throw \/ UNCHANGED vars
  BY <1>8 DEF Finish, Throw, vars
<1>. QED BY <1>2, <1>3, <1>4, <1>5, <1>6, <1>7, <1>8 DEF Next

--------------------------------------------------------------------------
(* The whole invariant of the search. *)

\* The inductive invariant of the search.
FindInv == IInv /\ SearchInv(text, stack, results)

\* The search has it throughout.
THEOREM SearchInvariance == Spec => []FindInv
<1>1. Init => FindInv
  BY InitIInv, InitSearchInv DEF FindInv
<1>2. FindInv /\ [Next]_vars => FindInv'
  BY NextKeeps, NextLosesNone DEF FindInv
<1>. QED BY <1>1, <1>2, PTL DEF Spec

--------------------------------------------------------------------------
(* What DateScan says of the sentence, in the terms of the search. *)

\* The numbers of a span of the sentence.
LEMMA SpanNumbers ==
  ASSUME IInv
  PROVE  /\ Len(text) \in Nat /\ text \in Inputs
         /\ \A i \in 1..Len(text) : text[i] \in Kinds
         /\ \A r \in Scan!Spans : /\ r.from \in Nat /\ r.to \in Nat
                                  /\ r.from <= r.to /\ r.to < Len(text)
         /\ \A c, g \in Nat : c <= g /\ g < Len(text) => [from |-> c, to |-> g] \in Scan!Spans
<1>1. Len(text) \in Nat /\ text \in Inputs /\ text \in Seq(Kinds)
  BY TopInText DEF IInv, TypeOK
<1>2. \A i \in 1..Len(text) : text[i] \in Kinds
  BY <1>1, ElementOfSeq
<1>3. \A r \in Scan!Spans : /\ r.from \in Nat /\ r.to \in Nat
                            /\ r.from <= r.to /\ r.to < Len(text)
  BY <1>1 DEF Scan!Spans
<1>4. ASSUME NEW c \in Nat, NEW g \in Nat, c <= g, g < Len(text)
      PROVE  [from |-> c, to |-> g] \in Scan!Spans
  <2>1. c \in 0..Len(text) /\ g \in 0..Len(text)
    BY <1>1, <1>4
  <2>2. [from |-> c, to |-> g] \in [from : 0..Len(text), to : 0..Len(text)]
    BY <2>1
  <2>. QED BY <1>4, <2>2 DEF Scan!Spans
<1>. QED BY <1>1, <1>2, <1>3, <1>4

\* The kind of a token of the sentence, and of what is around it.
LEMMA KindsOfText ==
  ASSUME IInv
  PROVE  /\ \A i \in Nat : i < Len(text) => Scan!KindAt(i) = text[i + 1]
         /\ \A i \in Int : i < 0 \/ i >= Len(text) => Scan!KindAt(i) = "EOF"
<1>1. Len(text) \in Nat
  BY TopInText
<1>. QED BY <1>1 DEF Scan!KindAt

\* A glued date is one in both.
LEMMA GluedInText ==
  ASSUME IInv, NEW r \in Scan!Spans
  PROVE  Scan!Glued(r) <=> GluedDate(text, r.from, r.to)
<1>1. /\ Len(text) \in Nat /\ r.from \in Nat /\ r.to \in Nat
      /\ r.from <= r.to /\ r.to < Len(text)
  BY SpanNumbers
<1>2. Scan!IsLooseDate(r) <=> LooseAt(text, r.from, r.to)
  BY DEF Scan!IsLooseDate, LooseAt
<1>3. Scan!Separators = Separators /\ "EOF" \in Separators
  BY DEF Scan!Separators, Separators
<1>4. CASE r.to + 1 < Len(text)
  <2>1. Scan!KindAt(r.to + 1) = text[r.to + 2]
    <3>1. r.to + 1 \in Nat /\ (r.to + 1) + 1 = r.to + 2
      BY <1>1
    <3>. QED BY <1>4, <3>1, KindsOfText
  <2>2. r.from \in 0..(Len(text) - 1) /\ r.to \in r.from..(Len(text) - 1)
    BY <1>1
  <2>. QED BY <1>2, <1>3, <1>4, <2>1, <2>2 DEF Scan!Glued, GluedDate
<1>5. CASE ~(r.to + 1 < Len(text))
  <2>1. r.to + 1 \in Int /\ r.to + 1 >= Len(text)
    BY <1>1, <1>5
  <2>2. Scan!KindAt(r.to + 1) = "EOF"
    BY <2>1, KindsOfText
  <2>. QED BY <1>3, <1>5, <2>2 DEF Scan!Glued, GluedDate
<1>. QED BY <1>4, <1>5

\* A date that is due begins a word and shares no token with a glued one.
LEMMA DueInText ==
  ASSUME IInv, NEW r \in Scan!Spans, Scan!Due(r)
  PROVE  DueDate(text, r.from, r.to)
<1>1. /\ Len(text) \in Nat /\ r.from \in Nat /\ r.to \in Nat
      /\ r.from <= r.to /\ r.to < Len(text)
  BY SpanNumbers
<1>2. DateAt(text, r.from, r.to)
  BY DEF Scan!Due, Scan!IsDate, DateAt
<1>3. r.from = 0 \/ text[r.from] = "WS"
  <2>. SUFFICES ASSUME r.from # 0 PROVE text[r.from] = "WS"
    OBVIOUS
  <2>1. r.from - 1 \in Nat /\ r.from - 1 < Len(text) /\ (r.from - 1) + 1 = r.from
        /\ r.from \in 1..Len(text)
    BY <1>1
  <2>2. Scan!KindAt(r.from - 1) = text[r.from]
    BY <2>1, KindsOfText
  <2>3. text[r.from] # "EOF"
    BY <2>1, SpanNumbers, KindsAssumption
  <2>. QED BY <2>2, <2>3 DEF Scan!Due, Scan!BeginsWord
<1>4. ASSUME NEW c \in 0..(Len(text) - 1), NEW e \in 0..(Len(text) - 1), GluedDate(text, c, e)
      PROVE  e < r.from \/ r.to < c
  <2>1. c \in Nat /\ e \in Nat /\ c <= e /\ e < Len(text)
    <3>1. e \in c..(Len(text) - 1)
      BY <1>4 DEF GluedDate
    <3>. QED BY <1>1, <3>1
  <2>. DEFINE s == [from |-> c, to |-> e]
  <2>2. s \in Scan!Spans /\ s.from = c /\ s.to = e
    BY <2>1, SpanNumbers
  <2>. HIDE DEF s
  <2>3. GluedDate(text, s.from, s.to)
    BY <1>4, <2>2
  <2>4. Scan!Glued(s)
    BY <2>2, <2>3, GluedInText
  <2>5. ~Scan!Overlap(s, r)
    BY <2>2, <2>4 DEF Scan!Due
  <2>6. ~(c <= r.to /\ r.from <= e)
    BY <2>2, <2>5 DEF Scan!Overlap
  <2>. QED BY <1>1, <2>1, <2>6
<1>5. r.from \in 0..(Len(text) - 1) /\ r.to \in r.from..(Len(text) - 1)
  BY <1>1
<1>. QED BY <1>2, <1>3, <1>4, <1>5 DEF DueDate

\* A report begins where the call at the top stands.
LEMMA ReportInText ==
  ASSUME IInv, NEW r, NEW c \in Nat, NEW g \in Nat, r = [from |-> c, to |-> g],
         c <= g, g < Len(text), LooseAt(text, c, g), Begins(text, c)
  PROVE  r \in Scan!Spans /\ Scan!IsLooseDate(r) /\ Scan!BeginsToken(r)
<1>1. Len(text) \in Nat
  BY SpanNumbers
<1>2. r \in Scan!Spans /\ r.from = c /\ r.to = g
  BY <1>1, SpanNumbers
<1>3. Scan!IsLooseDate(r)
  BY <1>2 DEF Scan!IsLooseDate, LooseAt
<1>4. Scan!Separators = Separators /\ "EOF" \in Separators
  BY DEF Scan!Separators, Separators
<1>5. Scan!BeginsToken(r)
  <2>1. CASE c = 0
    <3>1. c - 1 \in Int /\ c - 1 < 0
      BY <2>1
    <3>2. Scan!KindAt(c - 1) = "EOF"
      BY <3>1, KindsOfText
    <3>. QED BY <1>2, <1>4, <3>2 DEF Scan!BeginsToken
  <2>2. CASE c # 0 /\ text[c] \in Separators
    <3>1. c - 1 \in Nat /\ c - 1 < Len(text) /\ (c - 1) + 1 = c
      BY <1>1, <2>2
    <3>2. Scan!KindAt(c - 1) = text[c]
      BY <3>1, KindsOfText
    <3>. QED BY <1>2, <1>4, <2>2, <3>2 DEF Scan!BeginsToken
  <2>3. ASSUME c > 1, NEW b \in 0..(c - 2), GluedDate(text, b, c - 2)
        PROVE  Scan!BeginsToken(r)
    <3>. DEFINE q == [from |-> b, to |-> c - 2]
    <3>1. b \in Nat /\ c - 2 \in Nat /\ b <= c - 2 /\ c - 2 < Len(text) /\ (c - 2) + 2 = c
      BY <1>1, <2>3
    <3>2. q \in Scan!Spans /\ q.from = b /\ q.to = c - 2
      BY <3>1, SpanNumbers
    <3>. HIDE DEF q
    <3>3. GluedDate(text, q.from, q.to)
      BY <2>3, <3>2
    <3>4. Scan!Glued(q) /\ q.to + 2 = r.from
      BY <1>2, <3>1, <3>2, <3>3, GluedInText
    <3>. QED BY <3>2, <3>4 DEF Scan!BeginsToken
  <2>. QED BY <1>1, <2>1, <2>2, <2>3 DEF Begins
<1>. QED BY <1>2, <1>3, <1>5

\* A report of the search is one of DateScan.
LEMMA AcceptIsReport ==
  ASSUME FindInv, AcceptInRoot \/ AcceptInBackOff
  PROVE  \E r \in Scan!Spans : Scan!Report(r)
<1>. DEFINE r == [from |-> Top.lo, to |-> Top.lo + At]
<1>1. /\ Parsed("accept") /\ Top.lo < Top.hi
      /\ results' = Append(results, r) /\ UNCHANGED <<text, status>> /\ status = "parsing"
  BY DEF AcceptInRoot, AcceptInBackOff, Parsed
<1>2. IInv /\ SearchInv(text, stack, results)
  BY DEF FindInv
<1>3. /\ Len(text) \in Nat /\ Top.lo \in Nat /\ At \in Nat
      /\ Top.lo + At \in Top.lo..(Len(text) - 1)
      /\ LooseAt(text, Top.lo, Top.lo + At)
  BY <1>1, <1>2, TopAnswer
<1>4. Begins(text, Top.lo)
  <2>1. Depth \in 1..Len(stack) /\ stack[Depth] = Top /\ Top \in Frame
    BY <1>2, TopInText DEF Depth, Top
  <2>2. Top.lo # Top.hi
    BY <1>1, <2>1 DEF Frame
  <2>. QED BY <1>2, <2>1, <2>2 DEF SearchInv, AllBegin
<1>5. Top.lo + At \in Nat /\ Top.lo <= Top.lo + At /\ Top.lo + At < Len(text)
  BY <1>3
<1>6. r \in Scan!Spans /\ Scan!IsLooseDate(r) /\ Scan!BeginsToken(r)
  BY <1>2, <1>3, <1>4, <1>5, ReportInText
<1>. HIDE DEF r
<1>7. Scan!Report(r)
  BY <1>1, <1>6 DEF Scan!Report
<1>. QED BY <1>6, <1>7

\* When the outermost call is at the end every date that is due has been reported.
LEMMA FinishIsReturn ==
  ASSUME FindInv, Finish
  PROVE  Scan!Return
<1>0. IInv /\ SearchInv(text, stack, results)
  BY DEF FindInv
<1>1. /\ stack[1].lo = Len(text) /\ status = "parsing" /\ status' = "done"
      /\ text' = text /\ results' = results
  <2>1. Top = stack[1] /\ Top.lo = Top.hi
    BY DEF Finish, Top
  <2>. QED BY <1>0, <2>1 DEF Finish, SearchInv
<1>2. Scan!AllReported
  <2>. SUFFICES ASSUME NEW r \in Scan!Spans, Scan!Due(r)
                PROVE  \E k \in 1..Len(results) : Scan!Overlap(r, results[k])
    BY DEF Scan!AllReported
  <2>1. DueDate(text, r.from, r.to)
    BY <1>0, DueInText
  <2>2. /\ r.from \in 0..(Len(text) - 1) /\ r.to \in 0..(Len(text) - 1)
        /\ r.from < stack[1].lo
    BY <1>0, <1>1, SpanNumbers
  <2>3. \E k \in 1..Len(results) : r.from <= results[k].to /\ results[k].from <= r.to
    BY <1>0, <2>1, <2>2 DEF SearchInv, PassedReported
  <2>. QED BY <2>3 DEF Scan!Overlap
<1>. QED BY <1>1, <1>2 DEF Scan!Return

\* Every step of the search is one of DateScan, or changes nothing DateScan sees.
LEMMA NextIsScan ==
  ASSUME FindInv, [Next]_vars
  PROVE  [Scan!Next]_(Scan!vars)
<1>1. CASE AcceptInRoot \/ AcceptInBackOff
  BY <1>1, AcceptIsReport DEF Scan!Next
<1>2. CASE Finish
  BY <1>2, FinishIsReturn DEF Scan!Next
<1>3. CASE Throw
  <2>1. Scan!Throw
    BY <1>3 DEF Throw, Scan!Throw
  <2>. QED BY <2>1 DEF Scan!Next
<1>4. CASE Drop \/ SkipWord \/ BackOff \/ ReturnEmpty \/ UNCHANGED vars
  <2>1. UNCHANGED <<text, results, status>>
    BY <1>4 DEF Drop, SkipWord, BackOff, ReturnEmpty, vars
  <2>. QED BY <2>1 DEF Scan!vars
<1>. QED BY <1>1, <1>2, <1>3, <1>4 DEF Next

\* ParseDate implements DateScan, for every parser and grammar of the assumptions: its
\* search reports what the parser reads as a date, where a token begins, and when it
\* returns it has lost none.
THEOREM SearchIsAScan == Spec => ImplementsDateScan
<1>1. Init => Scan!Init
  BY InputsAssumption DEF Init, Scan!Init
<1>2. FindInv /\ [Next]_vars => [Scan!Next]_(Scan!vars)
  BY NextIsScan
<1>3. Spec => Scan!Spec
  BY <1>1, <1>2, SearchInvariance, PTL DEF Spec, Scan!Spec
<1>. QED BY <1>3 DEF ImplementsDateScan
====
