---- MODULE ParseDate ----
(***************************************************************************)
(* ParseDate.parseRecursive: how every date of a sentence is found with a  *)
(* parser that only reads one date, at the start of a token list.          *)
(*                                                                         *)
(* A call of parseRecursive works on a slice of the sentence's tokens with *)
(* an EOF behind it.  Accepted: report the date and go on behind it.       *)
(* Rejected at token i: call itself on the tokens before i - 1, and when   *)
(* that finds nothing go on behind the next WHITE_SPACE.  The stack of     *)
(* calls is the variable stack, the slice of a call is [lo, hi).           *)
(*                                                                         *)
(* The parser is a parameter: the proofs hold for every parser.            *)
(***************************************************************************)
EXTENDS Naturals, Sequences

CONSTANTS
  Kinds,             \* token kinds of DateLexer, EOF left out
  Inputs,            \* the token lists parse is called with
  Parse(_)           \* what the generated parser answers for a slice

\* The answers of the parser for a slice of n tokens and its EOF: a date ends at
\* token at, token at is the first that does not fit, or an exception leaves the
\* parser.  With throws, that is so for some numbers and days of the same kinds.
Answers(n) ==
  [answer : {"accept"}, at : 0..(n - 1), throws : BOOLEAN]
  \cup [answer : {"reject"}, at : 0..n, throws : BOOLEAN]
  \cup [answer : {"raise"}, at : 0..n, throws : {TRUE}]

\* DateLexer makes tokens of these kinds only.
ASSUME InputsAssumption == Inputs \subseteq Seq(Kinds)

\* The parser answers on every slice of an input.
ASSUME ParserAssumption ==
  \A t \in Inputs : \A lo, hi \in 0..Len(t) :
    lo < hi => Parse(SubSeq(t, lo + 1, hi)) \in Answers(hi - lo)

VARIABLES
  text,     \* the tokens of the input, text[i + 1] has absolute index i
  stack,    \* the running calls of parseRecursive, the outermost first
  results,  \* the reported dates: absolute first and last token, in order
  status    \* "parsing", "done", or "failed" by an exception

vars == <<text, stack, results, status>>

--------------------------------------------------------------------------
Frame == [lo : Nat, hi : Nat]
Span  == [from : Nat, to : Nat]

Depth    == Len(stack)
Top      == stack[Depth]
Slice(f) == SubSeq(text, f.lo + 1, f.hi)

\* The kind of the token with index i of a call's list; its last is EOF.
TokenAt(f, i) == IF i = f.hi - f.lo THEN "EOF" ELSE text[f.lo + i + 1]

\* Mutant of WordStarts: the WHITE_SPACE itself.
BlankStarts(f, start) ==
  {j \in start..(f.hi - f.lo) : TokenAt(f, j) = "WS"}

WordStarts(f, start) ==
  {i + 1 : i \in {j \in start..(f.hi - f.lo) : TokenAt(f, j) = "WS"}}

\* i is what getIndexOfTheNextWordTokenIndex returns: the token behind the first
\* WHITE_SPACE at or behind start, the EOF when there is none.
NextWord(f, start, i) ==
  \/ i \in WordStarts(f, start) /\ \A j \in WordStarts(f, start) : i <= j
  \/ i = f.hi - f.lo /\ WordStarts(f, start) = {}

\* Mutant of Separators: the test is left out.
AnyToken == Kinds \cup {"EOF"}

\* Mutant of Separators: a comma behind a date does not separate it.
BlanksOnly == {"WS", "EOF"}

Separators == {"WS", "COMMA", "DOT", "QUOTE", "EOF"}

\* tokens = tokens.subList(i, tokens.size()) in the call at the given depth; the
\* calls above it have returned.
Resume(depth, i) ==
  stack' = Append(SubSeq(stack, 1, depth - 1),
                  [lo |-> stack[depth].lo + i, hi |-> stack[depth].hi])

Smaller(a, b) == IF a < b THEN a ELSE b

\* The call at the top of the stack has parsed its slice, which is not empty.
Parsed(answer) ==
  /\ status = "parsing" /\ Top.lo < Top.hi
  /\ Parse(Slice(Top)).answer = answer

At == Parse(Slice(Top)).at

\* The separator test behind an accepted date, which ends at token At.
Separated == TokenAt(Top, At + 1) \in Separators

--------------------------------------------------------------------------
Init ==
  /\ text \in Inputs
  /\ stack = <<[lo |-> 0, hi |-> Len(text)]>>
  /\ results = <<>>
  /\ status = "parsing"

\* The slice starts with a date and a separator follows.  The outermost call
\* goes on behind the separator: the parser has fetched exactly one token more
\* than it accepted.
AcceptInRoot ==
  /\ Depth = 1
  /\ Parsed("accept") /\ Separated
  /\ results' = Append(results, [from |-> Top.lo, to |-> Top.lo + At])
  /\ Resume(1, Smaller(At + 2, Top.hi - Top.lo))
  /\ UNCHANGED <<text, status>>

\* Mutant of AcceptInBackOff: the outermost call goes on with its next word.
AcceptIgnoringRange ==
  /\ Depth > 1
  /\ Parsed("accept") /\ Separated
  /\ results' = Append(results, [from |-> Top.lo, to |-> Top.lo + At])
  /\ \E i \in 0..(stack[1].hi - stack[1].lo) : NextWord(stack[1], 0, i) /\ Resume(1, i)
  /\ UNCHANGED <<text, status>>

\* An inner call stops on its first date, and every call above the outermost
\* hands it down at once.  The outermost call resumes behind the first
\* WHITE_SPACE behind the date's token range: that range counts from the start
\* of the innermost slice, and is used as an index of the outermost one.
AcceptInBackOff ==
  /\ Depth > 1
  /\ Parsed("accept") /\ Separated
  /\ results' = Append(results, [from |-> Top.lo, to |-> Top.lo + At])
  /\ \E i \in 0..(stack[1].hi - stack[1].lo) :
       NextWord(stack[1], At + 1, i) /\ Resume(1, i)
  /\ UNCHANGED <<text, status>>

\* The slice starts with a date but something else than a separator follows:
\* nothing is reported, and the call goes on behind that token.
Drop ==
  /\ Parsed("accept") /\ ~Separated
  /\ Resume(Depth, Smaller(At + 2, Top.hi - Top.lo))
  /\ UNCHANGED <<text, results, status>>

\* Nothing of the slice can start a date: on to the next word.
SkipWord ==
  /\ Parsed("reject") /\ At = 0
  /\ \E i \in 0..(Top.hi - Top.lo) : NextWord(Top, 0, i) /\ Resume(Depth, i)
  /\ UNCHANGED <<text, results, status>>

\* Mutant of BackOff: nothing cut off when the EOF does not fit.
BackOffKeepingAll ==
  /\ Parsed("reject") /\ At > 0
  /\ stack' = Append(stack, [lo |-> Top.lo, hi |-> Top.lo + At])
  /\ UNCHANGED <<text, results, status>>

\* The slice fails at its token At: call parseRecursive on the At - 1 tokens
\* before it, "remove tokens from the back".
BackOff ==
  /\ Parsed("reject") /\ At > 0
  /\ stack' = Append(stack, [lo |-> Top.lo, hi |-> Top.lo + At - 1])
  /\ UNCHANGED <<text, results, status>>

\* An inner call is at its EOF and returns no date: its caller goes on with the
\* next word.
ReturnEmpty ==
  /\ status = "parsing" /\ Top.lo = Top.hi /\ Depth > 1
  /\ \E i \in 0..(stack[Depth - 1].hi - stack[Depth - 1].lo) :
       NextWord(stack[Depth - 1], 0, i) /\ Resume(Depth - 1, i)
  /\ UNCHANGED <<text, results, status>>

Finish ==
  /\ status = "parsing" /\ Top.lo = Top.hi /\ Depth = 1
  /\ status' = "done"
  /\ UNCHANGED <<text, stack, results>>

\* An exception of an exit handler or of the error strategy leaves parse: no date
\* is returned at all.
Throw ==
  /\ status = "parsing" /\ Top.lo < Top.hi
  /\ Parse(Slice(Top)).throws
  /\ status' = "failed"
  /\ UNCHANGED <<text, stack, results>>

Next ==
  \/ AcceptInRoot \/ AcceptInBackOff \/ Drop
  \/ SkipWord \/ BackOff \/ ReturnEmpty
  \/ Finish \/ Throw

\* parse runs in the thread of its caller and never waits.
Spec == Init /\ [][Next]_vars /\ WF_vars(Next)

--------------------------------------------------------------------------
\* The sentence, the stack of calls, the reports and the outcome of ParseDate.parse
\* keep their types: a slice never begins or ends before the sentence does.
TypeOK ==
  /\ text \in Seq(Kinds)
  /\ stack \in Seq(Frame)
  /\ results \in Seq(Span)
  /\ status \in {"parsing", "done", "failed"}

\* Every call that is running works on a slice of the sentence, and an inner call
\* on a shorter slice than its caller, cut off at the back: no index of a token
\* list is ever out of bounds, and the recursion is at most one call deeper than
\* the sentence has tokens.
CallsShrink ==
  /\ Depth \in 1..(Len(text) + 1)
  /\ \A d \in 1..Depth : stack[d].lo <= stack[d].hi /\ stack[d].hi <= Len(text)
  /\ \A d \in 1..Depth : \A e \in 1..Depth :
       d < e => stack[d].lo <= stack[e].lo /\ stack[e].hi < stack[d].hi

\* The outermost call never goes back, and never stays where it is when it
\* reports a date: together with CallsShrink, why parseRecursive ends.
RootAdvances ==
  [][ /\ stack'[1].lo >= stack[1].lo
      /\ results' # results => stack'[1].lo > stack[1].lo ]_vars

\* parse returns or throws.
Terminates == <>(status # "parsing")
====
