---- MODULE MIRA ----
(***************************************************************************)
(* runMIRA of CRF++: training with one sentence after the other.  A        *)
(* sentence that was parsed right in shrinking_size rounds is left out of  *)
(* the next ones.  When a round has no violation of the KKT conditions,    *)
(* all sentences are taken in again, and training has converged when the   *)
(* next round has none either.                                             *)
(*                                                                         *)
(* Numbers are left out: whether a sentence is parsed right, and whether   *)
(* a wrong one violates the conditions, is the choice of Outcomes.         *)
(***************************************************************************)
EXTENDS Naturals

CONSTANTS
  x_size,         \* x.size(), the number of sentences
  maxitr,
  ShrinkingSizes, \* the values of the option -H
  Outcomes(_)     \* what can come of parsing a sentence

\* The sentence is parsed right; it is wrong and violates the conditions; it is
\* wrong and does not, or is at its upper bound.
Outcome == {"right", "violates", "wrong"}

USHRT_MAX == 65535
UCHAR_MAX == 255

\* maxitr is the option -m.
ASSUME SizeAssumption == x_size \in Nat /\ maxitr \in Nat

\* learn refuses a shrinking size of 0; the option is an unsigned short.
ASSUME ShrinkingSizesAssumption == ShrinkingSizes \subseteq 1..USHRT_MAX

VARIABLES
  shrinking_size,
  itr, i,       \* the round, and the sentence in it
  shrink,       \* by sentence: an unsigned char
  converge,
  active_set,   \* sentences parsed in this round
  max_kkt_violation, \* 0, or 1 for every value above
  status,       \* "training", "converged", or "stopped" after maxitr rounds
  right         \* history: rounds a sentence was right since it was last taken in

miraVars == <<shrinking_size, itr, i, shrink, converge, active_set, max_kkt_violation, status, right>>

--------------------------------------------------------------------------
Sentences == 0..(x_size - 1)
None      == [s \in Sentences |-> 0]

MIRAInit ==
  /\ shrinking_size \in ShrinkingSizes
  /\ itr = 0 /\ i = 0
  /\ shrink = None /\ right = None
  /\ converge = 0 /\ active_set = 0 /\ max_kkt_violation = 0
  /\ status = IF maxitr > 0 THEN "training" ELSE "stopped"

Training == status = "training" /\ i < x_size

LeftOut(s) == shrink[s] >= shrinking_size

Skip ==
  /\ Training /\ LeftOut(i)
  /\ i' = i + 1
  /\ UNCHANGED <<shrinking_size, itr, shrink, converge, active_set, max_kkt_violation, status, right>>

Parse(outcome) ==
  /\ Training /\ ~LeftOut(i) /\ outcome \in Outcomes(i)
  /\ active_set' = active_set + 1
  /\ i' = i + 1
  /\ UNCHANGED <<shrinking_size, itr, converge, status>>

ParseRight ==
  /\ Parse("right")
  /\ shrink' = [shrink EXCEPT ![i] = (@ + 1) % (UCHAR_MAX + 1)]
  /\ right' = [right EXCEPT ![i] = @ + 1]
  /\ UNCHANGED max_kkt_violation

\* Mutant of ParseWrong: the count goes on.
ParseWrongCounting ==
  /\ \/ Parse("wrong") /\ UNCHANGED max_kkt_violation
     \/ Parse("violates") /\ max_kkt_violation' = 1
  /\ right' = [right EXCEPT ![i] = 0]
  /\ UNCHANGED shrink

ParseWrong ==
  /\ \/ Parse("wrong") /\ UNCHANGED max_kkt_violation
     \/ Parse("violates") /\ max_kkt_violation' = 1
  /\ shrink' = [shrink EXCEPT ![i] = 0]
  /\ right' = [right EXCEPT ![i] = 0]

RoundIsOver == status = "training" /\ i = x_size

\* The loop ends behind its last round, or goes on with the next.
NextRound ==
  /\ itr' = itr + 1
  /\ status' = IF itr + 1 < maxitr THEN "training" ELSE "stopped"
  /\ i' = 0 /\ active_set' = 0 /\ max_kkt_violation' = 0
  /\ UNCHANGED shrinking_size

Violated ==
  /\ RoundIsOver /\ max_kkt_violation > 0
  /\ converge' = 0
  /\ NextRound
  /\ UNCHANGED <<shrink, right>>

\* Mutant of TakeAllIn: those left out stay out.
TakeNobodyIn == UNCHANGED <<shrink, right>>

TakeAllIn == shrink' = None /\ right' = None

Satisfied ==
  /\ RoundIsOver /\ max_kkt_violation = 0
  /\ TakeAllIn
  /\ converge' = converge + 1
  /\ IF converge = 1
       THEN /\ status' = "converged"
            /\ UNCHANGED <<shrinking_size, itr, i, active_set, max_kkt_violation>>
       ELSE NextRound

MIRANext == Skip \/ ParseRight \/ ParseWrong \/ Violated \/ Satisfied

\* A loop that never waits.
MIRASpec == MIRAInit /\ [][MIRANext]_miraVars /\ WF_miraVars(MIRANext)

--------------------------------------------------------------------------
\* The variables of runMIRA keep their types; the count of a sentence is one byte.
MIRATypeOK ==
  /\ shrinking_size \in ShrinkingSizes
  /\ itr \in 0..maxitr /\ i \in 0..x_size
  /\ shrink \in [Sentences -> 0..UCHAR_MAX] /\ right \in [Sentences -> Nat]
  /\ converge \in 0..2 /\ active_set \in 0..i /\ max_kkt_violation \in 0..1
  /\ status \in {"training", "converged", "stopped"}

\* Training converges only on a round that has parsed every sentence, those left
\* out before as well, and has found no violation.
ConvergedOnAll == status = "converged" => active_set = x_size /\ max_kkt_violation = 0

\* A sentence is left out of a round only when it was right in the shrinking_size
\* last rounds that parsed it.
LeftOutIsEarned == \A s \in Sentences : LeftOut(s) => right[s] >= shrinking_size
====
