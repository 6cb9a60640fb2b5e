---- MODULE Tagger ----
(***************************************************************************)
(* TaggerImpl of CRF++ as it tags: a sentence is added word by word, parse *)
(* builds its lattice and finds the best labelling (viterbi), and next     *)
(* gives one labelling after the other, the best first (an A* search from  *)
(* the last word back whose bound is viterbi's).                           *)
(*                                                                         *)
(* The loops of viterbi and next are steps of their own.  Scores are whole *)
(* numbers, and only the sum of the features of a node or a path is there: *)
(* NodeScore and PathScore, by index, word and label.                      *)
(***************************************************************************)
EXTENDS Integers, Sequences, TaggerModel

CONSTANTS
  Words, ysize,
  NodeScore, PathScore,
  Texts,        \* bound: the sentences, which are added word by word
  Penalties,    \* bound: what set_penalty is called with
  MaxNBest      \* bound: the -n of a model

Labels  == 0..(ysize - 1)
Indexes == {"own", "model"}

ASSUME ScoresAssumption ==
  /\ ysize \in Nat \ {0}
  /\ NodeScore \in [Indexes -> [Words -> [Labels -> Int]]]
  /\ PathScore \in [Indexes -> [Words -> [Labels -> [Labels -> Int]]]]
  /\ Texts \subseteq Seq(Words) /\ MaxNBest \in Nat
  /\ Penalties \subseteq [i : Nat, y : Labels, p : Int]

VARIABLES
  x_, penalty_, nbest_,
  result_, cost_,
  lattice,      \* by word: the cost of its nodes, and of the paths into them
  best, prev,   \* by word, as far as viterbi has come: bestCost and prev
  agenda,
  at,           \* where the tagger is: "idle", "viterbi" or "next"
  asked,        \* the agenda is one for this lattice
  found, given  \* what next returned, and the labellings it has given

sentence == <<x_, penalty_, nbest_>>
results  == <<result_, cost_>>
forward  == <<lattice, best, prev>>
search   == <<agenda, asked, found, given>>
vars     == <<models, sentence, results, forward, search, at>>

--------------------------------------------------------------------------
Init ==
  /\ InitModel
  /\ x_ = <<>> /\ penalty_ = <<>> /\ nbest_ \in 0..MaxNBest
  /\ result_ = <<>> /\ cost_ = 0
  /\ lattice = <<>> /\ best = <<>> /\ prev = <<>>
  /\ agenda = {} /\ asked = FALSE /\ found = TRUE /\ given = <<>>
  /\ at = "idle"

\* Another model.  The words and the nodes are in the allocator: when that goes,
\* what the tagger holds of a sentence is stale until it is cleared.
Model ==
  /\ at \in {"idle", "stale"}
  /\ \/ set_model /\ nbest_' \in 0..MaxNBest /\ UNCHANGED <<at, asked>>
     \/ /\ \/ (open \/ openFails) /\ nbest_' \in 0..MaxNBest
           \/ close /\ UNCHANGED nbest_
        /\ at' = "stale" /\ asked' = FALSE
  /\ UNCHANGED <<x_, penalty_, results, forward, agenda, found, given>>

set_nbest ==
  /\ at = "idle" /\ nbest_' \in 0..MaxNBest
  /\ UNCHANGED <<models, x_, penalty_, results, forward, search, at>>

add ==
  /\ at = "idle" /\ Usable
  /\ \E t \in Texts : Len(x_) < Len(t) /\ x_' = SubSeq(t, 1, Len(x_) + 1)
  /\ SubSeq(x_', 1, Len(x_)) = x_
  /\ result_' = Append(result_, 0)
  /\ UNCHANGED <<models, penalty_, nbest_, cost_, forward, search, at>>

\* A row for each word there is, when there is none yet; a word added later has none.
set_penalty ==
  /\ at = "idle"
  /\ LET rows == IF penalty_ = <<>> THEN [i \in DOMAIN x_ |-> [y \in Labels |-> 0]] ELSE penalty_
     IN  \E c \in Penalties : c.i \in DOMAIN rows /\ penalty_' = [rows EXCEPT ![c.i][c.y] = c.p]
  /\ UNCHANGED <<models, x_, nbest_, results, forward, search, at>>

\* The penalties stay, and so does the agenda.
clear ==
  /\ at \in {"idle", "stale"} /\ allocator_
  /\ x_' = <<>> /\ result_' = <<>> /\ cost_' = 0
  /\ lattice' = <<>> /\ best' = <<>> /\ prev' = <<>> /\ given' = <<>>
  /\ at' = "idle" /\ asked' = FALSE
  /\ UNCHANGED <<models, penalty_, nbest_, agenda, found>>

--------------------------------------------------------------------------
\* buildFeatures and buildLattice: the cost of node y of word i, of the path into it
\* from label l of the word before, and the penalty on top.
Node(i, y)    == NodeScore[feature_index_][x_[i]][y] + (IF penalty_ = <<>> THEN 0 ELSE penalty_[i][y])
Path(i, l, y) == PathScore[feature_index_][x_[i]][l][y]

\* The penalties there are must reach to the last word.
parse ==
  /\ at = "idle" /\ Usable /\ x_ # <<>>
  /\ penalty_ = <<>> \/ Len(penalty_) >= Len(x_)
  /\ lattice' = [i \in DOMAIN x_ |->
                   [node |-> [y \in Labels |-> Node(i, y)],
                    path |-> [l \in Labels |-> [y \in Labels |-> Path(i, l, y)]]]]
  /\ best' = <<>> /\ prev' = <<>> /\ given' = <<>>
  /\ asked' = FALSE /\ at' = "viterbi"
  /\ UNCHANGED <<models, sentence, results, agenda, found>>

\* What node y of word i would cost on the best path over label l.
Over(i, l, y) == best[i - 1][l] + lattice[i].path[l][y] + lattice[i].node[y]

\* l is where a loop over the labels that keeps what is strictly better ends.
Leading(l, score) == \A m \in Labels : score[m] <= score[l] /\ (m < l => score[m] < score[l])

\* The next word of viterbi.
Forward ==
  /\ at = "viterbi" /\ Len(best) < Len(lattice)
  /\ LET i == Len(best) + 1
     IN  IF i = 1
         THEN best' = <<lattice[1].node>> /\ prev' = <<[y \in Labels |-> -1]>>
         ELSE LET from == [y \in Labels |-> CHOOSE l \in Labels :
                                              Leading(l, [m \in Labels |-> Over(i, m, y)])]
              IN  /\ best' = Append(best, [y \in Labels |-> Over(i, from[y], y)])
                  /\ prev' = Append(prev, from)
  /\ UNCHANGED <<models, sentence, results, lattice, search, at>>

\* Mutant of Trace: the first word is left out.
TraceToSecond(n, y) ==
  LET trace[k \in 0..(n - 1)] == IF k = 0 THEN y ELSE prev[n - k + 1][trace[k - 1]]
  IN  [i \in 1..(n - 1) |-> trace[n - 1 - i]]

\* The labels that prev leads to from label y of the last word back.
Trace(n, y) ==
  LET trace[k \in 0..(n - 1)] == IF k = 0 THEN y ELSE prev[n - k + 1][trace[k - 1]]
  IN  [i \in 1..n |-> trace[n - i]]

\* The end of a labelling, from its k-th label on; gx is its cost without what comes
\* before, fx what it costs at least.
Element(n, y) ==
  [x |-> n, y |-> [i \in {n} |-> y], gx |-> -lattice[n].node[y], fx |-> -best[n][y]]

\* The rest of viterbi, and initNbest.
Found ==
  /\ at = "viterbi" /\ Len(best) = Len(lattice)
  /\ LET n   == Len(lattice)
         eos == CHOOSE y \in Labels : Leading(y, best[n])
     IN  /\ result_' = Trace(n, eos)
         /\ cost_' = -best[n][eos]
         /\ agenda' = IF nbest_ > 0 THEN {Element(n, y) : y \in Labels} ELSE agenda
  /\ asked' = (nbest_ > 0) /\ at' = "idle"
  /\ UNCHANGED <<models, sentence, forward, found, given>>

--------------------------------------------------------------------------
\* next is called for the lattice the agenda is of.
next ==
  /\ at = "idle" /\ asked
  /\ at' = "next"
  /\ UNCHANGED <<models, sentence, results, forward, search>>

\* Mutant of Top: the order is that of the cost so far, without the bound.
TopSoFar(e) == e \in agenda /\ \A f \in agenda : e.gx <= f.gx

\* The heap has one of the cheapest elements on top.
Top(e) == e \in agenda /\ \A f \in agenda : e.fx <= f.fx

\* Mutant of Longer: the node on the right of the path is taken again.
LongerByRight(e, l) ==
  LET k  == e.x - 1
      r  == e.y[e.x]
      gx == -lattice[e.x].path[l][r] + e.gx
  IN  [x  |-> k, y |-> [i \in k..Len(lattice) |-> IF i = k THEN r ELSE e.y[i]],
       gx |-> -lattice[k].node[r] + gx, fx |-> -best[k][r] + gx]

\* e with label l in front.
Longer(e, l) ==
  LET k  == e.x - 1
      gx == -lattice[e.x].path[l][e.y[e.x]] + e.gx
  IN  [x  |-> k, y |-> [i \in k..Len(lattice) |-> IF i = k THEN l ELSE e.y[i]],
       gx |-> -lattice[k].node[l] + gx, fx |-> -best[k][l] + gx]

Expand ==
  /\ at = "next"
  /\ \E e \in agenda : /\ Top(e) /\ e.x > 1
                       /\ agenda' = (agenda \ {e}) \cup {Longer(e, l) : l \in Labels}
  /\ UNCHANGED <<models, sentence, results, forward, asked, found, given, at>>

\* The labelling is written over the labels of the words there were.
Report ==
  /\ at = "next"
  /\ \E e \in agenda :
       /\ Top(e) /\ e.x = 1
       /\ agenda' = agenda \ {e}
       /\ result_' = [i \in DOMAIN result_ |-> IF i <= Len(lattice) THEN e.y[i] ELSE result_[i]]
       /\ cost_' = e.gx
       /\ given' = Append(given, e.y)
  /\ found' = TRUE /\ at' = "idle"
  /\ UNCHANGED <<models, sentence, forward, asked>>

Exhausted ==
  /\ at = "next" /\ agenda = {}
  /\ found' = FALSE /\ at' = "idle"
  /\ UNCHANGED <<models, sentence, results, forward, agenda, asked, given>>

Calls == Model \/ set_nbest \/ add \/ set_penalty \/ clear \/ parse \/ next

\* Mutant of Steps: next does not return from an empty agenda.
StepsButExhausted == Forward \/ Found \/ Expand \/ Report

Steps == Forward \/ Found \/ Expand \/ Report \/ Exhausted
Next  == Calls \/ Steps

\* A call that has begun goes on; none need be made.
Spec == Init /\ [][Next]_vars /\ WF_vars(Steps)

--------------------------------------------------------------------------
Labellings == [DOMAIN lattice -> Labels]

\* The variables keep their types; what is of the sentence, of the lattice and of
\* the search has the length of what it is of.
TypeOK ==
  /\ x_ \in Seq(Words) /\ result_ \in Seq(Labels) /\ Len(result_) = Len(x_)
  /\ penalty_ \in Seq([Labels -> Int])
  /\ nbest_ \in 0..MaxNBest /\ cost_ \in Int
  /\ lattice \in Seq([node : [Labels -> Int], path : [Labels -> [Labels -> Int]]])
  /\ best \in Seq([Labels -> Int]) /\ Len(prev) = Len(best) /\ Len(best) <= Len(lattice)
  /\ at # "viterbi" => Len(best) = Len(lattice)
  /\ asked => \A e \in agenda : e.x \in DOMAIN lattice /\ e.y \in [e.x..Len(lattice) -> Labels]
                                /\ e.gx \in Int /\ e.fx \in Int
  /\ given \in Seq(Labellings) /\ found \in BOOLEAN
  /\ at \in {"idle", "stale", "viterbi", "next"}

\* e is the end of labelling l.
Ends(e, l) == \A i \in e.x..Len(lattice) : e.y[i] = l[i]

\* While next has been or can be called, a labelling has been given or the end of it
\* waits in the agenda, one end and not both: none is lost when the search is left
\* and gone on with, and none comes twice.
NoneIsLost ==
  asked => \A l \in Labellings :
    IF \E i \in DOMAIN given : given[i] = l
    THEN ~\E e \in agenda : Ends(e, l)
    ELSE \E e \in agenda : Ends(e, l) /\ \A f \in agenda : Ends(f, l) => f = e

\* The cost of a labelling: its nodes and paths, penalties included.
Cost(l) ==
  LET score[i \in 0..Len(lattice)] ==
        IF i = 0 THEN 0
        ELSE score[i - 1] + lattice[i].node[l[i]]
             + (IF i = 1 THEN 0 ELSE lattice[i].path[l[i - 1]][l[i]])
  IN  -score[Len(lattice)]

Parsed == lattice # <<>> /\ at # "viterbi"

NBestSearch == INSTANCE NBest WITH
  costs  <- IF Parsed THEN [l \in Labellings |-> Cost(l)] ELSE <<>>,
  result <- IF Parsed THEN [i \in DOMAIN lattice |-> result_[i]] ELSE <<>>,
  cost   <- IF Parsed THEN cost_ ELSE 0

\* viterbi finds a cheapest labelling and next the others in the order of their
\* costs, each once, with its cost; it finds none only when all have been given.  In
\* between words may be added and penalties, models and the N of -n changed.
ImplementsNBest == NBestSearch!Spec

\* parse and next come to an end.
Returns == (at \in {"viterbi", "next"}) ~> (at = "idle")
====
