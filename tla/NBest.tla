---- MODULE NBest ----
(***************************************************************************)
(* What the N-best search of a tagger promises: asked for the labellings   *)
(* of a sentence, it first knows a cheapest one, and then gives them one   *)
(* by one, each once, a cheapest of those left each time, until there is   *)
(* none left.                                                              *)
(***************************************************************************)
EXTENDS Integers, Sequences, Functions

VARIABLES
  costs,      \* by labelling: its cost; nothing before there is a sentence
  result, cost,
  given,      \* the labellings given so far
  found       \* whether the last call found one

vars == <<costs, result, cost, given, found>>

Cheapest(S, c) == {l \in S : \A m \in S : c[l] <= c[m]}
Left           == DOMAIN costs \ Range(given)

Init == costs = <<>> /\ result = <<>> /\ cost = 0 /\ given = <<>> /\ found = TRUE

Forget == costs' = <<>> /\ result' = <<>> /\ cost' = 0 /\ given' = <<>> /\ UNCHANGED found

Ask ==
  /\ costs = <<>> /\ DOMAIN costs' # {}
  /\ result' \in Cheapest(DOMAIN costs', costs') /\ cost' = costs'[result']
  /\ given' = <<>> /\ UNCHANGED found

Give ==
  /\ costs # <<>>
  /\ result' \in Cheapest(Left, costs) /\ cost' = costs[result']
  /\ given' = Append(given, result')
  /\ found' = TRUE /\ UNCHANGED costs

Refuse == costs # <<>> /\ Left = {} /\ found' = FALSE /\ UNCHANGED <<costs, result, cost, given>>

Spec == Init /\ [][Forget \/ Ask \/ Give \/ Refuse]_vars
====
