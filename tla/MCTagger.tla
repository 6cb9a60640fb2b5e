---- MODULE MCTagger ----
(***************************************************************************)
(* Tagger with two labels and two words.                                   *)
(***************************************************************************)
EXTENDS Tagger

MCWords == {"a", "b"}

MCTexts     == {<<"a", "b", "a">>, <<"b", "b">>}
MCPenalties == {[i |-> 2, y |-> 1, p |-> -4]}

MCNodeScore ==
  [index \in Indexes |-> [w \in MCWords |-> [y \in 0..1 |->
     CASE index = "own" /\ w = "a" -> IF y = 0 THEN 3 ELSE 1
       [] index = "own"            -> IF y = 0 THEN -2 ELSE 2
       [] OTHER                    -> IF y = 0 THEN 1 ELSE 2]]]

MCPathScore ==
  [index \in Indexes |-> [w \in MCWords |-> [l \in 0..1 |-> [y \in 0..1 |->
     IF index = "own" THEN IF l = y THEN 0 ELSE IF w = "a" THEN 5 ELSE -1
     ELSE l - 3 * y]]]]
====
