---- MODULE MCTestTraining ----
(***************************************************************************)
(* CRFTraining on every training file of up to MaxSentences sentences.     *)
(***************************************************************************)
EXTENDS CRFTraining

CONSTANTS MaxSentences

MCCorpora == UNION {[1..n -> Kinds] : n \in 0..MaxSentences}
====
