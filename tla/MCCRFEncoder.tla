---- MODULE MCCRFEncoder ----
(***************************************************************************)
(* CRFEncoder on every training file of up to MaxSentences sentences,      *)
(* empty and unreadable ones among them.                                   *)
(***************************************************************************)
EXTENDS CRFEncoder

CONSTANTS MaxSentences

MCCorpora == UNION {[1..n -> Kinds] : n \in 0..MaxSentences}
====
