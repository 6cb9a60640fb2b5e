---- MODULE MCMIRA ----
(***************************************************************************)
(* MIRA with every outcome for every sentence.                             *)
(***************************************************************************)
EXTENDS MIRA

AnyOutcome(s) == Outcome
====
