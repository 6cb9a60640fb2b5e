---- MODULE Request ----
(***************************************************************************)
(* What GeneralParser.parse is called with, and hands to each parser.      *)
(***************************************************************************)
VARIABLE text
====
