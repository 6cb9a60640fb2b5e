---- MODULE MCLBFGS ----
(***************************************************************************)
(* LBFGS with rings of three slots and line searches of up to four calls.  *)
(***************************************************************************)
EXTENDS LBFGS
====
