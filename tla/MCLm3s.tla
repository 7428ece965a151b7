------------------------------- MODULE MCLm3s -------------------------------
(***************************************************************************)
(* Model-checking instance of Lm3s: the constants of Lm3s.cfg.             *)
(***************************************************************************)
EXTENDS Lm3s
=============================================================================
