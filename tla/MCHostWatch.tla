---------------------------- MODULE MCHostWatch ----------------------------
(***************************************************************************)
(* Model-checking instance of HostWatch: the constants of HostWatch.cfg.   *)
(***************************************************************************)
EXTENDS HostWatch
=============================================================================
