----------------------------- MODULE MCHostSim -----------------------------
(***************************************************************************)
(* Model-checking instance of HostSim: the constants are given in the      *)
(* configurations.                                                         *)
(***************************************************************************)
EXTENDS HostSim
============================================================================
