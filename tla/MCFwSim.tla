------------------------------ MODULE MCFwSim ------------------------------
(***************************************************************************)
(* Model-checking instance of FwSim.  The script has the commands of       *)
(* prvDiagnosticsTask that change something, in their order, but for       *)
(* "fault none" (the reset clears the fault mode), its second "stats" and  *)
(* one command that prints a copy.                                         *)
(***************************************************************************)
EXTENDS FwSim

MCScript == <<"sensor", "overflow", "stats", "stall", "show", "reset">>
============================================================================
