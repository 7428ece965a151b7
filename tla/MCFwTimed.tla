----------------------------- MODULE MCFwTimed -----------------------------
(***************************************************************************)
(* Model-checking instance of FwTimed: the real capacities and the whole   *)
(* list of commands; "show" is status, tasks, heap or help.                *)
(***************************************************************************)
EXTENDS FwTimed

MCScript == <<"show", "show", "show", "stats", "show", "sensor", "show",
              "overflow", "stats", "stall", "show", "none", "show", "reset", "show">>
=============================================================================
