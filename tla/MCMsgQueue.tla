----------------------------- MODULE MCMsgQueue -----------------------------
(***************************************************************************)
(* Model-checking instance of MsgQueue: the constants are model values     *)
(* given in the configurations.  The simulator's two queues have one       *)
(* producer and one consumer each; the instance has two consumers, one of  *)
(* them without a timeout, because queue.c does not know its callers.      *)
(***************************************************************************)
EXTENDS MsgQueue
=============================================================================
