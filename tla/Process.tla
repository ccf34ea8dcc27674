------------------------------ MODULE Process ------------------------------
(***************************************************************************)
(* What the registry's callers and the servers of one process share.       *)
(***************************************************************************)
VARIABLES
  up,              \* the process is running, its registry loaded
  ctxDone          \* the root context is cancelled
=============================================================================
