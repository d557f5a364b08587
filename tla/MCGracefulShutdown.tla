------------------------- MODULE MCGracefulShutdown -------------------------
(* Three requests at a time on a pool that starts with one connection and  *)
(* may have two, so that two of them can open one past the limit; four are *)
(* opened in a run at most.                                                *)
EXTENDS GracefulShutdown
=============================================================================
