---------------------------- MODULE MCLifecycle -----------------------------
(***************************************************************************)
(* Lifecycle for TLC; LifecycleStops.cfg gives the constants their values. *)
(***************************************************************************)
EXTENDS Lifecycle

=============================================================================
