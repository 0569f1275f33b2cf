---------------------------- MODULE MCEventLoop -----------------------------
(***************************************************************************)
(* EventLoop for TLC; the configurations Loop*.cfg give the constants      *)
(* their values.                                                           *)
(***************************************************************************)
EXTENDS EventLoop

=============================================================================
