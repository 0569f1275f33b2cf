------------------------------ MODULE MCDaemon ------------------------------
(***************************************************************************)
(* Daemon for TLC; the configurations Daemon*.cfg give the constants their *)
(* values.                                                                 *)
(***************************************************************************)
EXTENDS Daemon

=============================================================================
