-------------------------- MODULE MCClientLibrary ---------------------------
(***************************************************************************)
(* ClientLibrary for TLC; LibraryCalls.cfg gives the constants their       *)
(* values.                                                                 *)
(***************************************************************************)
EXTENDS ClientLibrary

=============================================================================
