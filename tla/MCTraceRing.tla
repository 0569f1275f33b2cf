---------------------------- MODULE MCTraceRing -----------------------------
(***************************************************************************)
(* TraceRing for TLC; TraceFollow.cfg gives the constants their values.    *)
(***************************************************************************)
EXTENDS TraceRing

\* One number more than there are events, for a cursor ahead of the trace.
CursorValues == 0 .. MaxEvents + 1

=============================================================================
