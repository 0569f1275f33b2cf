------------------------------ MODULE MCIntake ------------------------------
(***************************************************************************)
(* Intake for TLC; IntakeFraming.cfg gives the constants their values.     *)
(***************************************************************************)
EXTENDS Intake

=============================================================================
