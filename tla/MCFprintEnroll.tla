-------------------------- MODULE MCFprintEnroll --------------------------
(* FprintEnroll for TLC. *)
EXTENDS FprintEnroll
=============================================================================
