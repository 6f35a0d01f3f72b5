------------------------------ MODULE MCAgent ------------------------------
(* Agent for TLC: one or two versions, as model values. *)
EXTENDS Agent

CONSTANTS v1, v2
=============================================================================
