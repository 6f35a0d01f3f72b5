---------------------------- MODULE MCFleetPage ----------------------------
(* FleetPage for TLC. *)
EXTENDS FleetPage
=============================================================================
