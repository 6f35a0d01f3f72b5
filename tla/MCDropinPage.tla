---------------------------- MODULE MCDropinPage ----------------------------
(* DropinPage for TLC: an account with a rule, and one named by number. *)
EXTENDS DropinPage

CONSTANTS s1, s2, alice, uid

OneRule == <<alice>>
=============================================================================
