---------------------------- MODULE MCConfigSave ----------------------------
(* ConfigSave for TLC: the values of its constants. *)
EXTENDS ConfigSave, TLC

CONSTANTS s1, s2, s3, e1

Symmetry == Permutations(Saves)
=============================================================================
