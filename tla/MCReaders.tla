------------------------------ MODULE MCReaders ------------------------------
(* All pages of PageTable, with what AskedOnce assumes of them, for TLC. *)
EXTENDS PageTable, AskedOnce
=============================================================================
