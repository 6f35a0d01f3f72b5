--------------------------- MODULE MCUpdatesPage ---------------------------
(* UpdatesPage for TLC: the two channels of the page. *)
EXTENDS UpdatesPage
=============================================================================
