--------------------------- MODULE MCAuthManager ---------------------------
(* AuthManager for TLC. *)
EXTENDS AuthManager
=============================================================================
