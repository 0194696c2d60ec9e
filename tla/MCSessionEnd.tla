------------------------------ MODULE MCSessionEnd ------------------------------
(* The instance of SessionEnd for TLC needs no definitions of its own. *)
EXTENDS SessionEnd
=============================================================================
