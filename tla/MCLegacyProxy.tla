---------------------------- MODULE MCLegacyProxy ----------------------------
(* Instances of LegacyProxy for TLC. *)
EXTENDS LegacyProxy

MCLevels == {-3}
=============================================================================
