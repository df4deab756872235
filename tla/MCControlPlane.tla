--------------------------- MODULE MCControlPlane ----------------------------
(* ControlPlane with small sets for TLC. *)
EXTENDS ControlPlane
=============================================================================
