---------------------------- MODULE MCFlagSystem -----------------------------
(* FlagSystem with small sets for TLC. *)
EXTENDS FlagSystem
=============================================================================
