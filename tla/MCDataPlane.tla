----------------------------- MODULE MCDataPlane -----------------------------
(* DataPlane and its history with small sets for TLC. *)
EXTENDS RulesetHistory
=============================================================================
