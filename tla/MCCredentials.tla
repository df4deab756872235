---------------------------- MODULE MCCredentials ----------------------------
(* Credentials with small sets for TLC. *)
EXTENDS Credentials
=============================================================================
