----------------------------- MODULE KeyRegistry -----------------------------
(***************************************************************************)
(* What SDK keys promise to whoever issues and revokes them: a key is      *)
(* issued once and revoked for good, and only a valid key gets anyone in.  *)
(* Who is in stays in when the key is revoked.  Credentials implements it. *)
(***************************************************************************)
CONSTANTS Keys, Clients

VARIABLES
  status,   \* key -> how far it has come
  users     \* key -> the clients that were let in with it and have not left

registryVars == <<status, users>>

RegistryTypeOK ==
  /\ status \in [Keys -> {"unissued", "valid", "revoked"}]
  /\ users \in [Keys -> SUBSET Clients]

RegistryInit ==
  /\ status = [k \in Keys |-> "unissued"]
  /\ users = [k \in Keys |-> {}]

Issue(k) ==
  /\ status[k] = "unissued"
  /\ status' = [status EXCEPT ![k] = "valid"]
  /\ UNCHANGED users

Revoke(k) ==
  /\ status[k] = "valid"
  /\ status' = [status EXCEPT ![k] = "revoked"]
  /\ UNCHANGED users

Admit(c, k) ==
  /\ status[k] = "valid"
  /\ \A j \in Keys : c \notin users[j]
  /\ users' = [users EXCEPT ![k] = @ \cup {c}]
  /\ UNCHANGED status

Leave(c, k) ==
  /\ c \in users[k]
  /\ users' = [users EXCEPT ![k] = @ \ {c}]
  /\ UNCHANGED status

RegistryNext ==
  \/ \E k \in Keys : Issue(k) \/ Revoke(k)
  \/ \E k \in Keys, c \in Clients : Admit(c, k) \/ Leave(c, k)

RegistrySpec == RegistryInit /\ [][RegistryNext]_registryVars
=============================================================================
