----------------------------- MODULE RulesetCache -----------------------------
(***************************************************************************)
(* What the data plane promises of the rulesets it serves, in terms of the *)
(* states the tables have been in and of nothing else: no versions, no     *)
(* loads, no threads.                                                      *)
(*                                                                         *)
(*  - a ruleset it comes to hold of an environment joins the flag rows of  *)
(*    one state of that environment's tables with the segment rows of the  *)
(*    same or a later state; rows are missing only if a connection failed; *)
(*  - what an SDK is sent, when it connects and later, is the ruleset held *)
(*    at that moment, whole;                                               *)
(*  - the process forgets a ruleset only with all the others and all its   *)
(*    connections.                                                         *)
(*                                                                         *)
(* It does not promise that rulesets only get newer: they may not.         *)
(* DataPlane implements it (RulesetHistory).                               *)
(***************************************************************************)
EXTENDS Integers, Sequences

CONSTANTS Flags, Segments, Environments, Clients, None,
          NoRow  \* what a ruleset has for a resource it has no row of

VARIABLES
  past,   \* environment -> every state its tables have had, the present one last
  view,   \* environment -> the ruleset held of it, None if there is none
  sent,   \* client -> its environment and the ruleset it was sent last
  faults  \* how often the process or a connection has failed

cacheVars == <<past, view, sent, faults>>

NotLoaded == [e \in Environments |-> None]
NobodyThere == [c \in Clients |-> [env |-> None, put |-> None]]

CacheInit ==
  /\ past = [e \in Environments |-> <<[r \in Flags \cup Segments |-> NoRow]>>]
  /\ view = NotLoaded
  /\ sent = NobodyThere
  /\ faults = 0

(* What a query for the resources R may have yielded when they were in state. *)
Read(R, state, rs) ==
  \A r \in R : rs[r] = state[r] \/ (faults > 0 /\ rs[r] = NoRow)

(* The query for the segments comes after the one for the flags. *)
Readable(e, rs) ==
  \E i, j \in 1..Len(past[e]) :
    /\ i <= j
    /\ Read(Flags, past[e][i], rs)
    /\ Read(Segments, past[e][j], rs)

TablesChange ==
  /\ DOMAIN past' = Environments
  /\ \A e \in Environments :
       \/ past'[e] = past[e]
       \/ past'[e] = Append(past[e], past'[e][Len(past'[e])])
  /\ UNCHANGED <<view, sent, faults>>

Hold(e) ==
  /\ view'[e] # None
  /\ view' = [view EXCEPT ![e] = view'[e]]
  /\ Readable(e, view'[e])
  /\ UNCHANGED <<past, sent, faults>>

Attach(c, e) ==
  /\ sent[c].env = None
  /\ sent' = [sent EXCEPT ![c] = [env |-> e, put |-> view[e]]]
  /\ UNCHANGED <<past, view, faults>>

Push(c) ==
  /\ sent[c].env # None
  /\ sent' = [sent EXCEPT ![c].put = view[sent[c].env]]
  /\ UNCHANGED <<past, view, faults>>

Detach(c) ==
  /\ sent' = [sent EXCEPT ![c] = [env |-> None, put |-> None]]
  /\ UNCHANGED <<past, view, faults>>

Fault ==
  /\ faults' = faults + 1
  /\ UNCHANGED <<past, view, sent>>

Lose ==
  /\ faults' \in {faults, faults + 1}
  /\ view' = NotLoaded
  /\ sent' = NobodyThere
  /\ UNCHANGED past

CacheNext ==
  \/ TablesChange
  \/ \E e \in Environments : Hold(e)
  \/ \E c \in Clients : \/ \E e \in Environments : Attach(c, e)
                        \/ Push(c)
                        \/ Detach(c)
  \/ Fault
  \/ Lose

CacheSpec == CacheInit /\ [][CacheNext]_cacheVars
=============================================================================
