---------------------------- MODULE RulesetHistory ----------------------------
(***************************************************************************)
(* DataPlane with two history variables, which record what its rulesets    *)
(* are to be compared with and do not influence it: the states each        *)
(* environment's tables have been in, and which of the loads under way     *)
(* have had nothing in their way.                                          *)
(***************************************************************************)
EXTENDS DataPlane

VARIABLES
  past,   \* environment -> every state its tables have had, the present one last
  clean   \* the threads whose load began with nothing stale in flight and has
          \* since seen neither the tables change nor anything fail

historyVars == <<vars, past, clean>>

(* What a load in state t has read, it would read now. *)
InFlightCurrent(t) ==
  /\ t.pc = "segments" => t.rows = Committed(Flags, t.env)
  /\ t.pc = "install" => t.rows = Current(t.env)

NothingStale == \A l \in Loaders : InFlightCurrent(loader[l])

HistoryInit ==
  /\ Init
  /\ past = [e \in Environments |-> <<Current(e)>>]
  /\ clean = {}

Remember ==
  past' = [e \in Environments |->
             IF Current(e)' = Current(e) THEN past[e] ELSE Append(past[e], Current(e)')]

Undisturbed == UNCHANGED <<environments, configs, faults>>

Follow ==
  clean' = {l \in Loaders :
              /\ Undisturbed
              /\ loader'[l].pc # "idle"
              /\ l \in clean \/ (loader[l].pc = "idle" /\ NothingStale)}

HistoryNext == Next /\ Remember /\ Follow

HistorySpec == HistoryInit /\ [][HistoryNext]_historyVars /\ DataPlaneFairness

-----------------------------------------------------------------------------

(* What the SDKs have been sent: before the first put a stream has none. *)
Deliveries ==
  [c \in Clients |-> [env |-> stream[c].env,
                      put |-> IF stream[c].last = -1 THEN None ELSE stream[c].put]]

Cache == INSTANCE RulesetCache WITH view <- store, sent <- Deliveries

(***************************************************************************)
(* The process keeps RulesetCache's promise: whatever the three threads    *)
(* and the streams interleave, what it holds joins two states its tables   *)
(* were really in, in the order of the two queries, and what it sends is   *)
(* what it holds (store.go:71-77,82-170, server.go:91-108).                *)
(***************************************************************************)
KeepsCachePromise == Cache!CacheSpec

(***************************************************************************)
(* "The reload poll above covers any missed notification" (main.go:78):    *)
(* one load suffices.  When LoadAll has gone through the environments it   *)
(* listed, no query of an earlier state being under way when it began and  *)
(* nothing changing or failing meanwhile, the store holds what the tables  *)
(* hold of every environment, although the other two threads may have been *)
(* loading beside it and rulesets of an equal version were skipped         *)
(* (store.go:51-81).                                                       *)
(***************************************************************************)
CleanLoadCatchesUp ==
  \A l \in clean :
    (loader[l].pc = "next" /\ loader[l].todo = {}) =>
      \A e \in environments : UpToDate(e)
=============================================================================
