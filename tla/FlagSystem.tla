------------------------------ MODULE FlagSystem ------------------------------
(***************************************************************************)
(* The whole system: the control plane's requests write the tables and the *)
(* channel, the data plane's loaders and streams read them.  ControlPlane  *)
(* replaces ConfigTable's promise by what the handlers do.                 *)
(***************************************************************************)
EXTENDS Integers, Sequences, FiniteSets

CONSTANTS
  Workers, Project, Flags, Segments, Environments, Columns, Values, DefaultValue,
  NotifyBackend, MaxCommits,      \* the control plane's
  Clients, Undecodable, MaxFaults, \* the data plane's
  None

VARIABLES
  environments, configs, flags_changed,         \* shared through PostgreSQL
  projects, flags, segments, audit_log, txn,    \* the control plane's
  process, store, loader, listening, heard, stream, faults  \* the data plane's

CP == INSTANCE ControlPlane
DP == INSTANCE DataPlane WITH
        Contents <- CP!Contents,
        DefaultContent <- CP!DefaultContent,
        MaxChanges <- MaxCommits

ASSUME FlagSystemAssumption ==
  /\ Flags \cap Segments = {}
  /\ Flags \cap Environments = {}
  /\ Segments \cap Environments = {}
  /\ IsFiniteSet(Flags \cup Segments)
  /\ IsFiniteSet(Workers)
  /\ Project \notin Flags \cup Segments \cup Environments
  /\ None \notin Environments \cup DP!Rulesets
  /\ DefaultValue \in Values
  /\ Undecodable \subseteq CP!Contents \ {CP!DefaultContent}
  /\ NotifyBackend \in {"postgres", "log"}
  /\ MaxCommits \in Nat
  /\ MaxFaults \in Nat

controlPlaneVars ==
  <<environments, configs, flags_changed, projects, flags, segments, audit_log, txn>>
dataPlaneVars == <<process, store, loader, listening, heard, stream, faults>>
vars == <<controlPlaneVars, dataPlaneVars>>

Init == CP!Init /\ DP!Init

ControlPlaneStep ==
  /\ \E w \in Workers : CP!Step(w)
  /\ UNCHANGED dataPlaneVars

DataPlaneStep ==
  /\ DP!DataPlaneNext
  /\ UNCHANGED controlPlaneVars

Next == ControlPlaneStep \/ DataPlaneStep

Fairness ==
  /\ \A w \in Workers : SF_vars(CP!Finish(w) /\ UNCHANGED dataPlaneVars)
  /\ \A l \in DP!Loaders : WF_vars(DP!LoadStep(l) /\ UNCHANGED controlPlaneVars)
  /\ \A c \in Clients : WF_vars(DP!Tick(c) /\ UNCHANGED controlPlaneVars)

Spec == Init /\ [][Next]_vars /\ Fairness

-----------------------------------------------------------------------------

TypeOK == CP!TypeOK /\ DP!TypeOK

(* No two PUTs of one row overlap; whatever else does, may. *)
Apart == CP!Apart

(***************************************************************************)
(* Meanwhile the handlers, whatever the data plane does beside them, keep  *)
(* the promise it is written against (ConfigTable).                        *)
(***************************************************************************)
KeepsTablePromise == CP!KeepsTablePromise

(***************************************************************************)
(* What the data plane proves from ConfigTable's promise holds against the *)
(* handlers themselves, while PUTs of one row do not overlap: the rulesets *)
(* held lag the tables, and a skipped install or send withholds no change  *)
(* (store.go:73, server.go:93).                                            *)
(***************************************************************************)
HeldRowsBehind == DP!HeldRowsBehind
VersionIdentifiesRuleset == DP!VersionIdentifiesRuleset

(***************************************************************************)
(* The system's purpose: once nobody edits, every environment is served    *)
(* with what its last edits left in the tables.  It rests on an aggregate  *)
(* "version" that "changes when any config changes" (store.go:18).         *)
(***************************************************************************)
EditsReachStore == DP!StoreConverges

(* ... and so are the SDKs that stay connected. *)
EditsReachStreams == DP!StreamsConverge
=============================================================================
