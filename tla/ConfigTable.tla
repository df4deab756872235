----------------------------- MODULE ConfigTable -----------------------------
(***************************************************************************)
(* What the control plane promises the data plane about the two            *)
(* configuration tables, flag_environment_configs and                      *)
(* segment_environment_configs, and about the flags_changed channel:       *)
(*                                                                         *)
(*  - a row appears with its table's first version, never disappears, and  *)
(*    every change of it raises its version by one (DESIGN.md:150,311);    *)
(*  - every change is signalled once on the channel, with the change       *)
(*    (services/notify.py:4-6);                                            *)
(*  - seeding a new flag's rows is not signalled (api/flags.py:72-88).     *)
(*                                                                         *)
(* ControlPlane implements this module when requests do not overlap, and   *)
(* DataPlane is written against it.  One project is modelled: a row joins  *)
(* a resource and an environment of the same project, so the project_id    *)
(* filters of the queries never exclude a row.                             *)
(***************************************************************************)
EXTENDS Integers, Sequences, FiniteSets

CONSTANTS
  Flags,          \* flags that may be created
  Segments,       \* segments that may be created
  Environments,   \* environments that may be created
  Contents,       \* what a row's targeting columns may hold
  DefaultContent, \* the columns' defaults (models/flag.py:53-58)
  MaxChanges      \* bound: changes signalled in one behaviour

ASSUME TableAssumption ==
  /\ Flags \cap Segments = {}
  /\ IsFiniteSet(Flags \cup Segments)
  /\ DefaultContent \in Contents
  /\ MaxChanges \in Nat

VARIABLES
  environments,  \* the rows of the environments table
  configs,       \* both config tables: <<resource, environment>> -> row or NoRow
  flags_changed  \* every NOTIFY payload, in commit order

tableVars == <<environments, configs, flags_changed>>

-----------------------------------------------------------------------------

Resources == Flags \cup Segments
Keys == Resources \X Environments
Row == [content : Contents, version : Nat]

(* A row that exists has a version of at least 1; version 0 means no row. *)
NoRow == [content |-> DefaultContent, version |-> 0]
SeedRow == [content |-> DefaultContent, version |-> 1]

Exists(k) == configs[k].version # 0

TableTypeOK ==
  /\ environments \subseteq Environments
  /\ configs \in [Keys -> Row]
  /\ flags_changed \in Seq(Environments)

TableInit ==
  /\ environments = {}
  /\ configs = [k \in Keys |-> NoRow]
  /\ flags_changed = <<>>

AddEnvironment(e) ==
  /\ e \notin environments
  /\ environments' = environments \cup {e}
  /\ UNCHANGED <<configs, flags_changed>>

(* A flag starts with a default row in the environments its creator saw. *)
Seed(f, envs) ==
  /\ \A e \in Environments : ~Exists(<<f, e>>)
  /\ configs' = [k \in Keys |-> IF k \in {f} \X envs THEN SeedRow ELSE configs[k]]
  /\ UNCHANGED <<environments, flags_changed>>

(* A flag's row must exist to be changed; a segment's is created on demand. *)
Change(r, e, content) ==
  /\ Len(flags_changed) < MaxChanges
  /\ r \in Segments \/ Exists(<<r, e>>)
  /\ configs' = [configs EXCEPT ![<<r, e>>] =
                   [content |-> content, version |-> @.version + 1]]
  /\ flags_changed' = Append(flags_changed, e)
  /\ UNCHANGED environments

TableNext ==
  \/ \E e \in Environments : AddEnvironment(e)
  \/ \E f \in Flags, envs \in SUBSET environments : Seed(f, envs)
  \/ \E r \in Resources, e \in environments, content \in Contents :
        Change(r, e, content)

TableSpec == TableInit /\ [][TableNext]_tableVars
=============================================================================
