--------------------------- MODULE FlagSystemProofs ---------------------------
(***************************************************************************)
(* Proofs about the whole system, from those about its two halves: while   *)
(* no two PUTs of one row overlap the control plane keeps ConfigTable's    *)
(* promise, from which the data plane's invariant follows.                 *)
(***************************************************************************)
EXTENDS FlagSystem, TLAPS

CPP == INSTANCE TablePromiseProofs
DPP == INSTANCE DataPlaneProofs WITH
         Contents <- CP!Contents,
         DefaultContent <- CP!DefaultContent,
         MaxChanges <- MaxCommits

-----------------------------------------------------------------------------
(* The assumptions of the two halves *)

LEMMA SameCardinality ==
  \A S : /\ CP!Cardinality(S) = CPP!Cardinality(S)
         /\ DP!Cardinality(S) = DPP!Cardinality(S)
BY DEF CP!Cardinality, CPP!Cardinality, DP!Cardinality, DPP!Cardinality

LEMMA ControlPlaneInvariants ==
  /\ CPP!Init => CPP!IInv /\ CPP!Bounds /\ CPP!Knowledge
  /\ CPP!IInv /\ [CPP!Next]_CPP!vars => CPP!IInv'
  /\ CPP!IInv /\ CPP!Bounds /\ [CPP!Next]_CPP!vars => CPP!Bounds'
  /\ CPP!IInv /\ CPP!Knowledge /\ CPP!Apart /\ [CPP!Next]_CPP!vars => CPP!Knowledge'
<1>. USE FlagSystemAssumption DEF IsFiniteSet, CPP!IsFiniteSet
<1>1. CPP!Init => CPP!IInv /\ CPP!Bounds /\ CPP!Knowledge
  BY CPP!InitIInv, CPP!TableStart
<1>2. CPP!IInv /\ [CPP!Next]_CPP!vars => CPP!IInv'
  BY CPP!NextIInv
<1>3. CPP!IInv /\ CPP!Bounds /\ [CPP!Next]_CPP!vars => CPP!Bounds'
  BY CPP!NextBounds
<1>4. CPP!IInv /\ CPP!Knowledge /\ CPP!Apart /\ [CPP!Next]_CPP!vars => CPP!Knowledge'
  BY CPP!NextKnowledge
<1>. QED BY <1>1, <1>2, <1>3, <1>4

LEMMA DataPlaneInvariant ==
  /\ DPP!Init => DPP!IInv
  /\ DPP!IInv /\ [DPP!Next]_DPP!vars => DPP!IInv'
  /\ DPP!IInv => DPP!VersionIdentifiesRuleset
<1>. USE FlagSystemAssumption
     DEF IsFiniteSet, DPP!IsFiniteSet, CP!Contents, CP!DefaultContent, DPP!Rulesets,
         DP!Rulesets, DPP!Row, DP!Row, DPP!Resources, DP!Resources
<1>1. DPP!Init => DPP!IInv
  BY DPP!InitIInv
<1>2. DPP!IInv /\ [DPP!Next]_DPP!vars => DPP!IInv'
  BY DPP!NextIInv
<1>3. DPP!IInv => DPP!VersionIdentifiesRuleset
  BY DPP!VersionsIdentify
<1>. QED BY <1>1, <1>2, <1>3

-----------------------------------------------------------------------------
(* FlagSystem's instances and those of the proofs say the same. *)

LEMMA SameInit == Init => CPP!Init /\ DPP!Init
BY DEF Init, CP!Init, CPP!Init, DP!Init, DPP!Init,
       CP!Keys, CPP!Keys, CP!Resources, CPP!Resources, CP!NoRow, CPP!NoRow,
       CP!DefaultContent, CPP!DefaultContent, CP!Idle, CPP!Idle,
       DP!TableInit, DPP!TableInit, DP!Keys, DPP!Keys, DP!Resources, DPP!Resources,
       DP!NoRow, DPP!NoRow, DP!NoRows, DPP!NoRows, DP!IdleLoader, DPP!IdleLoader,
       DP!Closed, DPP!Closed, DP!Loaders, DPP!Loaders

LEMMA SameRoom == CP!HasRoom <=> CPP!HasRoom
BY SameCardinality DEF CP!HasRoom, CPP!HasRoom, CP!Open, CPP!Open

LEMMA SameNames ==
  /\ CP!Idle = CPP!Idle
  /\ CP!Updates = CPP!Updates
  /\ CP!SeedRow = CPP!SeedRow
  /\ CP!Keys = CPP!Keys
  /\ CP!Contents = CPP!Contents
  /\ \A k : CP!Exists(k) <=> CPP!Exists(k)
BY DEF CP!Idle, CPP!Idle, CP!Updates, CPP!Updates, CP!SeedRow, CPP!SeedRow,
       CP!Keys, CPP!Keys, CP!Resources, CPP!Resources, CP!Contents, CPP!Contents,
       CP!DefaultContent, CPP!DefaultContent, CP!NoRow, CPP!NoRow, CP!Exists, CPP!Exists

(* What a PUT writes, records and signals *)
LEMMA SameWrite ==
  \A t : /\ CP!Key(t) = CPP!Key(t)
         /\ CP!IsInsert(t) <=> CPP!IsInsert(t)
         /\ CP!Written(t) = CPP!Written(t)
         /\ CP!Diff(t) = CPP!Diff(t)
BY DEF CP!Key, CPP!Key, CP!IsInsert, CPP!IsInsert, CP!Written, CPP!Written,
       CP!Diff, CPP!Diff, CP!After, CPP!After, CP!NextVersion, CPP!NextVersion

LEMMA SameRecord ==
  /\ \A t, diff : CP!Record(t, diff) = CPP!Record(t, diff)
  /\ \A channel, e : CP!Signal(channel, e) = CPP!Signal(channel, e)
BY DEF CP!Record, CPP!Record, CP!Signal, CPP!Signal

(* Who waits for whom *)
LEMMA SameWaits ==
  /\ \A v, w \in Workers : CP!Blocks(v, w) <=> CPP!Blocks(v, w)
  /\ \A x : CP!Creating(x) <=> CPP!Creating(x)
<1>1. \A v, w \in Workers : CP!Blocks(v, w) <=> CPP!Blocks(v, w)
  BY SameNames, SameWrite DEF CP!Blocks, CPP!Blocks
<1>2. \A x : CP!Creating(x) <=> CPP!Creating(x)
  BY SameNames DEF CP!Creating, CPP!Creating
<1>. QED BY <1>1, <1>2

LEMMA SameCreate ==
  ASSUME NEW w \in Workers, NEW action, NEW x, NEW env, NEW seeds,
         CP!Create(w, action, x, env, seeds)
  PROVE  CPP!Create(w, action, x, env, seeds)
BY SameRoom, SameNames, SameWaits DEF CP!Create, CPP!Create

LEMMA SameLoad ==
  ASSUME NEW w \in Workers, NEW action, NEW r, NEW e, NEW body,
         CP!Load(w, action, r, e, body)
  PROVE  CPP!Load(w, action, r, e, body)
BY SameRoom DEF CP!Load, CPP!Load

LEMMA SameFinish ==
  ASSUME NEW w \in Workers, CP!Finish(w)
  PROVE  CPP!Finish(w)
<1>1. ASSUME CP!Flush(w) PROVE CPP!Flush(w)
  BY <1>1, SameNames, SameWrite, SameWaits DEF CP!Flush, CPP!Flush
<1>2. ASSUME CP!FlushConflict(w) PROVE CPP!FlushConflict(w)
  BY <1>2, SameNames, SameWrite, SameWaits DEF CP!FlushConflict, CPP!FlushConflict
<1>3. ASSUME CP!CommitCreate(w) PROVE CPP!CommitCreate(w)
  BY <1>3, SameNames, SameRecord DEF CP!CommitCreate, CPP!CommitCreate
<1>4. ASSUME CP!CommitUpdate(w) PROVE CPP!CommitUpdate(w)
  BY <1>4, SameNames, SameWrite, SameRecord DEF CP!CommitUpdate, CPP!CommitUpdate
<1>. QED BY <1>1, <1>2, <1>3, <1>4 DEF CP!Finish, CPP!Finish

LEMMA SameControlPlaneStep ==
  ASSUME NEW w \in Workers, CP!Step(w)
  PROVE  CPP!Step(w)
<1>1. ASSUME CP!BeginCreateProject(w) PROVE CPP!BeginCreateProject(w)
  BY <1>1, SameCreate DEF CP!BeginCreateProject, CPP!BeginCreateProject
<1>2. ASSUME NEW e \in Environments, CP!BeginCreateEnvironment(w, e)
      PROVE  CPP!BeginCreateEnvironment(w, e)
  BY <1>2, SameCreate DEF CP!BeginCreateEnvironment, CPP!BeginCreateEnvironment
<1>3. ASSUME NEW f \in Flags, CP!BeginCreateFlag(w, f) PROVE CPP!BeginCreateFlag(w, f)
  BY <1>3, SameCreate DEF CP!BeginCreateFlag, CPP!BeginCreateFlag
<1>4. ASSUME NEW s \in Segments, CP!BeginCreateSegment(w, s)
      PROVE  CPP!BeginCreateSegment(w, s)
  BY <1>4, SameCreate DEF CP!BeginCreateSegment, CPP!BeginCreateSegment
<1>5. ASSUME NEW f \in Flags, NEW e \in Environments, NEW body \in CP!Contents,
             CP!BeginUpdateFlagConfig(w, f, e, body)
      PROVE  CPP!BeginUpdateFlagConfig(w, f, e, body)
  BY <1>5, SameNames, SameLoad DEF CP!BeginUpdateFlagConfig, CPP!BeginUpdateFlagConfig
<1>6. ASSUME NEW s \in Segments, NEW e \in Environments, NEW body \in CP!Contents,
             CP!BeginUpdateSegmentConfig(w, s, e, body)
      PROVE  CPP!BeginUpdateSegmentConfig(w, s, e, body)
  BY <1>6, SameLoad DEF CP!BeginUpdateSegmentConfig, CPP!BeginUpdateSegmentConfig
<1>7. ASSUME CP!Rollback(w) PROVE CPP!Rollback(w)
  BY <1>7, SameNames DEF CP!Rollback, CPP!Rollback
<1>8. CP!Contents = CPP!Contents
  BY SameNames
<1>. QED BY <1>1, <1>2, <1>3, <1>4, <1>5, <1>6, <1>7, <1>8, SameFinish
         DEF CP!Step, CPP!Step

LEMMA SameApart == Apart => CPP!Apart
BY DEF Apart, CP!Apart, CPP!Apart, CP!Updates, CPP!Updates, CP!Key, CPP!Key

LEMMA SameTableStep ==
  [CPP!Table!TableNext]_CPP!Table!tableVars => [DPP!TableNext]_DPP!tableVars
BY DEF CPP!Table!TableNext, DPP!TableNext, CPP!Table!tableVars, DPP!tableVars,
       CPP!Table!AddEnvironment, DPP!AddEnvironment, CPP!Table!Seed, DPP!Seed,
       CPP!Table!Change, DPP!Change, CPP!Table!Exists, DPP!Exists,
       CPP!Table!Keys, DPP!Keys, CPP!Table!Resources, DPP!Resources,
       CPP!Table!SeedRow, DPP!SeedRow, CPP!Contents, CP!Contents,
       CPP!DefaultContent, CP!DefaultContent

LEMMA SamePromise ==
  /\ CPP!Table!TableInit => CP!Table!TableInit
  /\ [CPP!Table!TableNext]_CPP!Table!tableVars => [CP!Table!TableNext]_CP!Table!tableVars
BY DEF CPP!Table!TableInit, CP!Table!TableInit, CPP!Table!NoRow, CP!Table!NoRow,
       CPP!Table!TableNext, CP!Table!TableNext, CPP!Table!tableVars, CP!Table!tableVars,
       CPP!Table!AddEnvironment, CP!Table!AddEnvironment, CPP!Table!Seed, CP!Table!Seed,
       CPP!Table!Change, CP!Table!Change, CPP!Table!Exists, CP!Table!Exists,
       CPP!Table!Keys, CP!Table!Keys, CPP!Table!Resources, CP!Table!Resources,
       CPP!Table!SeedRow, CP!Table!SeedRow, CPP!Contents, CP!Contents,
       CPP!DefaultContent, CP!DefaultContent

LEMMA SameVersion == \A rs : DP!AggregateVersion(rs) = DPP!AggregateVersion(rs)
BY SameCardinality
   DEF DP!AggregateVersion, DPP!AggregateVersion, DP!Units, DPP!Units, DP!Resources,
       DPP!Resources

LEMMA SameConstants ==
  /\ DP!Loaders = DPP!Loaders
  /\ DP!Resources = DPP!Resources
  /\ DP!NoRows = DPP!NoRows
  /\ DP!IdleLoader = DPP!IdleLoader
  /\ DP!Closed = DPP!Closed
BY DEF DP!Loaders, DPP!Loaders, DP!Resources, DPP!Resources, DP!NoRows, DPP!NoRows,
       DP!NoRow, DPP!NoRow, DP!IdleLoader, DPP!IdleLoader, DP!Closed, DPP!Closed

(* Reading a ruleset *)
LEMMA SameReads ==
  /\ \A R, e : DP!Committed(R, e) = DPP!Committed(R, e)
  /\ \A R, all : DP!Fetched(R, all) <=> DPP!Fetched(R, all)
  /\ \A rs : DP!Decodes(rs) <=> DPP!Decodes(rs)
BY DEF DP!Committed, DPP!Committed, DP!Resources, DPP!Resources, DP!NoRow, DPP!NoRow,
       DP!Fetched, DPP!Fetched, DP!Decodes, DPP!Decodes

(* Giving up or going on *)
LEMMA SameEnds ==
  /\ DP!Restart <=> DPP!Restart
  /\ \A l : DP!Fail(l) <=> DPP!Fail(l)
  /\ \A l, state : DP!Goto(l, state) <=> DPP!Goto(l, state)
<1>1. DP!Restart <=> DPP!Restart
  BY SameConstants DEF DP!Restart, DPP!Restart
<1>2. \A l : DP!Fail(l) <=> DPP!Fail(l)
  BY <1>1, SameConstants DEF DP!Fail, DPP!Fail
<1>3. \A l, state : DP!Goto(l, state) <=> DPP!Goto(l, state)
  BY DEF DP!Goto, DPP!Goto
<1>. QED BY <1>1, <1>2, <1>3

LEMMA SameLoadStep ==
  ASSUME NEW l, DP!LoadStep(l)
  PROVE  DPP!LoadStep(l)
<1>1. ASSUME DP!ListEnvironments(l) PROVE DPP!ListEnvironments(l)
  BY <1>1, SameConstants, SameReads, SameEnds DEF DP!ListEnvironments, DPP!ListEnvironments
<1>2. ASSUME DP!Notified PROVE DPP!Notified
  BY <1>2, SameConstants, SameReads DEF DP!Notified, DPP!Notified
<1>3. ASSUME DP!QueryFlags(l) PROVE DPP!QueryFlags(l)
  BY <1>3, SameReads, SameEnds DEF DP!QueryFlags, DPP!QueryFlags
<1>4. ASSUME DP!QuerySegments(l) PROVE DPP!QuerySegments(l)
  BY <1>4, SameConstants, SameReads, SameEnds DEF DP!QuerySegments, DPP!QuerySegments
<1>5. ASSUME DP!Install(l) PROVE DPP!Install(l)
  BY <1>5, SameConstants, SameVersion DEF DP!Install, DPP!Install, DP!IsNew, DPP!IsNew
<1>6. ASSUME DP!Return(l) PROVE DPP!Return(l)
  BY <1>6, SameConstants DEF DP!Return, DPP!Return
<1>. QED BY <1>1, <1>2, <1>3, <1>4, <1>5, <1>6 DEF DP!LoadStep, DPP!LoadStep

LEMMA SameSent == \A s : DP!Sent(s) = DPP!Sent(s)
BY SameVersion DEF DP!Sent, DPP!Sent

LEMMA SameDataPlaneStep ==
  ASSUME DP!DataPlaneNext
  PROVE  DPP!DataPlaneNext
<1>1. ASSUME NEW l, DP!QueryError(l) PROVE DPP!QueryError(l)
  BY <1>1, SameEnds DEF DP!QueryError, DPP!QueryError
<1>2. ASSUME DP!Listen PROVE DPP!Listen
  BY <1>2 DEF DP!Listen, DPP!Listen
<1>3. ASSUME DP!ListenerDies PROVE DPP!ListenerDies
  BY <1>3 DEF DP!ListenerDies, DPP!ListenerDies
<1>4. ASSUME NEW c \in Clients, NEW e \in Environments, DP!Connect(c, e)
      PROVE  DPP!Connect(c, e)
  BY <1>4, SameConstants, SameSent DEF DP!Connect, DPP!Connect
<1>5. ASSUME NEW c \in Clients, DP!Tick(c) PROVE DPP!Tick(c)
  BY <1>5, SameSent DEF DP!Tick, DPP!Tick
<1>6. ASSUME NEW c \in Clients, DP!Disconnect(c) PROVE DPP!Disconnect(c)
  BY <1>6, SameConstants DEF DP!Disconnect, DPP!Disconnect
<1>7. ASSUME DP!Crash PROVE DPP!Crash
  BY <1>7, SameEnds DEF DP!Crash, DPP!Crash
<1>8. DP!Loaders = DPP!Loaders
  BY SameConstants
<1>. QED BY <1>1, <1>2, <1>3, <1>4, <1>5, <1>6, <1>7, <1>8, SameLoadStep
         DEF DP!DataPlaneNext, DPP!DataPlaneNext

-----------------------------------------------------------------------------
(* The steps of the whole system *)

(* A step of the system is one of the control plane's or of the data plane's. *)
LEMMA StepOfOneHalf ==
  ASSUME [Next]_vars
  PROVE  /\ [CPP!Next]_CPP!vars
         /\ \/ UNCHANGED dataPlaneVars
            \/ DPP!DataPlaneNext /\ UNCHANGED controlPlaneVars
<1>1. CASE ControlPlaneStep
  BY <1>1, SameControlPlaneStep DEF ControlPlaneStep, CPP!Next
<1>2. CASE DataPlaneStep
  BY <1>2, SameDataPlaneStep DEF DataPlaneStep, controlPlaneVars, CPP!vars
<1>3. CASE UNCHANGED vars
  BY <1>3 DEF vars, controlPlaneVars, CPP!vars
<1>. QED BY <1>1, <1>2, <1>3 DEF Next

(* The tables the data plane reads are those the control plane writes. *)
LEMMA SharedTables ==
  /\ CPP!IInv => DPP!TableTypeOK
  /\ UNCHANGED controlPlaneVars => UNCHANGED DPP!tableVars
BY DEF CPP!IInv, CPP!TypeOK, DPP!TableTypeOK, CPP!Keys, DPP!Keys, CPP!Resources,
       DPP!Resources, CPP!Row, DPP!Row, CPP!Contents, CP!Contents, controlPlaneVars,
       DPP!tableVars

LEMMA DataPlaneTypes ==
  /\ DPP!TypeOK /\ DPP!DataPlaneNext /\ UNCHANGED DPP!tableVars => DPP!TypeOK'
  /\ DPP!Init => DPP!TypeOK
<1>. USE FlagSystemAssumption
     DEF IsFiniteSet, DPP!IsFiniteSet, CP!Contents, CP!DefaultContent, DPP!Rulesets,
         DP!Rulesets, DPP!Row, DP!Row, DPP!Resources, DP!Resources
<1>1. DPP!TypeOK /\ DPP!DataPlaneNext /\ UNCHANGED DPP!tableVars => DPP!TypeOK'
  BY DPP!DataPlaneKeepsTypes
<1>2. DPP!Init => DPP!TypeOK
  BY DataPlaneInvariant DEF DPP!IInv
<1>. QED BY <1>1, <1>2

LEMMA SameTypes == CPP!TypeOK /\ DPP!TypeOK => TypeOK
BY DEF TypeOK, CP!TypeOK, CPP!TypeOK, DP!TypeOK, DPP!TypeOK,
       CP!Keys, CPP!Keys, CP!Resources, CPP!Resources, CP!Row, CPP!Row,
       CP!Contents, CPP!Contents, CP!AuditEntry, CPP!AuditEntry, CP!Actions,
       CPP!Actions, CP!Txn, CPP!Txn,
       DP!TableTypeOK, DPP!TableTypeOK, DP!Keys, DPP!Keys, DP!Resources, DPP!Resources,
       DP!Row, DPP!Row, DP!Rulesets, DPP!Rulesets, DP!Loaders, DPP!Loaders,
       DP!LoaderState, DPP!LoaderState, DP!StreamState, DPP!StreamState
-----------------------------------------------------------------------------
(* What the data plane relies on, the control plane delivers. *)

(* The two invariants, and what the control plane's promise rests on *)
SystemInv ==
  /\ CPP!IInv /\ CPP!Bounds /\ CPP!Knowledge
  /\ DPP!IInv

LEMMA PromiseKept ==
  ASSUME NotifyBackend = "postgres", CPP!IInv, CPP!Bounds, CPP!Knowledge,
         [CPP!Next]_CPP!vars
  PROVE  [DPP!TableNext]_DPP!tableVars
<1>. USE FlagSystemAssumption DEF IsFiniteSet, CPP!IsFiniteSet
<1>1. [CPP!Table!TableNext]_CPP!Table!tableVars
  BY CPP!TableStep
<1>. QED BY <1>1, SameTableStep

LEMMA NextSystemInv ==
  ASSUME NotifyBackend = "postgres", SystemInv, Apart, [Next]_vars
  PROVE  SystemInv'
<1>1. [CPP!Next]_CPP!vars
  BY StepOfOneHalf
<1>2. CPP!IInv' /\ CPP!Bounds' /\ CPP!Knowledge'
  BY <1>1, SameApart, ControlPlaneInvariants DEF SystemInv
<1>3. DPP!IInv'
  <2>1. [DPP!TableNext]_DPP!tableVars
    BY <1>1, PromiseKept DEF SystemInv
  <2>2. CASE UNCHANGED dataPlaneVars
    <3>1. UNCHANGED DPP!dataPlaneVars
      BY <2>2 DEF dataPlaneVars, DPP!dataPlaneVars
    <3>2. [DPP!Next]_DPP!vars
      BY <2>1, <3>1 DEF DPP!Next, DPP!vars
    <3>. QED BY <3>2, DataPlaneInvariant DEF SystemInv
  <2>3. CASE DPP!DataPlaneNext /\ UNCHANGED controlPlaneVars
    <3>1. [DPP!Next]_DPP!vars
      BY <2>3, SharedTables DEF DPP!Next
    <3>. QED BY <3>1, DataPlaneInvariant DEF SystemInv
  <2>. QED BY <2>2, <2>3, StepOfOneHalf
<1>. QED BY <1>2, <1>3 DEF SystemInv

LEMMA SystemInvariance ==
  ASSUME NotifyBackend = "postgres"
  PROVE  Spec /\ []Apart => []SystemInv
<1>1. Init => SystemInv
  BY SameInit, ControlPlaneInvariants, DataPlaneInvariant DEF SystemInv
<1>2. SystemInv /\ Apart /\ [Next]_vars => SystemInv'
  BY NextSystemInv
<1>. QED BY <1>1, <1>2, PTL DEF Spec

-----------------------------------------------------------------------------
(* Theorems *)

(***************************************************************************)
(* Every variable of the system keeps its type, however requests and loads *)
(* overlap and whatever the notification backend.                          *)
(***************************************************************************)
THEOREM TypeCorrect == Spec => []TypeOK
<1>. DEFINE Typed == CPP!IInv /\ DPP!TypeOK
<1>1. Init => Typed
  BY SameInit, ControlPlaneInvariants, DataPlaneTypes
<1>2. ASSUME Typed, [Next]_vars
      PROVE  Typed'
  <2>1. CPP!IInv'
    BY <1>2, StepOfOneHalf, ControlPlaneInvariants
  <2>2. CASE UNCHANGED dataPlaneVars
    <3>1. DPP!TableTypeOK'
      BY <2>1, SharedTables, PTL
    <3>. QED BY <1>2, <2>1, <2>2, <3>1 DEF DPP!TypeOK, dataPlaneVars
  <2>3. CASE DPP!DataPlaneNext /\ UNCHANGED controlPlaneVars
    BY <1>2, <2>1, <2>3, SharedTables, DataPlaneTypes
  <2>. QED BY <1>2, <2>2, <2>3, StepOfOneHalf
<1>3. Typed => TypeOK
  BY SameTypes DEF CPP!IInv
<1>. QED BY <1>1, <1>2, <1>3, PTL DEF Spec

(***************************************************************************)
(* While PUTs of one row do not overlap, the tables and the channel behave *)
(* as the data plane takes for granted (flags.py:72-88,123-165).           *)
(***************************************************************************)
THEOREM PromiseInSystem ==
  ASSUME NotifyBackend = "postgres"
  PROVE  Spec /\ []Apart => KeepsTablePromise
<1>. USE FlagSystemAssumption DEF IsFiniteSet, CPP!IsFiniteSet
<1>1. Init => CP!Table!TableInit
  BY SameInit, SamePromise, CPP!TableStart
<1>2. SystemInv /\ [Next]_vars => [CP!Table!TableNext]_CP!Table!tableVars
  <2>. SUFFICES ASSUME SystemInv, [Next]_vars
                PROVE  [CP!Table!TableNext]_CP!Table!tableVars
    OBVIOUS
  <2>1. [CPP!Table!TableNext]_CPP!Table!tableVars
    BY StepOfOneHalf, CPP!TableStep DEF SystemInv
  <2>. QED BY <2>1, SamePromise
<1>. QED BY <1>1, <1>2, SystemInvariance, PTL
     DEF Spec, KeepsTablePromise, CP!KeepsTablePromise, CP!Table!TableSpec

(***************************************************************************)
(* While PUTs of one row do not overlap, every ruleset the data plane      *)
(* holds, assembles or has pushed lags, row by row, what the handlers have *)
(* committed (flags.py:123-165, store.go:130-196, server.go:77-117).       *)
(***************************************************************************)
THEOREM RulesetsLag ==
  ASSUME NotifyBackend = "postgres"
  PROVE  Spec /\ []Apart => []HeldRowsBehind
<1>1. SystemInv => HeldRowsBehind
  BY DEF SystemInv, DPP!IInv, HeldRowsBehind, DP!HeldRowsBehind, DPP!HeldRowsBehind,
         DP!Behind, DPP!Behind, DP!Resources, DPP!Resources, DP!Loaders, DPP!Loaders
<1>. QED BY <1>1, SystemInvariance, PTL

(***************************************************************************)
(* While PUTs of one row do not overlap, no edit is withheld because the   *)
(* aggregate version it leads to was already installed or sent             *)
(* (store.go:18,73, server.go:93).                                         *)
(***************************************************************************)
THEOREM EqualVersionsMayBeSkipped ==
  ASSUME NotifyBackend = "postgres"
  PROVE  Spec /\ []Apart => []VersionIdentifiesRuleset
<1>1. SystemInv => VersionIdentifiesRuleset
  <2>1. \A e : DP!Current(e) = DPP!Current(e)
    BY DEF DP!Current, DPP!Current, DP!Committed, DPP!Committed, DP!NoRow, DPP!NoRow,
           DP!Resources, DPP!Resources
  <2>. QED BY <2>1, SameVersion, DataPlaneInvariant
       DEF SystemInv, VersionIdentifiesRuleset, DP!VersionIdentifiesRuleset,
           DPP!VersionIdentifiesRuleset
<1>. QED BY <1>1, SystemInvariance, PTL
=============================================================================
