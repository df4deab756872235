-------------------------- MODULE TablePromiseProofs --------------------------
(***************************************************************************)
(* That ControlPlane implements ConfigTable while no two PUTs of one row   *)
(* overlap, for any number of workers and whatever else overlaps.          *)
(***************************************************************************)
EXTENDS ControlPlaneProofs

(* The bound of the model bounds the commits. *)
CommitsBounded == Len(audit_log) + Cardinality(Open) <= MaxCommits

(* Only updates are signalled, and they are audited as well. *)
SignalsBounded == Len(flags_changed) <= Len(audit_log)

(* The environments a request is about, or selected *)
KnowsEnvironments(t) ==
  /\ (t.stage # "idle" /\ t.action \in Updates) => t.env \in environments
  /\ (t.stage # "idle" /\ t.action = "environment.created") =>
       t.resource \notin environments
  /\ (t.stage # "idle" /\ t.action = "flag.created") => t.seeds \subseteq environments

Updating(t) == t.stage # "idle" /\ t.action \in Updates

(* What a PUT loaded is still in the table when it commits. *)
SeenIsRow == \A w \in Workers : Updating(txn[w]) => txn[w].seen = configs[Key(txn[w])]

Bounds == CommitsBounded /\ SignalsBounded
Knowledge == (\A w \in Workers : KnowsEnvironments(txn[w])) /\ SeenIsRow

-----------------------------------------------------------------------------
(* The bounds *)

LEMMA OpenFinite ==
  /\ IsFiniteSet(Open) /\ Cardinality(Open) \in Nat
  /\ IsFiniteSet(Open)' /\ Cardinality(Open)' \in Nat
<1>1. Open \in SUBSET Workers /\ Open' \in SUBSET Workers /\ IsFiniteSet(Workers)
  BY ControlPlaneAssumption DEF Open
<1>2. \A S \in SUBSET Workers : IsFiniteSet(S) /\ Cardinality(S) \in Nat
  BY <1>1, FS_Subset, FS_CardinalityType
<1>. QED BY <1>1, <1>2

(* A transaction that begins is one more, one that ends is one less. *)
LEMMA OpenAfter ==
  ASSUME TypeOK, NEW w \in Workers, NEW t, txn' = [txn EXCEPT ![w] = t]
  PROVE  /\ (txn[w].stage = "idle" /\ t.stage # "idle")
              => Cardinality(Open)' = Cardinality(Open) + 1
         /\ (txn[w].stage # "idle" /\ t.stage # "idle")
              => Cardinality(Open)' = Cardinality(Open)
         /\ (txn[w].stage # "idle" /\ t.stage = "idle")
              => Cardinality(Open)' = Cardinality(Open) - 1
<1>1. \A v \in Workers : txn'[v] = IF v = w THEN t ELSE txn[v]
  BY DEF TypeOK
<1>2. CASE txn[w].stage = "idle" /\ t.stage # "idle"
  <2>1. Open' = Open \cup {w} /\ w \notin Open
    BY <1>1, <1>2 DEF Open
  <2>. QED BY <1>2, <2>1, OpenFinite, FS_AddElement
<1>3. CASE txn[w].stage # "idle" /\ t.stage # "idle"
  <2>1. Open' = Open
    BY <1>1, <1>3 DEF Open
  <2>. QED BY <1>3, <2>1
<1>4. CASE txn[w].stage # "idle" /\ t.stage = "idle"
  <2>1. Open' = Open \ {w} /\ w \in Open
    BY <1>1, <1>4 DEF Open
  <2>. QED BY <1>4, <2>1, OpenFinite, FS_RemoveElement
<1>. QED BY <1>2, <1>3, <1>4

LEMMA NextBounds == IInv /\ Bounds /\ [Next]_vars => Bounds'
<1>. SUFFICES ASSUME TypeOK, Bounds, [Next]_vars PROVE Bounds'
  BY DEF IInv
<1>. USE DEF Bounds, CommitsBounded, SignalsBounded
<1>0. /\ Len(audit_log) \in Nat /\ Len(flags_changed) \in Nat /\ MaxCommits \in Nat
      /\ Cardinality(Open) \in Nat
  BY OpenFinite, ControlPlaneAssumption DEF TypeOK
<1>1. CASE UNCHANGED vars
  BY <1>1 DEF vars, Open
<1>2. ASSUME NEW w \in Workers, NEW t, txn' = [txn EXCEPT ![w] = t],
             UNCHANGED <<flags_changed, audit_log>>,
             txn[w].stage = "idle" => HasRoom
      PROVE  Bounds'
  <2>1. \/ Cardinality(Open)' = Cardinality(Open) + 1 /\ HasRoom
        \/ Cardinality(Open)' \in {Cardinality(Open), Cardinality(Open) - 1}
    <3>1. CASE txn[w].stage = "idle" /\ t.stage = "idle"
      <4>1. Open' = Open
        BY <1>2, <3>1 DEF Open, TypeOK
      <4>. QED BY <4>1
    <3>. QED BY <1>2, <3>1, OpenAfter
  <2>. QED BY <1>0, <1>2, <2>1 DEF HasRoom
<1>3. ASSUME NEW w \in Workers, NEW a, txn' = [txn EXCEPT ![w] = Idle],
             txn[w].stage # "idle", audit_log' = Append(audit_log, a),
             flags_changed' = flags_changed \/ \E e : flags_changed' = Append(flags_changed, e)
      PROVE  Bounds'
  <2>1. Cardinality(Open)' = Cardinality(Open) - 1
    BY <1>3, OpenAfter, RowTypes
  <2>2. /\ Len(audit_log') = Len(audit_log) + 1
        /\ Len(flags_changed') \in {Len(flags_changed), Len(flags_changed) + 1}
    <3>1. ASSUME NEW S, NEW s \in Seq(S), NEW x
          PROVE  Len(Append(s, x)) = Len(s) + 1
      OBVIOUS
    <3>. QED BY <1>3, <3>1 DEF TypeOK
  <2>. QED BY <1>0, <2>1, <2>2
<1>4. ASSUME NEW w \in Workers, Step(w)
      PROVE  Bounds'
  <2>1. CASE CommitCreate(w) \/ CommitUpdate(w)
    BY <1>3, <2>1 DEF CommitCreate, CommitUpdate, Record, Signal
  <2>2. CASE Flush(w) \/ FlushConflict(w) \/ Rollback(w)
    BY <1>2, <2>2 DEF Flush, FlushConflict, Rollback
  <2>. QED BY <1>2, <1>4, <2>1, <2>2
       DEF Step, Finish, BeginCreateProject, BeginCreateEnvironment, BeginCreateFlag,
           BeginCreateSegment, Create, BeginUpdateFlagConfig, BeginUpdateSegmentConfig, Load
<1>. QED BY <1>1, <1>4 DEF Next, Quiescent

-----------------------------------------------------------------------------
(* What the requests know *)

(* Steps that leave the catalog and the tables alone *)
LEMMA TxnStepKeepsKnowledge ==
  ASSUME TypeOK, Knowledge, NEW w \in Workers, NEW t \in Txn, KnowsEnvironments(t),
         Updating(t) => t.seen = configs[Key(t)],
         txn' = [txn EXCEPT ![w] = t], UNCHANGED <<environments, configs>>
  PROVE  Knowledge'
<1>1. \A v \in Workers : txn'[v] = IF v = w THEN t ELSE txn[v]
  BY DEF TypeOK
<1>. QED BY <1>1 DEF Knowledge, KnowsEnvironments, SeenIsRow, Updating, Key

LEMMA CreateKeepsKnowledge ==
  ASSUME IInv, Knowledge, NEW w \in Workers,
         NEW x \in Resources \cup Environments \cup {Project}, NEW action \in Creations,
         NEW env \in Environments \cup {None}, NEW seeds \in SUBSET Environments,
         Create(w, action, x, env, seeds),
         action = "environment.created" => x \notin environments,
         action = "flag.created" => seeds \subseteq environments
  PROVE  Knowledge'
<1>. DEFINE t == [Idle EXCEPT !.stage = "flushed", !.action = action, !.resource = x,
                              !.env = env, !.seeds = seeds]
<1>1. /\ t \in Txn /\ t.action \notin Updates
      /\ t.action = action /\ t.resource = x /\ t.seeds = seeds
  BY RowTypes DEF Txn, Actions, Updates, Creations
<1>2. /\ txn' = [txn EXCEPT ![w] = t] /\ UNCHANGED <<environments, configs>>
  BY DEF Create
<1>. HIDE DEF t
<1>3. KnowsEnvironments(t) /\ ~Updating(t)
  BY <1>1 DEF KnowsEnvironments, Updating
<1>. QED BY <1>1, <1>2, <1>3, TxnStepKeepsKnowledge DEF IInv

LEMMA LoadKeepsKnowledge ==
  ASSUME IInv, Knowledge, NEW w \in Workers, NEW r \in Resources, NEW action \in Updates,
         NEW e \in Environments, NEW body \in Contents, Load(w, action, r, e, body)
  PROVE  Knowledge'
<1>. DEFINE t == [stage |-> "loaded", action |-> action, resource |-> r, env |-> e,
                  seen |-> configs[<<r, e>>], body |-> body, seeds |-> {}]
<1>1. configs[<<r, e>>] \in Row
  BY DEF IInv, TypeOK, Keys
<1>2. t \in Txn /\ KnowsEnvironments(t) /\ t.seen = configs[Key(t)]
  BY <1>1 DEF Load, Txn, Actions, Updates, KnowsEnvironments, Key
<1>3. /\ txn' = [txn EXCEPT ![w] = t] /\ UNCHANGED <<environments, configs>>
  BY DEF Load
<1>. HIDE DEF t
<1>. QED BY <1>2, <1>3, TxnStepKeepsKnowledge DEF IInv

LEMMA BeginKeepsKnowledge ==
  ASSUME IInv, Knowledge, NEW w \in Workers,
         \/ BeginCreateProject(w)
         \/ \E e \in Environments : BeginCreateEnvironment(w, e)
         \/ \E f \in Flags : BeginCreateFlag(w, f)
         \/ \E s \in Segments : BeginCreateSegment(w, s)
         \/ \E f \in Flags, e \in Environments, body \in Contents :
               BeginUpdateFlagConfig(w, f, e, body)
         \/ \E s \in Segments, e \in Environments, body \in Contents :
               BeginUpdateSegmentConfig(w, s, e, body)
  PROVE  Knowledge'
<1>1. CASE BeginCreateProject(w)
  BY <1>1, CreateKeepsKnowledge DEF BeginCreateProject, Creations
<1>2. CASE \E e \in Environments : BeginCreateEnvironment(w, e)
  BY <1>2, CreateKeepsKnowledge DEF BeginCreateEnvironment, Creations
<1>3. CASE \E f \in Flags : BeginCreateFlag(w, f)
  BY <1>3, CreateKeepsKnowledge DEF BeginCreateFlag, Resources, Creations, IInv, TypeOK
<1>4. CASE \E s \in Segments : BeginCreateSegment(w, s)
  BY <1>4, CreateKeepsKnowledge DEF BeginCreateSegment, Resources, Creations
<1>5. CASE \E f \in Flags, e \in Environments, body \in Contents :
              BeginUpdateFlagConfig(w, f, e, body)
  BY <1>5, LoadKeepsKnowledge DEF BeginUpdateFlagConfig, Resources, Updates
<1>6. CASE \E s \in Segments, e \in Environments, body \in Contents :
              BeginUpdateSegmentConfig(w, s, e, body)
  BY <1>6, LoadKeepsKnowledge DEF BeginUpdateSegmentConfig, Resources, Updates
<1>. QED BY <1>1, <1>2, <1>3, <1>4, <1>5, <1>6

LEMMA FlushKeepsKnowledge ==
  ASSUME IInv, Knowledge, NEW w \in Workers, Flush(w)
  PROVE  Knowledge'
<1>. DEFINE t == [txn[w] EXCEPT !.stage = "flushed"]
<1>1. txn[w] \in Txn /\ txn[w].stage = "loaded"
  BY DEF IInv, TypeOK, Flush
<1>2. /\ t \in Txn /\ t.stage = "flushed" /\ t.action = txn[w].action
      /\ t.resource = txn[w].resource /\ t.env = txn[w].env /\ t.seen = txn[w].seen
      /\ t.seeds = txn[w].seeds
  BY <1>1 DEF Txn, Actions
<1>3. /\ txn' = [txn EXCEPT ![w] = t] /\ UNCHANGED <<environments, configs>>
  BY DEF Flush
<1>. HIDE DEF t
<1>4. KnowsEnvironments(t) /\ (Updating(t) => t.seen = configs[Key(t)])
  BY <1>1, <1>2 DEF Knowledge, KnowsEnvironments, SeenIsRow, Updating, Key
<1>. QED BY <1>2, <1>3, <1>4, TxnStepKeepsKnowledge DEF IInv

LEMMA EndKeepsKnowledge ==
  ASSUME IInv, Knowledge, NEW w \in Workers, txn' = [txn EXCEPT ![w] = Idle],
         UNCHANGED <<environments, configs>>
  PROVE  Knowledge'
<1>1. Idle \in Txn /\ KnowsEnvironments(Idle) /\ ~Updating(Idle)
  BY RowTypes DEF KnowsEnvironments, Updating
<1>. QED BY <1>1, TxnStepKeepsKnowledge DEF IInv

-----------------------------------------------------------------------------
(* The commits *)

(* What a committed creation does to the shared tables: an environment, a  *)
(* new flag's rows, or nothing                                             *)
LEMMA CreationOnTables ==
  ASSUME IInv, Knowledge, NEW w \in Workers, CommitCreate(w)
  PROVE  \/ /\ txn[w].action = "environment.created"
            /\ \E e \in Environments \ environments :
                 txn[w].resource = e /\ environments' = environments \cup {e}
            /\ configs' = configs
         \/ /\ environments' = environments
            /\ \E f \in Flags \ flags, envs \in SUBSET environments :
                 configs' = [k \in Keys |-> IF k \in {f} \X envs THEN SeedRow
                                                                 ELSE configs[k]]
         \/ environments' = environments /\ configs' = configs
<1>1. PICK t \in Txn : /\ t = txn[w] /\ TxnShape(t) /\ KnowsEnvironments(t)
                       /\ t.stage = "flushed" /\ t.action \in Creations
  BY DEF CommitCreate, IInv, TypeOK, Shapes, TxnShape, Txn, Actions, Updates, Creations,
         Knowledge
<1>2. /\ environments' = environments \cup ({t.resource} \cap Environments)
      /\ configs' = [k \in Keys |-> IF k \in {t.resource} \X t.seeds
                                    THEN SeedRow ELSE configs[k]]
  BY <1>1 DEF CommitCreate
<1>3. t.seeds = {} => configs' = configs
  BY <1>2 DEF IInv, TypeOK
<1>4. CASE t.action = "environment.created"
  <2>1. t.resource \in Environments \ environments /\ t.seeds = {}
    BY <1>1, <1>4 DEF TxnShape, KnowsEnvironments
  <2>2. environments' = environments \cup {t.resource}
    BY <1>2, <2>1
  <2>. QED BY <1>1, <1>3, <1>4, <2>1, <2>2
<1>5. CASE t.action = "flag.created"
  <2>1. /\ t.resource \in Flags \ flags /\ t.resource \notin Environments
        /\ t.seeds \in SUBSET environments
    BY <1>1, <1>5, ControlPlaneAssumption DEF TxnShape, KnowsEnvironments
  <2>2. environments' = environments
    BY <1>2, <2>1
  <2>. QED BY <1>2, <2>1, <2>2
<1>6. CASE t.action \in {"project.created", "segment.created"}
  <2>1. t.resource \notin Environments /\ t.seeds = {}
    BY <1>1, <1>6, ControlPlaneAssumption DEF TxnShape
  <2>. QED BY <1>2, <1>3, <2>1
<1>. QED BY <1>1, <1>4, <1>5, <1>6 DEF Creations

(* No creation touches a row that a PUT under way has loaded. *)
LEMMA CommitCreateKeepsKnowledge ==
  ASSUME IInv, Knowledge, NEW w \in Workers, CommitCreate(w)
  PROVE  Knowledge'
<1>1. \A v \in Workers : txn'[v] = IF v = w THEN Idle ELSE txn[v]
  BY DEF CommitCreate, IInv, TypeOK
<1>2. environments \subseteq environments'
  BY DEF CommitCreate
<1>3. ASSUME NEW v \in Workers \ {w}, txn[v].stage # "idle",
             txn[v].action = "environment.created"
      PROVE  txn[v].resource \notin environments'
  <2>1. /\ txn[v].stage = "flushed" /\ txn[v].action \notin Updates
        /\ txn[w].stage = "flushed" /\ txn[w].action \notin Updates
    BY <1>3 DEF IInv, Shapes, TxnShape, TypeOK, Txn, Updates, CommitCreate
  <2>2. txn[v].resource # txn[w].resource
    BY <2>1 DEF IInv, Shapes, OneCreator
  <2>3. txn[v].resource \notin environments
    BY <1>3 DEF Knowledge, KnowsEnvironments
  <2>. QED BY <2>2, <2>3 DEF CommitCreate
<1>4. ASSUME NEW v \in Workers
      PROVE  KnowsEnvironments(txn[v])'
  <2>1. CASE v = w
    BY <1>1, <2>1, RowTypes DEF KnowsEnvironments
  <2>2. CASE v # w
    BY <1>1, <1>2, <1>3, <2>2 DEF Knowledge, KnowsEnvironments
  <2>. QED BY <2>1, <2>2
<1>5. ASSUME NEW v \in Workers, Updating(txn[v])'
      PROVE  txn'[v].seen = configs'[Key(txn[v])']
  <2>1. v # w /\ txn'[v] = txn[v] /\ Updating(txn[v])
    BY <1>1, <1>5, RowTypes DEF Updating
  <2>2. /\ txn[v].resource \in flags \cup Segments
        /\ txn[v].resource \in Resources /\ txn[v].env \in Environments
    BY <2>1 DEF IInv, Shapes, TxnShape, Updating, Updates, Resources, TypeOK
  <2>3. configs'[Key(txn[v])] = configs[Key(txn[v])]
    BY <2>2, CreationOnTables, ControlPlaneAssumption DEF Key, Keys
  <2>4. txn[v].seen = configs[Key(txn[v])]
    BY <2>1 DEF Knowledge, SeenIsRow
  <2>. QED BY <2>1, <2>3, <2>4 DEF Key
<1>. QED BY <1>4, <1>5 DEF Knowledge, SeenIsRow

(* A PUT that commits over the row it loaded replaces it by its body under *)
(* the next version.                                                       *)
LEMMA FreshUpdate ==
  ASSUME IInv, NEW w \in Workers, CommitUpdate(w),
         txn[w].seen = configs[Key(txn[w])]
  PROVE  LET t == txn[w] IN
         /\ t \in Txn /\ Key(t) \in Keys /\ Key(t) = <<t.resource, t.env>>
         /\ t.resource \in Resources /\ t.body \in Contents
         /\ t.resource \in Segments \/ Exists(Key(t))
         /\ configs' = [configs EXCEPT ![Key(t)] =
                          [content |-> t.body, version |-> configs[Key(t)].version + 1]]
<1>1. PICK t \in Txn : /\ t = txn[w] /\ TxnShape(t)
                       /\ t.stage = "flushed" /\ t.action \in Updates
                       /\ t.seen = configs[Key(t)]
  BY DEF CommitUpdate, IInv, TypeOK, Shapes
<1>2. /\ t.resource \in Resources /\ t.env \in Environments /\ t.body \in Contents
      /\ t.resource \in Segments \/ Exists(Key(t))
  BY <1>1 DEF TxnShape, Updates, Resources, IInv, TypeOK, Txn, Actions
<1>3. Key(t) \in Keys /\ Key(t) = <<t.resource, t.env>>
  BY <1>2 DEF Key, Keys
<1>4. Written(t) = [content |-> t.body, version |-> t.seen.version + 1]
  <2>1. CASE IsInsert(t)
    BY <2>1 DEF Written, After, NextVersion
  <2>2. CASE ~IsInsert(t)
    <3>1. [c \in Columns |-> IF t.body[c] # t.seen.content[c]
                             THEN t.body[c] ELSE configs[Key(t)].content[c]] = t.body
      BY <1>1, <1>2 DEF Contents
    <3>. QED BY <2>2, <3>1 DEF Written, NextVersion
  <2>. QED BY <2>1, <2>2
<1>. QED BY <1>1, <1>2, <1>3, <1>4 DEF CommitUpdate

LEMMA CommitUpdateKeepsKnowledge ==
  ASSUME IInv, Knowledge, Apart, NEW w \in Workers, CommitUpdate(w)
  PROVE  Knowledge'
<1>1. /\ \A v \in Workers : txn'[v] = IF v = w THEN Idle ELSE txn[v]
      /\ environments' = environments
  BY DEF CommitUpdate, IInv, TypeOK
<1>2. ASSUME NEW v \in Workers
      PROVE  KnowsEnvironments(txn[v])'
  BY <1>1, RowTypes DEF Knowledge, KnowsEnvironments
<1>3. ASSUME NEW v \in Workers, Updating(txn[v])'
      PROVE  txn'[v].seen = configs'[Key(txn[v])']
  <2>1. v # w /\ txn'[v] = txn[v] /\ Updating(txn[v])
    BY <1>1, <1>3, RowTypes DEF Updating
  <2>2. Key(txn[v]) # Key(txn[w])
    BY <2>1 DEF Apart, Updating, CommitUpdate
  <2>3. Key(txn[v]) \in Keys
    BY <2>1 DEF IInv, Shapes, TxnShape, Updating, Updates, Resources, TypeOK, Key, Keys
  <2>4. configs'[Key(txn[v])] = configs[Key(txn[v])]
    BY <2>2, <2>3 DEF CommitUpdate, IInv, TypeOK
  <2>5. txn[v].seen = configs[Key(txn[v])]
    BY <2>1 DEF Knowledge, SeenIsRow
  <2>. QED BY <2>1, <2>4, <2>5 DEF Key
<1>. QED BY <1>2, <1>3 DEF Knowledge, SeenIsRow

LEMMA NextKnowledge == IInv /\ Knowledge /\ Apart /\ [Next]_vars => Knowledge'
<1>. SUFFICES ASSUME IInv, Knowledge, Apart, [Next]_vars PROVE Knowledge'
  OBVIOUS
<1>1. CASE UNCHANGED vars
  BY <1>1 DEF vars, Knowledge, KnowsEnvironments, SeenIsRow, Updating, Key
<1>2. ASSUME NEW w \in Workers, Step(w)
      PROVE  Knowledge'
  <2>1. CASE Flush(w)
    BY <2>1, FlushKeepsKnowledge
  <2>2. CASE FlushConflict(w) \/ Rollback(w)
    BY <2>2, EndKeepsKnowledge DEF FlushConflict, Rollback
  <2>3. CASE CommitCreate(w)
    BY <2>3, CommitCreateKeepsKnowledge
  <2>4. CASE CommitUpdate(w)
    BY <2>4, CommitUpdateKeepsKnowledge
  <2>. QED BY <1>2, <2>1, <2>2, <2>3, <2>4, BeginKeepsKnowledge DEF Step, Finish
<1>. QED BY <1>1, <1>2 DEF Next, Quiescent

-----------------------------------------------------------------------------
(* The refinement *)

LEMMA TableStart == Init => Table!TableInit /\ Bounds /\ Knowledge
<1>. SUFFICES ASSUME Init PROVE Table!TableInit /\ Bounds /\ Knowledge
  OBVIOUS
<1>1. Table!TableInit
  BY DEF Init, Table!TableInit, Keys, Table!Keys, Resources, Table!Resources, NoRow,
         Table!NoRow
<1>2. Open = {} /\ MaxCommits \in Nat
  BY ControlPlaneAssumption DEF Init, Open, Idle
<1>3. Bounds
  BY <1>2, FS_EmptySet DEF Init, Bounds, CommitsBounded, SignalsBounded
<1>4. Knowledge
  BY DEF Init, Knowledge, KnowsEnvironments, SeenIsRow, Updating, Idle
<1>. QED BY <1>1, <1>3, <1>4

LEMMA TableStep ==
  ASSUME NotifyBackend = "postgres", IInv, Bounds, Knowledge, [Next]_vars
  PROVE  [Table!TableNext]_Table!tableVars
<1>. USE DEF Table!tableVars
<1>1. CASE UNCHANGED <<environments, configs, flags_changed>>
  BY <1>1
<1>2. ASSUME NEW w \in Workers, CommitCreate(w)
      PROVE  [Table!TableNext]_Table!tableVars
  <2>0. UNCHANGED flags_changed
    BY <1>2 DEF CommitCreate
  <2>1. CASE /\ configs' = configs
             /\ \E e \in Environments \ environments : environments' = environments \cup {e}
    BY <2>0, <2>1 DEF Table!TableNext, Table!AddEnvironment
  <2>2. ASSUME NEW f \in Flags \ flags, NEW envs \in SUBSET environments,
               environments' = environments,
               configs' = [k \in Keys |-> IF k \in {f} \X envs THEN SeedRow ELSE configs[k]]
        PROVE  Table!TableNext
    <3>1. \A e \in Environments : ~Exists(<<f, e>>)
      BY DEF IInv, Shapes, NoRowsBeforeFlag
    <3>2. Table!Seed(f, envs)
      BY <2>0, <2>2, <3>1
         DEF Table!Seed, Exists, Table!Exists, Keys, Table!Keys, Resources,
             Table!Resources, SeedRow, Table!SeedRow
    <3>. QED BY <3>2 DEF Table!TableNext
  <2>. QED BY <1>2, <2>0, <2>1, <2>2, CreationOnTables
<1>3. ASSUME NEW w \in Workers, CommitUpdate(w)
      PROVE  Table!TableNext
  <2>1. PICK t : t = txn[w]
    OBVIOUS
  <2>2. /\ t.resource \in Resources /\ t.env \in environments /\ t.body \in Contents
        /\ Key(t) = <<t.resource, t.env>>
        /\ t.resource \in Segments \/ Exists(Key(t))
        /\ configs' = [configs EXCEPT ![Key(t)] =
                         [content |-> t.body, version |-> configs[Key(t)].version + 1]]
    <3>1. Updating(t) /\ t.seen = configs[Key(t)] /\ KnowsEnvironments(t)
      BY <1>3, <2>1 DEF CommitUpdate, Knowledge, SeenIsRow, Updating
    <3>2. t.env \in environments
      BY <3>1 DEF KnowsEnvironments, Updating
    <3>. QED BY <1>3, <2>1, <3>1, <3>2, FreshUpdate
  <2>3. /\ flags_changed' = Append(flags_changed, t.env)
        /\ UNCHANGED environments
    BY <1>3, <2>1 DEF CommitUpdate, Signal
  <2>4. Len(flags_changed) < MaxCommits
    <3>1. Cardinality(Open) \in Nat /\ Cardinality(Open) # 0
      <4>1. w \in Open
        BY <1>3 DEF CommitUpdate, Open
      <4>. QED BY <4>1, OpenFinite, FS_EmptySet
    <3>2. /\ Len(audit_log) \in Nat /\ Len(flags_changed) \in Nat /\ MaxCommits \in Nat
      BY ControlPlaneAssumption DEF IInv, TypeOK
    <3>. QED BY <3>1, <3>2 DEF Bounds, CommitsBounded, SignalsBounded
  <2>5. Table!Change(t.resource, t.env, t.body)
    BY <2>2, <2>3, <2>4 DEF Table!Change, Exists, Table!Exists
  <2>. QED BY <2>2, <2>5 DEF Table!TableNext, Resources, Table!Resources
<1>4. ASSUME NEW w \in Workers, Step(w)
      PROVE  \/ UNCHANGED <<environments, configs, flags_changed>>
             \/ CommitCreate(w)
             \/ CommitUpdate(w)
  <2>1. ASSUME Flush(w) \/ FlushConflict(w) \/ Rollback(w)
        PROVE  UNCHANGED <<environments, configs, flags_changed>>
    BY <2>1 DEF Flush, FlushConflict, Rollback
  <2>2. \A action, x, env, seeds :
          Create(w, action, x, env, seeds) => UNCHANGED <<environments, configs, flags_changed>>
    BY DEF Create
  <2>3. \A action, r, e, body :
          Load(w, action, r, e, body) => UNCHANGED <<environments, configs, flags_changed>>
    BY DEF Load
  <2>4. CASE \/ BeginCreateProject(w)
             \/ \E e \in Environments : BeginCreateEnvironment(w, e)
             \/ \E f \in Flags : BeginCreateFlag(w, f)
             \/ \E s \in Segments : BeginCreateSegment(w, s)
    BY <2>2, <2>4 DEF BeginCreateProject, BeginCreateEnvironment, BeginCreateFlag,
                      BeginCreateSegment
  <2>5. CASE \E f \in Flags, e \in Environments, body \in Contents :
               BeginUpdateFlagConfig(w, f, e, body)
    BY <2>3, <2>5 DEF BeginUpdateFlagConfig
  <2>6. CASE \E s \in Segments, e \in Environments, body \in Contents :
               BeginUpdateSegmentConfig(w, s, e, body)
    BY <2>3, <2>6 DEF BeginUpdateSegmentConfig
  <2>7. CASE Finish(w) \/ Rollback(w)
    BY <2>1, <2>7 DEF Finish
  <2>. QED BY <1>4, <2>4, <2>5, <2>6, <2>7 DEF Step
<1>5. CASE Quiescent \/ UNCHANGED vars
  BY <1>5 DEF Quiescent, vars
<1>. QED BY <1>1, <1>2, <1>3, <1>4, <1>5 DEF Next

(***************************************************************************)
(* In every behaviour in which no two PUTs of one row overlap, and with    *)
(* notifications on, the handlers keep the promise the data plane is       *)
(* written against (flags.py:72-88,123-165, segments.py:69-117).           *)
(***************************************************************************)
THEOREM ImplementsTable ==
  ASSUME NotifyBackend = "postgres"
  PROVE  Spec /\ []Apart => KeepsTablePromise
<1>1. IInv /\ Bounds /\ Knowledge /\ [Next]_vars => [Table!TableNext]_Table!tableVars
  BY TableStep
<1>. QED BY <1>1, TableStart, NextBounds, NextKnowledge, Invariance, PTL
     DEF Spec, KeepsTablePromise, Table!TableSpec

(***************************************************************************)
(* A PUT that commits over the row it loaded replaces the whole of it      *)
(* (schemas/flag.py:135), although its UPDATE names only the columns that  *)
(* changed, and whatever else is under way (flags.py:138-164).             *)
(***************************************************************************)
THEOREM PutsReplaceRows == Spec => PutReplacesRow
<1>. DEFINE Replaces ==
       \A w \in Workers :
         (/\ txn[w].action \in Updates
          /\ audit_log' # audit_log
          /\ txn'[w] # txn[w]
          /\ txn[w].seen = configs[Key(txn[w])]) =>
           configs' = [configs EXCEPT ![Key(txn[w])] =
                         [content |-> txn[w].body, version |-> @.version + 1]]
<1>1. IInv /\ [Next]_vars => [Replaces]_vars
  <2>. SUFFICES ASSUME IInv, [Next]_vars, NEW w \in Workers,
                       txn[w].action \in Updates, audit_log' # audit_log, txn'[w] # txn[w],
                       txn[w].seen = configs[Key(txn[w])]
                PROVE  configs' = [configs EXCEPT ![Key(txn[w])] =
                                     [content |-> txn[w].body, version |-> @.version + 1]]
    OBVIOUS
  <2>1. PICK v \in Workers : CommitCreate(v) \/ CommitUpdate(v)
    BY DEF Next, Quiescent, vars, Step, Finish, BeginCreateProject,
           BeginCreateEnvironment, BeginCreateFlag, BeginCreateSegment, Create,
           BeginUpdateFlagConfig, BeginUpdateSegmentConfig, Load, Flush, FlushConflict,
           Rollback
  <2>2. v = w
    BY <2>1 DEF CommitCreate, CommitUpdate, IInv, TypeOK
  <2>3. CommitUpdate(w)
    BY <2>1, <2>2 DEF CommitCreate
  <2>. QED BY <2>3, FreshUpdate
<1>. QED BY <1>1, Invariance, PTL DEF Spec, PutReplacesRow
=============================================================================
