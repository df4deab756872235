-------------------------- MODULE ControlPlaneProofs --------------------------
(***************************************************************************)
(* Proofs about ControlPlane, for any number of workers, any catalog,      *)
(* columns and values, and any bound.                                      *)
(***************************************************************************)
EXTENDS ControlPlane, FiniteSetTheorems, TLAPS

(* The requests that create a catalog row *)
Creations ==
  {"project.created", "environment.created", "segment.created", "flag.created"}

(* What an open transaction is about *)
TxnShape(t) ==
  /\ t.stage # "idle" => t.action # "none"
  /\ t.stage = "loaded" => t.action \in Updates
  /\ (t.stage # "idle" /\ t.action = "flag.targeting.updated") =>
       /\ t.resource \in flags /\ t.env \in Environments
       /\ t.seen.version # 0 /\ Exists(Key(t))
  /\ (t.stage # "idle" /\ t.action = "segment.updated") =>
       t.resource \in Segments /\ t.env \in Environments
  /\ (t.stage # "idle" /\ t.action = "project.created") =>
       t.resource = Project /\ t.seeds = {}
  /\ (t.stage # "idle" /\ t.action = "environment.created") =>
       t.resource \in Environments /\ t.seeds = {}
  /\ (t.stage # "idle" /\ t.action = "segment.created") =>
       t.resource \in Segments /\ t.seeds = {}
  /\ (t.stage # "idle" /\ t.action = "flag.created") =>
       t.resource \in Flags \ flags

(* The unique index admits one uncommitted INSERT of a key. *)
OneCreator ==
  \A v, w \in Workers :
    (/\ v # w
     /\ txn[v].stage = "flushed" /\ txn[v].action \notin Updates
     /\ txn[w].stage = "flushed" /\ txn[w].action \notin Updates)
      => txn[v].resource # txn[w].resource

(* Only updates of flags carry a diff, and they carry one. *)
EntryShape(a) ==
  /\ a.action = "flag.targeting.updated" =>
       a.resource \in flags /\ \E d \in [before : Row, after : Row] : a.diff = {d}
  /\ a.action = "segment.updated" => a.resource \in Segments

(* A flag has no rows before it is created. *)
NoRowsBeforeFlag ==
  \A f \in Flags \ flags, e \in Environments : ~Exists(<<f, e>>)

Shapes ==
  /\ \A w \in Workers : TxnShape(txn[w])
  /\ OneCreator
  /\ \A i \in DOMAIN audit_log : EntryShape(audit_log[i])
  /\ NoRowsBeforeFlag

IInv == TypeOK /\ Shapes /\ AuditReplays

-----------------------------------------------------------------------------
(* Types *)

LEMMA RowTypes ==
  /\ DefaultContent \in Contents /\ NoRow \in Row /\ SeedRow \in Row
  /\ Idle \in Txn
  /\ Idle.stage = "idle" /\ Idle.action = "none"
BY ControlPlaneAssumption
   DEF DefaultContent, Contents, NoRow, SeedRow, Row, Idle, Txn, Actions

(* The written row and the recorded diff are well formed. *)
LEMMA WrittenType ==
  ASSUME TypeOK, NEW t \in Txn, Key(t) \in Keys
  PROVE  /\ After(t) \in Row /\ Written(t) \in Row
         /\ Written(t).version = t.seen.version + 1
         /\ After(t).version = t.seen.version + 1
         /\ After(t).content = t.body
         /\ t.seen.version # 0 =>
              \A c \in Columns : Written(t).content[c] =
                IF t.body[c] # t.seen.content[c] THEN t.body[c]
                                                 ELSE configs[Key(t)].content[c]
<1>1. /\ t.body \in Contents /\ t.seen \in Row
      /\ configs[Key(t)] \in Row
  BY DEF TypeOK, Txn, Actions
<1>2. t.seen.version + 1 \in Nat
  BY <1>1 DEF Row
<1>3. After(t) \in Row
  BY <1>1, <1>2 DEF After, NextVersion, Row
<1>. DEFINE merged == [c \in Columns |-> IF t.body[c] # t.seen.content[c]
                                         THEN t.body[c]
                                         ELSE configs[Key(t)].content[c]]
<1>4. merged \in Contents
  BY <1>1 DEF Contents, Row
<1>5. CASE IsInsert(t)
  BY <1>3, <1>5 DEF Written, After, NextVersion, IsInsert
<1>6. CASE ~IsInsert(t)
  <2>1. Written(t) = [content |-> merged, version |-> t.seen.version + 1]
    BY <1>6 DEF Written, NextVersion
  <2>. QED BY <1>2, <1>3, <1>4, <2>1 DEF Row, After, NextVersion
<1>. QED BY <1>5, <1>6

-----------------------------------------------------------------------------
(* The audit log *)

Matches(a, k) == a.action \in Updates /\ <<a.resource, a.env>> = k
Shows(a, c) == \E d \in a.diff : d.before.content[c] # d.after.content[c]

(* Appending an entry adds at most its index to what is known of a row. *)
LEMMA LogGrows ==
  ASSUME audit_log \in Seq(AuditEntry), NEW a \in AuditEntry,
         audit_log' = Append(audit_log, a), NEW k, NEW c
  PROVE  LET n == Len(audit_log) + 1 IN
         /\ n \in Nat /\ audit_log'[n] = a
         /\ \A i \in DOMAIN audit_log : i \in Int /\ i < n /\ audit_log'[i] = audit_log[i]
         /\ DOMAIN audit_log' = DOMAIN audit_log \cup {n}
         /\ UpdatesOf(k)' = UpdatesOf(k) \cup (IF Matches(a, k) THEN {n} ELSE {})
         /\ ChangesOf(k, c)' = ChangesOf(k, c) \cup
                                 (IF Matches(a, k) /\ Shows(a, c) THEN {n} ELSE {})
<1>. DEFINE n == Len(audit_log) + 1
<1>1. /\ n \in Nat /\ audit_log'[n] = a
      /\ \A i \in DOMAIN audit_log : i \in Int /\ i < n /\ audit_log'[i] = audit_log[i]
      /\ DOMAIN audit_log' = DOMAIN audit_log \cup {n}
  OBVIOUS
<1>. HIDE DEF n
<1>2. UpdatesOf(k)' = UpdatesOf(k) \cup (IF Matches(a, k) THEN {n} ELSE {})
  BY <1>1 DEF UpdatesOf, Matches
<1>3. ChangesOf(k, c)' = ChangesOf(k, c) \cup
                           (IF Matches(a, k) /\ Shows(a, c) THEN {n} ELSE {})
  <2>1. ASSUME NEW i
        PROVE  i \in ChangesOf(k, c)' <=>
                 \/ i \in ChangesOf(k, c)
                 \/ Matches(a, k) /\ Shows(a, c) /\ i = n
    <3>1. i \in UpdatesOf(k) => i \in DOMAIN audit_log
      BY DEF UpdatesOf
    <3>. QED BY <1>1, <1>2, <3>1 DEF ChangesOf, Shows
  <2>. QED BY <2>1
<1>. QED BY <1>1, <1>2, <1>3 DEF n

(* Whether an unchanged row replays does not depend on others' entries. *)
ReplaysAlike(k) ==
  /\ UpdatesOf(k)' = UpdatesOf(k)
  /\ configs'[k] = configs[k] =>
       /\ ReplaysVersion(k) => ReplaysVersion(k)'
       /\ \A c \in Columns : ReplaysContent(k, c) => ReplaysContent(k, c)'

LEMMA OthersReplayAlike ==
  ASSUME audit_log \in Seq(AuditEntry), NEW a \in AuditEntry,
         audit_log' = Append(audit_log, a), NEW k, ~Matches(a, k)
  PROVE  ReplaysAlike(k)
<1>1. /\ UpdatesOf(k)' = UpdatesOf(k)
      /\ \A i \in DOMAIN audit_log : audit_log'[i] = audit_log[i]
  BY LogGrows
<1>2. UpdatesOf(k) \subseteq DOMAIN audit_log
  BY DEF UpdatesOf
<1>3. (configs'[k] = configs[k] /\ ReplaysVersion(k)) => ReplaysVersion(k)'
  BY <1>1, <1>2 DEF ReplaysVersion
<1>4. ASSUME NEW c \in Columns, configs'[k] = configs[k], ReplaysContent(k, c)
      PROVE  ReplaysContent(k, c)'
  <2>1. ChangesOf(k, c)' = ChangesOf(k, c)
    BY <1>1, <1>2 DEF ChangesOf
  <2>2. ChangesOf(k, c) \subseteq DOMAIN audit_log
    BY <1>2 DEF ChangesOf
  <2>. QED BY <1>1, <1>4, <2>1, <2>2 DEF ReplaysContent
<1>. QED BY <1>1, <1>3, <1>4 DEF ReplaysAlike

-----------------------------------------------------------------------------
(* Initially, and by steps that only move a transaction *)

LEMMA InitIInv == Init => IInv
<1>. SUFFICES ASSUME Init PROVE IInv
  OBVIOUS
<1>. USE DEF Init
<1>1. TypeOK
  BY RowTypes DEF TypeOK
<1>2. \A k \in Keys : ~Exists(k)
  BY DEF Exists, NoRow
<1>3. AuditReplays
  BY <1>2 DEF AuditReplays, Keys, Resources
<1>4. \A w \in Workers : TxnShape(txn[w]) /\ txn[w].stage = "idle"
  BY DEF TxnShape, Idle, Updates
<1>5. \A i \in DOMAIN audit_log : EntryShape(audit_log[i])
  OBVIOUS
<1>6. NoRowsBeforeFlag
  BY <1>2 DEF NoRowsBeforeFlag, Keys, Resources
<1>. QED BY <1>1, <1>3, <1>4, <1>5, <1>6 DEF IInv, Shapes, OneCreator

LEMMA TxnStepKeepsIInv ==
  ASSUME IInv, NEW w \in Workers, NEW t \in Txn, TxnShape(t),
         (t.stage = "flushed" /\ t.action \notin Updates) =>
            \A v \in Workers \ {w} :
              (txn[v].stage = "flushed" /\ txn[v].action \notin Updates)
                => txn[v].resource # t.resource,
         txn' = [txn EXCEPT ![w] = t],
         UNCHANGED <<projects, environments, flags, segments, configs, flags_changed,
                     audit_log>>
  PROVE  IInv'
<1>. USE DEF IInv
<1>1. /\ txn' \in [Workers -> Txn]
      /\ \A v \in Workers : txn'[v] = IF v = w THEN t ELSE txn[v]
  BY DEF TypeOK
<1>2. TypeOK'
  BY <1>1 DEF TypeOK
<1>3. \A v \in Workers : TxnShape(txn[v])'
  BY <1>1 DEF Shapes, TxnShape, Exists, Key
<1>4. OneCreator'
  BY <1>1 DEF Shapes, OneCreator
<1>5. /\ \A i \in DOMAIN audit_log' : EntryShape(audit_log[i])'
      /\ NoRowsBeforeFlag'
  BY DEF Shapes, EntryShape, NoRowsBeforeFlag, Exists
<1>6. AuditReplays'
  BY DEF AuditReplays, ReplaysContent, ReplaysVersion, ChangesOf, UpdatesOf, Exists
<1>. QED BY <1>2, <1>3, <1>4, <1>5, <1>6 DEF Shapes

LEMMA EndKeepsIInv ==
  ASSUME IInv, NEW w \in Workers, txn' = [txn EXCEPT ![w] = Idle],
         UNCHANGED <<projects, environments, flags, segments, configs, flags_changed,
                     audit_log>>
  PROVE  IInv'
<1>1. Idle \in Txn /\ TxnShape(Idle) /\ Idle.stage = "idle"
  BY RowTypes DEF TxnShape
<1>. QED BY <1>1, TxnStepKeepsIInv

LEMMA CreateStepKeepsIInv ==
  ASSUME IInv, NEW w \in Workers, NEW x \in Resources \cup Environments \cup {Project},
         NEW action \in Creations,
         NEW env \in Environments \cup {None}, NEW seeds \in SUBSET Environments,
         Create(w, action, x, env, seeds),
         action = "project.created" => x = Project /\ seeds = {},
         action = "environment.created" => x \in Environments /\ seeds = {},
         action = "segment.created" => x \in Segments /\ seeds = {},
         action = "flag.created" => x \in Flags \ flags
  PROVE  IInv'
<1>. USE DEF IInv
<1>. DEFINE t == [Idle EXCEPT !.stage = "flushed", !.action = action, !.resource = x,
                              !.env = env, !.seeds = seeds]
<1>2. /\ t \in Txn
      /\ t.stage = "flushed" /\ t.action = action /\ t.resource = x /\ t.seeds = seeds
  BY RowTypes DEF Txn, Actions, Creations
<1>3. TxnShape(t)
  BY <1>2 DEF TxnShape, Updates, Creations
<1>4. ASSUME NEW v \in Workers \ {w}, txn[v].stage = "flushed",
             txn[v].action \notin Updates
      PROVE  txn[v].resource # t.resource
  BY <1>2, <1>4 DEF Create, Creating
<1>. HIDE DEF t
<1>5. /\ txn' = [txn EXCEPT ![w] = t]
      /\ UNCHANGED <<projects, environments, flags, segments, configs, flags_changed,
                     audit_log>>
  BY DEF Create, t
<1>. QED BY <1>2, <1>3, <1>4, <1>5, TxnStepKeepsIInv

LEMMA CreateKeepsIInv ==
  ASSUME IInv, NEW w \in Workers,
         \/ BeginCreateProject(w)
         \/ \E e \in Environments : BeginCreateEnvironment(w, e)
         \/ \E s \in Segments : BeginCreateSegment(w, s)
         \/ \E f \in Flags : BeginCreateFlag(w, f)
  PROVE  IInv'
<1>0. CASE BeginCreateProject(w)
  BY <1>0, CreateStepKeepsIInv DEF BeginCreateProject, Creations
<1>1. CASE \E e \in Environments : BeginCreateEnvironment(w, e)
  BY <1>1, CreateStepKeepsIInv DEF BeginCreateEnvironment, Creations
<1>2. CASE \E s \in Segments : BeginCreateSegment(w, s)
  BY <1>2, CreateStepKeepsIInv DEF BeginCreateSegment, Resources, Creations
<1>3. CASE \E f \in Flags : BeginCreateFlag(w, f)
  BY <1>3, CreateStepKeepsIInv DEF BeginCreateFlag, Resources, Creations, IInv, TypeOK
<1>. QED BY <1>0, <1>1, <1>2, <1>3

LEMMA LoadKeepsIInv ==
  ASSUME IInv, NEW w \in Workers, NEW e \in Environments, NEW body \in Contents,
         \/ \E f \in Flags : BeginUpdateFlagConfig(w, f, e, body)
         \/ \E s \in Segments : BeginUpdateSegmentConfig(w, s, e, body)
  PROVE  IInv'
<1>. USE DEF IInv
<1>1. PICK r \in Resources, action \in Updates :
        /\ Load(w, action, r, e, body)
        /\ action = "flag.targeting.updated" => r \in flags /\ Exists(<<r, e>>)
        /\ action = "segment.updated" => r \in Segments
  BY DEF BeginUpdateFlagConfig, BeginUpdateSegmentConfig, Resources, Updates
<1>. DEFINE t == [stage |-> "loaded", action |-> action, resource |-> r, env |-> e,
                  seen |-> configs[<<r, e>>], body |-> body, seeds |-> {}]
<1>2. t \in Txn
  <2>1. configs[<<r, e>>] \in Row
    BY DEF TypeOK, Keys
  <2>. QED BY <2>1 DEF Txn, Actions, Updates
<1>3. TxnShape(t) /\ t.stage = "loaded"
  BY <1>1 DEF TxnShape, Updates, Exists, Key
<1>. HIDE DEF t
<1>4. /\ txn' = [txn EXCEPT ![w] = t]
      /\ UNCHANGED <<projects, environments, flags, segments, configs, flags_changed,
                     audit_log>>
  BY <1>1 DEF Load, t
<1>. QED BY <1>2, <1>3, <1>4, TxnStepKeepsIInv

LEMMA FlushKeepsIInv ==
  ASSUME IInv, NEW w \in Workers, Flush(w)
  PROVE  IInv'
<1>. USE DEF IInv
<1>. DEFINE t == [txn[w] EXCEPT !.stage = "flushed"]
<1>1. /\ txn[w] \in Txn /\ TxnShape(txn[w]) /\ txn[w].stage = "loaded"
  BY DEF TypeOK, Shapes, Flush
<1>2. /\ t \in Txn /\ t.stage = "flushed" /\ t.action = txn[w].action
      /\ t.resource = txn[w].resource /\ t.env = txn[w].env /\ t.seen = txn[w].seen
      /\ t.seeds = txn[w].seeds
  BY <1>1 DEF Txn, Actions
<1>3. TxnShape(t) /\ t.action \in Updates
  BY <1>1, <1>2 DEF TxnShape, Key
<1>. HIDE DEF t
<1>4. /\ txn' = [txn EXCEPT ![w] = t]
      /\ UNCHANGED <<projects, environments, flags, segments, configs, flags_changed,
                     audit_log>>
  BY DEF Flush, t
<1>. QED BY <1>2, <1>3, <1>4, TxnStepKeepsIInv

-----------------------------------------------------------------------------
(* The commits *)

(* A created row is recorded; a created flag's rows start at their defaults. *)
LEMMA CommitCreateKeepsIInv ==
  ASSUME IInv, NEW w \in Workers, CommitCreate(w)
  PROVE  IInv'
<1>. USE DEF IInv
<1>. DEFINE t == txn[w]
            a == [action |-> t.action, resource |-> t.resource, env |-> t.env,
                  diff |-> {}]
<1>1. /\ t \in Txn /\ TxnShape(t) /\ t.stage = "flushed" /\ t.action \notin Updates
      /\ t.action \in Creations
  BY DEF CommitCreate, TypeOK, Shapes, TxnShape, Txn, Actions, Updates, Creations
<1>2. a \in AuditEntry /\ ~ \E k : Matches(a, k)
  <2>1. t.resource \in Resources \cup Environments \cup {Project}
    BY <1>1 DEF TxnShape, Resources, Creations
  <2>. QED BY <1>1, <2>1 DEF AuditEntry, Txn, Actions, Matches, Updates, Creations
<1>3. PICK x : x = t.resource
  OBVIOUS
<1>4. PICK seeds \in SUBSET Environments :
        /\ seeds = t.seeds
        /\ x \notin Flags => seeds = {}
        /\ x \in Flags => x \notin flags
  BY <1>1, <1>3, ControlPlaneAssumption DEF Txn, Actions, TxnShape, Creations
<1>5. /\ projects' = projects \cup ({x} \cap {Project})
      /\ environments' = environments \cup ({x} \cap Environments)
      /\ flags' = flags \cup ({x} \cap Flags)
      /\ segments' = segments \cup ({x} \cap Segments)
      /\ configs' = [k \in Keys |-> IF k \in {x} \X seeds THEN SeedRow ELSE configs[k]]
      /\ audit_log' = Append(audit_log, a)
      /\ txn' = [txn EXCEPT ![w] = Idle]
      /\ UNCHANGED flags_changed
  BY <1>3, <1>4 DEF CommitCreate, Record
<1>6. /\ txn' \in [Workers -> Txn]
      /\ \A v \in Workers : txn'[v] = IF v = w THEN Idle ELSE txn[v]
  BY <1>5, RowTypes DEF TypeOK
<1>7. TypeOK'
  BY <1>2, <1>5, <1>6, RowTypes DEF TypeOK
<1>8. ASSUME NEW v \in Workers
      PROVE  TxnShape(txn[v])'
  <2>0. \A k \in Keys : Exists(k) => Exists(k)'
    BY <1>5 DEF Exists, SeedRow
  <2>1. CASE v = w
    BY <1>6, <2>1, RowTypes DEF TxnShape
  <2>2. CASE v # w
    <3>1. txn'[v] = txn[v] /\ TxnShape(txn[v]) /\ txn[v] \in Txn
      BY <1>6, <2>2 DEF Shapes, TypeOK
    <3>2. ASSUME txn[v].stage # "idle", txn[v].action = "flag.created"
          PROVE  txn[v].resource # x
      BY <1>1, <1>3, <2>2, <3>1, <3>2 DEF Shapes, OneCreator, TxnShape, Txn, Actions, Updates
    <3>3. ASSUME txn[v].stage # "idle", txn[v].action = "flag.targeting.updated"
          PROVE  Exists(Key(txn[v]))'
      <4>1. PICK k \in Keys : k = Key(txn[v]) /\ Exists(k)
        BY <3>1, <3>3 DEF TxnShape, Key, Keys, Resources, TypeOK
      <4>2. Key(txn[v])' = k
        BY <3>1, <4>1 DEF Key
      <4>. QED BY <2>0, <4>1, <4>2 DEF Exists
    <3>. QED BY <1>5, <3>1, <3>2, <3>3 DEF TxnShape
  <2>. QED BY <2>1, <2>2
<1>9. OneCreator'
  BY <1>6, RowTypes DEF Shapes, OneCreator
<1>10. \A i \in DOMAIN audit_log' : EntryShape(audit_log[i])'
  <2>1. /\ DOMAIN audit_log' = DOMAIN audit_log \cup {Len(audit_log) + 1}
        /\ audit_log'[Len(audit_log) + 1] = a
        /\ \A i \in DOMAIN audit_log : audit_log'[i] = audit_log[i]
    BY <1>2, <1>5, LogGrows DEF TypeOK
  <2>2. a.action \notin Updates
    BY <1>1
  <2>. QED BY <1>5, <2>1, <2>2 DEF Shapes, EntryShape, Updates
<1>11. NoRowsBeforeFlag'
  BY <1>4, <1>5 DEF Shapes, NoRowsBeforeFlag, Exists, Keys, Resources
<1>12. AuditReplays'
  <2>1. ASSUME NEW k, ~Matches(a, k)
        PROVE  ReplaysAlike(k)
    BY <1>2, <1>5, <2>1, OthersReplayAlike DEF TypeOK
  <2>2. ASSUME NEW k \in Flags \X Environments
        PROVE  \/ configs'[k] = configs[k]
               \/ configs'[k] = SeedRow /\ k[1] \notin flags
    BY <1>4, <1>5, <2>2 DEF Keys, Resources
  <2>3. ASSUME NEW k \in Flags \X Environments, Exists(k)'
        PROVE  (ReplaysVersion(k) /\ \A c \in Columns : ReplaysContent(k, c))'
    <3>1. CASE configs'[k] = configs[k]
      <4>1. ReplaysVersion(k) /\ \A c \in Columns : ReplaysContent(k, c)
        BY <2>3, <3>1 DEF AuditReplays, Exists
      <4>. QED BY <1>2, <2>1, <3>1, <4>1 DEF ReplaysAlike
    <3>2. CASE configs'[k] = SeedRow /\ k[1] \notin flags
      <4>1. UpdatesOf(k) = {}
        BY <3>2, ControlPlaneAssumption DEF UpdatesOf, Shapes, EntryShape, Updates
      <4>2. UpdatesOf(k)' = {}
        BY <1>2, <2>1, <4>1 DEF ReplaysAlike
      <4>3. \A c : ChangesOf(k, c)' = {}
        BY <4>2 DEF ChangesOf
      <4>. QED BY <3>2, <4>2, <4>3
               DEF ReplaysVersion, ReplaysContent, SeedRow, DefaultContent
    <3>. QED BY <2>2, <3>1, <3>2
  <2>. QED BY <2>3 DEF AuditReplays
<1>. QED BY <1>7, <1>8, <1>9, <1>10, <1>11, <1>12 DEF Shapes

(* An updated row holds, column by column, what its own entry recorded or  *)
(* what it held before.                                                    *)
LEMMA CommitUpdateKeepsIInv ==
  ASSUME IInv, NEW w \in Workers, CommitUpdate(w)
  PROVE  IInv'
<1>. USE DEF IInv
<1>1. PICK t \in Txn :
        /\ t = txn[w] /\ TxnShape(t) /\ t.stage = "flushed" /\ t.action \in Updates
  BY DEF CommitUpdate, TypeOK, Shapes
<1>2. /\ t.resource \in Resources /\ t.env \in Environments
      /\ t.action = "flag.targeting.updated" =>
           t.resource \in flags /\ t.seen.version # 0 /\ Exists(Key(t))
      /\ t.action = "segment.updated" => t.resource \in Segments
      /\ t.action \in {"flag.targeting.updated", "segment.updated"}
  BY <1>1 DEF TxnShape, Updates, Resources, TypeOK
<1>3. PICK key \in Keys : key = <<t.resource, t.env>> /\ key = Key(t)
  BY <1>2 DEF Key, Keys
<1>4. PICK row \in Row : row = Written(t) /\ row.version = t.seen.version + 1
  BY <1>3, WrittenType
<1>5. PICK a \in AuditEntry :
        /\ a = [action |-> t.action, resource |-> t.resource, env |-> t.env,
                diff |-> Diff(t)]
        /\ a.action = t.action /\ a.resource = t.resource /\ a.env = t.env
        /\ a.diff = Diff(t)
  <2>1. [before |-> t.seen, after |-> After(t)] \in [before : Row, after : Row]
    BY <1>3, WrittenType DEF Txn, Actions
  <2>2. PICK diff \in SUBSET [before : Row, after : Row] : diff = Diff(t)
    BY <2>1 DEF Diff
  <2>3. t.env \in Environments \cup {None}
    BY <1>2
  <2>. DEFINE b == [action |-> t.action, resource |-> t.resource, env |-> t.env,
                    diff |-> diff]
  <2>4. b \in AuditEntry
    BY <1>2, <2>3 DEF AuditEntry, Actions
  <2>. QED BY <2>2, <2>4
<1>6. /\ configs' = [configs EXCEPT ![key] = row]
      /\ audit_log' = Append(audit_log, a)
      /\ txn' = [txn EXCEPT ![w] = Idle]
      /\ flags_changed' = Signal(flags_changed, t.env)
      /\ UNCHANGED <<projects, environments, flags, segments>>
  BY <1>1, <1>3, <1>4, <1>5 DEF CommitUpdate, Record
<1>7. /\ configs' \in [Keys -> Row]
      /\ \A k \in Keys : configs'[k] = IF k = key THEN row ELSE configs[k]
  BY <1>6 DEF TypeOK
<1>8. /\ txn' \in [Workers -> Txn]
      /\ \A v \in Workers : txn'[v] = IF v = w THEN Idle ELSE txn[v]
  BY <1>6, RowTypes DEF TypeOK
<1>9. TypeOK'
  <2>1. flags_changed' \in Seq(Environments)
    BY <1>2, <1>6 DEF TypeOK, Signal
  <2>2. audit_log' \in Seq(AuditEntry)
    BY <1>6 DEF TypeOK
  <2>. QED BY <1>6, <1>7, <1>8, <2>1, <2>2 DEF TypeOK
<1>10. ASSUME NEW v \in Workers
       PROVE  TxnShape(txn[v])'
  <2>1. row.version # 0
    BY <1>4 DEF Txn, Actions, Row
  <2>2. \A k \in Keys : Exists(k) => Exists(k)'
    BY <1>7, <2>1 DEF Exists
  <2>3. CASE v = w
    BY <1>8, <2>3, RowTypes DEF TxnShape
  <2>4. CASE v # w
    <3>1. txn'[v] = txn[v] /\ TxnShape(txn[v])
      BY <1>8, <2>4 DEF Shapes
    <3>2. ASSUME txn[v].stage # "idle", txn[v].action = "flag.targeting.updated"
          PROVE  Exists(Key(txn[v]))'
      <4>1. PICK k \in Keys : k = Key(txn[v]) /\ Exists(k)
        BY <3>1, <3>2 DEF TxnShape, Key, Keys, Resources, TypeOK
      <4>2. Key(txn[v])' = k
        BY <3>1, <4>1 DEF Key
      <4>. QED BY <2>2, <4>1, <4>2 DEF Exists
    <3>. QED BY <1>6, <3>1, <3>2 DEF TxnShape
  <2>. QED BY <2>3, <2>4
<1>11. OneCreator'
  BY <1>8, RowTypes DEF Shapes, OneCreator
<1>12. \A i \in DOMAIN audit_log' : EntryShape(audit_log[i])'
  <2>1. /\ DOMAIN audit_log' = DOMAIN audit_log \cup {Len(audit_log) + 1}
        /\ audit_log'[Len(audit_log) + 1] = a
        /\ \A i \in DOMAIN audit_log : audit_log'[i] = audit_log[i]
    BY <1>6, LogGrows DEF TypeOK
  <2>2. EntryShape(a)
    <3>1. [before |-> t.seen, after |-> After(t)] \in [before : Row, after : Row]
      BY <1>3, WrittenType DEF Txn, Actions
    <3>. QED BY <1>2, <1>5, <3>1 DEF EntryShape, Diff
  <2>. QED BY <1>6, <2>1, <2>2 DEF Shapes, EntryShape
<1>13. NoRowsBeforeFlag'
  <2>1. ASSUME NEW f \in Flags \ flags, NEW e \in Environments
        PROVE  configs'[<<f, e>>] = configs[<<f, e>>]
    BY <1>2, <1>3, <1>7, ControlPlaneAssumption DEF Keys, Resources
  <2>. QED BY <1>6, <2>1 DEF Shapes, NoRowsBeforeFlag, Exists
<1>14. ASSUME NEW k \in Flags \X Environments, Exists(k)'
       PROVE  (ReplaysVersion(k) /\ \A c \in Columns : ReplaysContent(k, c))'
  <2>1. k \in Keys
    BY DEF Keys, Resources
  <2>2. CASE k # key
    <3>1. configs'[k] = configs[k] /\ ~Matches(a, k)
      BY <1>3, <1>5, <1>7, <2>1, <2>2 DEF Matches
    <3>2. ReplaysVersion(k) /\ \A c \in Columns : ReplaysContent(k, c)
      BY <1>14, <3>1 DEF AuditReplays, Exists
    <3>. QED BY <1>6, <3>1, <3>2, OthersReplayAlike DEF ReplaysAlike, TypeOK
  <2>3. CASE k = key
    <3>. DEFINE n == Len(audit_log) + 1
    <3>1. /\ t.action = "flag.targeting.updated" /\ t.seen.version # 0
          /\ configs'[k] = row
      BY <1>2, <1>3, <1>7, <2>1, <2>3, ControlPlaneAssumption
    <3>2. PICK d : /\ a.diff = {d} /\ d = [before |-> t.seen, after |-> After(t)]
      BY <1>5, <3>1 DEF Diff
    <3>3. d.after.version = row.version /\ d.after.content = t.body
          /\ d.before.content = t.seen.content
      BY <1>3, <1>4, <3>2, WrittenType
    <3>4. /\ n \in Nat /\ audit_log'[n] = a
          /\ \A i \in DOMAIN audit_log : i \in Int /\ i < n /\ audit_log'[i] = audit_log[i]
          /\ DOMAIN audit_log' = DOMAIN audit_log \cup {n}
      BY <1>6, LogGrows DEF TypeOK
    <3>5. Matches(a, k)
      BY <1>1, <1>3, <1>5, <2>3 DEF Matches
    <3>6. UpdatesOf(k) \subseteq DOMAIN audit_log
      BY DEF UpdatesOf
    <3>7. UpdatesOf(k)' = UpdatesOf(k) \cup {n}
      BY <3>4, <3>5 DEF UpdatesOf, Matches
    <3>. HIDE DEF n
    <3>8. ReplaysVersion(k)'
      <4>1. ASSUME NEW i \in UpdatesOf(k)', \A j \in UpdatesOf(k)' : j <= i
            PROVE  i = n
        BY <3>4, <3>6, <3>7, <4>1
      <4>. QED BY <3>1, <3>2, <3>3, <3>4, <3>7, <4>1 DEF ReplaysVersion
    <3>9. ASSUME NEW c \in Columns
          PROVE  ReplaysContent(k, c)'
      <4>1. CASE t.body[c] # t.seen.content[c]
        <5>1. configs'[k].content[c] = d.after.content[c]
          BY <1>3, <1>4, <3>1, <3>3, <4>1, WrittenType
        <5>2. n \in ChangesOf(k, c)'
          BY <3>2, <3>3, <3>4, <3>7, <4>1 DEF ChangesOf
        <5>3. ChangesOf(k, c)' \subseteq UpdatesOf(k)'
          BY DEF ChangesOf
        <5>4. ASSUME NEW i \in ChangesOf(k, c)', \A j \in ChangesOf(k, c)' : j <= i
              PROVE  i = n
          BY <3>4, <3>6, <3>7, <5>2, <5>3, <5>4
        <5>5. ASSUME NEW i \in ChangesOf(k, c)',
                     \A j \in ChangesOf(k, c)' : j <= i,
                     NEW b \in audit_log'[i].diff
              PROVE  configs'[k].content[c] = b.after.content[c]
          <6>1. audit_log'[i].diff = {d}
            BY <3>2, <3>4, <5>4, <5>5
          <6>. QED BY <5>1, <5>5, <6>1
        <5>. QED BY <5>2, <5>5 DEF ReplaysContent
      <4>2. CASE t.body[c] = t.seen.content[c]
        <5>1. row.content[c] = configs[k].content[c]
          BY <1>3, <1>4, <2>3, <3>1, <4>2, WrittenType
        <5>2. ReplaysContent(k, c)
          <6>1. Exists(k)
            BY <1>2, <1>3, <2>3, <3>1
          <6>. QED BY <6>1 DEF AuditReplays
        <5>3. ChangesOf(k, c)' = ChangesOf(k, c)
          BY <3>2, <3>3, <3>4, <3>6, <3>7, <4>2 DEF ChangesOf
        <5>4. ChangesOf(k, c) \subseteq DOMAIN audit_log
          BY <3>6 DEF ChangesOf
        <5>. QED BY <3>1, <3>4, <5>1, <5>2, <5>3, <5>4 DEF ReplaysContent
      <4>. QED BY <4>1, <4>2
    <3>. QED BY <3>8, <3>9
  <2>. QED BY <2>2, <2>3
<1>15. AuditReplays'
  BY <1>14 DEF AuditReplays
<1>. QED BY <1>9, <1>10, <1>11, <1>12, <1>13, <1>15 DEF Shapes

-----------------------------------------------------------------------------
(* First PUTs of a segment's row *)

UpdatesSegment(t) == t.stage # "idle" /\ t.action = "segment.updated"

(* The row lock and the unique index admit one uncommitted update of a row. *)
OneUpdater ==
  \A v, w \in Workers :
    (/\ v # w
     /\ txn[v].stage = "flushed" /\ txn[v].action \in Updates
     /\ txn[w].stage = "flushed" /\ txn[w].action \in Updates)
      => Key(txn[v]) # Key(txn[w])

(* A row that was seen is there; a row that is being inserted is not. *)
SeenRows ==
  \A w \in Workers : UpdatesSegment(txn[w]) =>
    /\ ~IsInsert(txn[w]) => Exists(Key(txn[w]))
    /\ (txn[w].stage = "flushed" /\ IsInsert(txn[w])) => ~Exists(Key(txn[w]))

NoUpdatesBeforeRow ==
  \A s \in Segments, e \in Environments :
    ~Exists(<<s, e>>) => UpdatesOf(<<s, e>>) = {}

SegmentInv == OneUpdater /\ SeenRows /\ NoUpdatesBeforeRow /\ SegmentCreatedOnce

LEMMA InitSegmentInv == Init => SegmentInv
<1>. SUFFICES ASSUME Init PROVE SegmentInv
  OBVIOUS
<1>. USE DEF Init
<1>1. \A w \in Workers : txn[w].stage = "idle"
  BY DEF Idle
<1>2. \A k : UpdatesOf(k) = {}
  BY DEF UpdatesOf
<1>. QED BY <1>1, <1>2 DEF SegmentInv, OneUpdater, SeenRows, UpdatesSegment,
                           NoUpdatesBeforeRow, SegmentCreatedOnce

(* Steps that leave the tables alone *)
LEMMA TxnStepKeepsSegmentInv ==
  ASSUME IInv, SegmentInv, NEW w \in Workers, NEW t \in Txn,
         txn' = [txn EXCEPT ![w] = t], UNCHANGED <<configs, audit_log>>,
         (t.stage = "flushed" /\ t.action \in Updates) =>
            \A v \in Workers : ~Blocks(v, w) /\ Key(t) = Key(txn[w]),
         UpdatesSegment(t) =>
            /\ ~IsInsert(t) => Exists(Key(t))
            /\ (t.stage = "flushed" /\ IsInsert(t)) => ~Exists(Key(t))
  PROVE  SegmentInv'
<1>1. \A v \in Workers : txn'[v] = IF v = w THEN t ELSE txn[v]
  BY DEF IInv, TypeOK
<1>2. OneUpdater'
  BY <1>1 DEF SegmentInv, OneUpdater, Blocks, Key
<1>3. SeenRows'
  BY <1>1 DEF SegmentInv, SeenRows, UpdatesSegment, IsInsert, Exists, Key
<1>4. NoUpdatesBeforeRow' /\ SegmentCreatedOnce'
  BY DEF SegmentInv, NoUpdatesBeforeRow, SegmentCreatedOnce, UpdatesOf, Exists
<1>. QED BY <1>2, <1>3, <1>4 DEF SegmentInv

LEMMA BeginKeepsSegmentInv ==
  ASSUME IInv, SegmentInv, NEW w \in Workers,
         \/ BeginCreateProject(w)
         \/ \E e \in Environments : BeginCreateEnvironment(w, e)
         \/ \E f \in Flags : BeginCreateFlag(w, f)
         \/ \E s \in Segments : BeginCreateSegment(w, s)
         \/ \E f \in Flags, e \in Environments, body \in Contents :
               BeginUpdateFlagConfig(w, f, e, body)
         \/ \E s \in Segments, e \in Environments, body \in Contents :
               BeginUpdateSegmentConfig(w, s, e, body)
  PROVE  SegmentInv'
<1>1. ASSUME NEW x \in Resources \cup Environments \cup {Project},
             NEW action \in Creations,
             NEW env \in Environments \cup {None}, NEW seeds \in SUBSET Environments,
             Create(w, action, x, env, seeds)
      PROVE  SegmentInv'
  <2>. DEFINE t == [Idle EXCEPT !.stage = "flushed", !.action = action, !.resource = x,
                                !.env = env, !.seeds = seeds]
  <2>1. /\ t \in Txn /\ t.action \notin Updates /\ ~UpdatesSegment(t)
        /\ txn' = [txn EXCEPT ![w] = t] /\ UNCHANGED <<configs, audit_log>>
    BY <1>1, RowTypes DEF Create, Txn, Actions, Updates, UpdatesSegment, Creations
  <2>. HIDE DEF t
  <2>. QED BY <2>1, TxnStepKeepsSegmentInv
<1>2. ASSUME NEW r \in Resources, NEW action \in Updates, NEW e \in Environments,
             NEW body \in Contents, Load(w, action, r, e, body)
      PROVE  SegmentInv'
  <2>. DEFINE t == [stage |-> "loaded", action |-> action, resource |-> r, env |-> e,
                    seen |-> configs[<<r, e>>], body |-> body, seeds |-> {}]
  <2>1. configs[<<r, e>>] \in Row
    BY DEF IInv, TypeOK, Keys
  <2>2. /\ t \in Txn /\ t.stage = "loaded"
        /\ ~IsInsert(t) => Exists(Key(t))
        /\ txn' = [txn EXCEPT ![w] = t] /\ UNCHANGED <<configs, audit_log>>
    BY <1>2, <2>1 DEF Load, Txn, Actions, Updates, IsInsert, Exists, Key
  <2>. HIDE DEF t
  <2>. QED BY <2>2, TxnStepKeepsSegmentInv
<1>0. CASE BeginCreateProject(w)
  BY <1>0, <1>1 DEF BeginCreateProject, Creations
<1>3. CASE \E e \in Environments : BeginCreateEnvironment(w, e)
  BY <1>1, <1>3 DEF BeginCreateEnvironment, Creations
<1>4. CASE \E f \in Flags : BeginCreateFlag(w, f)
  BY <1>1, <1>4 DEF BeginCreateFlag, Resources, Creations, IInv, TypeOK
<1>5. CASE \E s \in Segments : BeginCreateSegment(w, s)
  BY <1>1, <1>5 DEF BeginCreateSegment, Resources, Creations
<1>6. CASE \E f \in Flags, e \in Environments, body \in Contents :
              BeginUpdateFlagConfig(w, f, e, body)
  BY <1>2, <1>6 DEF BeginUpdateFlagConfig, Resources, Updates
<1>7. CASE \E s \in Segments, e \in Environments, body \in Contents :
              BeginUpdateSegmentConfig(w, s, e, body)
  BY <1>2, <1>7 DEF BeginUpdateSegmentConfig, Resources, Updates
<1>. QED BY <1>0, <1>3, <1>4, <1>5, <1>6, <1>7

LEMMA FlushKeepsSegmentInv ==
  ASSUME IInv, SegmentInv, NEW w \in Workers, Flush(w)
  PROVE  SegmentInv'
<1>. DEFINE t == [txn[w] EXCEPT !.stage = "flushed"]
<1>1. txn[w] \in Txn /\ txn[w].stage = "loaded"
  BY DEF IInv, TypeOK, Flush
<1>2. /\ t \in Txn /\ t.stage = "flushed" /\ t.action = txn[w].action
      /\ t.resource = txn[w].resource /\ t.env = txn[w].env /\ t.seen = txn[w].seen
  BY <1>1 DEF Txn, Actions
<1>3. /\ txn' = [txn EXCEPT ![w] = t] /\ UNCHANGED <<configs, audit_log>>
  BY DEF Flush
<1>. HIDE DEF t
<1>4. Key(t) = Key(txn[w]) /\ (IsInsert(t) <=> IsInsert(txn[w]))
  BY <1>2 DEF Key, IsInsert
<1>5. UpdatesSegment(t) =>
        /\ ~IsInsert(t) => Exists(Key(t))
        /\ IsInsert(t) => ~Exists(Key(t))
  BY <1>1, <1>2, <1>4 DEF SegmentInv, SeenRows, UpdatesSegment, Flush
<1>6. \A v \in Workers : ~Blocks(v, w)
  BY DEF Flush
<1>. QED BY <1>2, <1>3, <1>4, <1>5, <1>6, TxnStepKeepsSegmentInv

LEMMA EndKeepsSegmentInv ==
  ASSUME IInv, SegmentInv, NEW w \in Workers, txn' = [txn EXCEPT ![w] = Idle],
         UNCHANGED <<configs, audit_log>>
  PROVE  SegmentInv'
<1>1. Idle \in Txn /\ Idle.stage # "flushed" /\ ~UpdatesSegment(Idle)
  BY RowTypes DEF UpdatesSegment
<1>. QED BY <1>1, TxnStepKeepsSegmentInv

(* No creation touches a segment's rows or their updates. *)
LEMMA CommitCreateKeepsSegmentInv ==
  ASSUME IInv, SegmentInv, NEW w \in Workers, CommitCreate(w)
  PROVE  SegmentInv'
<1>. DEFINE a == [action |-> txn[w].action, resource |-> txn[w].resource,
                  env |-> txn[w].env, diff |-> {}]
<1>1. /\ txn[w] \in Txn /\ TxnShape(txn[w]) /\ txn[w].stage = "flushed"
      /\ txn[w].action \in Creations
  BY DEF CommitCreate, IInv, TypeOK, Shapes, TxnShape, Txn, Actions, Updates, Creations
<1>2. a \in AuditEntry /\ audit_log' = Append(audit_log, a)
  <2>1. txn[w].resource \in Resources \cup Environments \cup {Project}
    BY <1>1 DEF TxnShape, Resources, Creations
  <2>. QED BY <1>1, <2>1 DEF AuditEntry, Txn, Actions, CommitCreate, Record, Creations
<1>3. ASSUME NEW k
      PROVE  UpdatesOf(k)' = UpdatesOf(k)
  <2>1. audit_log \in Seq(AuditEntry) /\ ~Matches(a, k)
    BY <1>1 DEF Matches, Updates, Creations, IInv, TypeOK
  <2>. QED BY <1>2, <2>1, OthersReplayAlike DEF ReplaysAlike
<1>4. ASSUME NEW s \in Segments, NEW e \in Environments
      PROVE  configs'[<<s, e>>] = configs[<<s, e>>]
  BY <1>1, ControlPlaneAssumption DEF CommitCreate, TxnShape, Keys, Resources, Creations
<1>5. \A v \in Workers : txn'[v] = IF v = w THEN Idle ELSE txn[v]
  BY DEF CommitCreate, IInv, TypeOK
<1>6. OneUpdater'
  BY <1>5, RowTypes DEF SegmentInv, OneUpdater, Key
<1>7. SeenRows'
  <2>1. ASSUME NEW v \in Workers, UpdatesSegment(txn[v])'
        PROVE  /\ v # w /\ txn'[v] = txn[v] /\ UpdatesSegment(txn[v])
               /\ Key(txn[v])' = Key(txn[v])
               /\ configs'[Key(txn[v])] = configs[Key(txn[v])]
    <3>1. v # w /\ txn'[v] = txn[v] /\ UpdatesSegment(txn[v])
      BY <1>5, <2>1, RowTypes DEF UpdatesSegment
    <3>2. txn[v].resource \in Segments /\ txn[v].env \in Environments
      BY <3>1 DEF IInv, Shapes, TxnShape, UpdatesSegment
    <3>. QED BY <1>4, <3>1, <3>2 DEF Key
  <2>. QED BY <2>1 DEF SegmentInv, SeenRows, IsInsert, Exists
<1>8. NoUpdatesBeforeRow' /\ SegmentCreatedOnce'
  BY <1>3, <1>4 DEF SegmentInv, NoUpdatesBeforeRow, SegmentCreatedOnce, Exists
<1>. QED BY <1>6, <1>7, <1>8 DEF SegmentInv

(* An INSERT finds no row, hence no update before it; an UPDATE leaves a   *)
(* version above 1.                                                        *)
LEMMA CommitUpdateKeepsSegmentInv ==
  ASSUME IInv, SegmentInv, NEW w \in Workers, CommitUpdate(w)
  PROVE  SegmentInv'
<1>1. PICK t \in Txn :
        /\ t = txn[w] /\ TxnShape(t) /\ t.stage = "flushed" /\ t.action \in Updates
  BY DEF CommitUpdate, IInv, TypeOK, Shapes
<1>2. /\ t.resource \in Resources /\ t.env \in Environments
      /\ t.action = "flag.targeting.updated" => t.resource \in Flags
  BY <1>1 DEF TxnShape, Updates, Resources, IInv, TypeOK
<1>3. PICK key \in Keys : key = <<t.resource, t.env>> /\ key = Key(t)
  BY <1>2 DEF Key, Keys
<1>4. PICK row \in Row : row = Written(t) /\ row.version = t.seen.version + 1
  BY <1>3, WrittenType DEF IInv
<1>5. t.seen.version \in Nat /\ row.version # 0
  BY <1>4 DEF Txn, Actions, Row
<1>6. \A k \in Keys : configs'[k] = IF k = key THEN row ELSE configs[k]
  BY <1>1, <1>3, <1>4 DEF CommitUpdate, IInv, TypeOK
<1>7. \A v \in Workers : txn'[v] = IF v = w THEN Idle ELSE txn[v]
  BY DEF CommitUpdate, IInv, TypeOK
<1>8. PICK a \in AuditEntry :
        /\ audit_log' = Append(audit_log, a)
        /\ a.action = t.action /\ a.resource = t.resource /\ a.env = t.env
  <2>1. /\ audit_log' = Append(audit_log, [action |-> t.action, resource |-> t.resource,
                                           env |-> t.env, diff |-> Diff(t)])
        /\ After(t) \in Row /\ t.seen \in Row
    BY <1>1, <1>3, WrittenType DEF CommitUpdate, Record, IInv, Txn, Actions
  <2>2. Diff(t) \in SUBSET [before : Row, after : Row]
    BY <2>1 DEF Diff
  <2>. QED BY <1>1, <1>2, <2>1, <2>2 DEF AuditEntry, Actions, Updates
<1>9. ASSUME NEW k \in Keys
      PROVE  UpdatesOf(k)' =
               UpdatesOf(k) \cup (IF k = key THEN {Len(audit_log) + 1} ELSE {})
  BY <1>1, <1>3, <1>8, LogGrows DEF Matches, IInv, TypeOK
<1>10. OneUpdater'
  BY <1>7, RowTypes DEF SegmentInv, OneUpdater, Key
<1>11. ASSUME NEW v \in Workers, UpdatesSegment(txn[v])'
       PROVE  /\ ~IsInsert(txn[v])' => Exists(Key(txn[v]))'
              /\ (txn[v].stage = "flushed" /\ IsInsert(txn[v]))' => ~Exists(Key(txn[v]))'
  <2>1. v # w /\ txn'[v] = txn[v] /\ UpdatesSegment(txn[v])
    BY <1>7, <1>11, RowTypes DEF UpdatesSegment
  <2>2. PICK k \in Keys : k = Key(txn[v]) /\ k = Key(txn[v])'
    BY <2>1 DEF IInv, Shapes, TxnShape, UpdatesSegment, Key, Keys, Resources
  <2>3. txn[v].stage = "flushed" => k # key
    BY <1>1, <1>3, <2>1, <2>2 DEF SegmentInv, OneUpdater, UpdatesSegment, Updates
  <2>4. (~IsInsert(txn[v]) => Exists(k))
        /\ ((txn[v].stage = "flushed" /\ IsInsert(txn[v])) => ~Exists(k))
    BY <2>1, <2>2 DEF SegmentInv, SeenRows
  <2>. QED BY <1>5, <1>6, <2>1, <2>2, <2>3, <2>4 DEF Exists, IsInsert
<1>12. ASSUME NEW s \in Segments, NEW e \in Environments
       PROVE  LET k == <<s, e>> IN
              /\ ~Exists(k)' => UpdatesOf(k)' = {}
              /\ configs'[k].version = 1 => \A i, j \in UpdatesOf(k)' : i = j
  <2>1. PICK k \in Keys : k = <<s, e>>
    BY DEF Keys, Resources
  <2>2. /\ ~Exists(k) => UpdatesOf(k) = {}
        /\ configs[k].version = 1 => \A i, j \in UpdatesOf(k) : i = j
    BY <2>1 DEF SegmentInv, NoUpdatesBeforeRow, SegmentCreatedOnce
  <2>3. CASE k # key
    BY <1>6, <1>9, <2>1, <2>2, <2>3 DEF Exists
  <2>4. CASE k = key
    <3>1. t.action = "segment.updated"
      BY <1>1, <1>2, <1>3, <2>1, <2>4, ControlPlaneAssumption DEF Updates
    <3>2. row.version = 1 => UpdatesOf(k) = {}
      BY <1>1, <1>3, <1>4, <1>5, <2>2, <2>4, <3>1
         DEF SegmentInv, SeenRows, UpdatesSegment, IsInsert
    <3>. QED BY <1>5, <1>6, <1>9, <2>1, <2>4, <3>2 DEF Exists
  <2>. QED BY <2>3, <2>4
<1>13. SeenRows'
  BY <1>11 DEF SeenRows
<1>14. NoUpdatesBeforeRow' /\ SegmentCreatedOnce'
  BY <1>12 DEF NoUpdatesBeforeRow, SegmentCreatedOnce
<1>. QED BY <1>10, <1>13, <1>14 DEF SegmentInv

LEMMA NextSegmentInv == IInv /\ SegmentInv /\ [Next]_vars => SegmentInv'
<1>. SUFFICES ASSUME IInv, SegmentInv, [Next]_vars PROVE SegmentInv'
  OBVIOUS
<1>1. CASE UNCHANGED vars
  BY <1>1 DEF vars, SegmentInv, OneUpdater, SeenRows, UpdatesSegment, IsInsert, Exists,
              Key, NoUpdatesBeforeRow, SegmentCreatedOnce, UpdatesOf
<1>2. ASSUME NEW w \in Workers, Step(w)
      PROVE  SegmentInv'
  <2>1. CASE Flush(w)
    BY <2>1, FlushKeepsSegmentInv
  <2>2. CASE FlushConflict(w) \/ Rollback(w)
    BY <2>2, EndKeepsSegmentInv DEF FlushConflict, Rollback
  <2>3. CASE CommitCreate(w)
    BY <2>3, CommitCreateKeepsSegmentInv
  <2>4. CASE CommitUpdate(w)
    BY <2>4, CommitUpdateKeepsSegmentInv
  <2>. QED BY <1>2, <2>1, <2>2, <2>3, <2>4, BeginKeepsSegmentInv DEF Step, Finish
<1>. QED BY <1>1, <1>2 DEF Next, Quiescent

-----------------------------------------------------------------------------
(* The channel *)

LEMMA UpdatesUpToFinite ==
  ASSUME NEW n \in Int
  PROVE  /\ IsFiniteSet(UpdatesUpTo(n))
         /\ Cardinality(UpdatesUpTo(n)) \in Nat
<1>1. IsFiniteSet(1..n)
  BY FS_Interval
<1>2. UpdatesUpTo(n) \in SUBSET (1..n)
  BY DEF UpdatesUpTo
<1>. QED BY <1>1, <1>2, FS_Subset, FS_CardinalityType

(* The place of an update among the updates is a place in the channel. *)
LEMMA PlaceInChannel ==
  ASSUME NEW n \in Nat, NEW i \in UpdatesUpTo(n)
  PROVE  Cardinality(UpdatesUpTo(i)) \in 1..Cardinality(UpdatesUpTo(n))
<1>1. i \in UpdatesUpTo(i) /\ i \in Int /\ UpdatesUpTo(i) \in SUBSET UpdatesUpTo(n)
  BY DEF UpdatesUpTo
<1>2. /\ IsFiniteSet(UpdatesUpTo(i)) /\ Cardinality(UpdatesUpTo(i)) \in Nat
      /\ IsFiniteSet(UpdatesUpTo(n)) /\ Cardinality(UpdatesUpTo(n)) \in Nat
  BY <1>1, UpdatesUpToFinite
<1>3. Cardinality(UpdatesUpTo(i)) # 0
  BY <1>1, <1>2, FS_EmptySet
<1>4. Cardinality(UpdatesUpTo(i)) <= Cardinality(UpdatesUpTo(n))
  BY <1>1, <1>2, FS_Subset
<1>. QED BY <1>2, <1>3, <1>4

(* An entry is appended together with a payload exactly if it is an update. *)
LEMMA LogAndChannelGrow ==
  ASSUME TypeOK, SignalPerCommittedChange, NEW a \in AuditEntry,
         audit_log' = Append(audit_log, a),
         flags_changed' = IF a.action \in Updates THEN Signal(flags_changed, a.env)
                                                  ELSE flags_changed
  PROVE  SignalPerCommittedChange'
<1>. SUFFICES ASSUME NotifyBackend = "postgres"
              PROVE  LET updates == UpdatesUpTo(Len(audit_log))'
                     IN  /\ Len(flags_changed)' = Cardinality(updates)
                         /\ \A i \in updates :
                              flags_changed'[Cardinality(UpdatesUpTo(i)')]
                                = audit_log'[i].env
  BY DEF SignalPerCommittedChange
<1>0. PICK n \in Nat : n = Len(audit_log)
  BY DEF TypeOK
<1>. DEFINE old == UpdatesUpTo(n)
            new == UpdatesUpTo(n + 1)'
<1>1. /\ n \in Nat /\ Len(audit_log') = n + 1 /\ audit_log'[n + 1] = a
      /\ \A i \in 1..n : audit_log'[i] = audit_log[i]
  BY <1>0 DEF TypeOK
<1>2. /\ Len(flags_changed) = Cardinality(old)
      /\ \A i \in old : flags_changed[Cardinality(UpdatesUpTo(i))] = audit_log[i].env
  BY <1>0 DEF SignalPerCommittedChange
<1>3. flags_changed \in Seq(Environments) /\ Len(flags_changed) \in Nat
  BY DEF TypeOK
<1>4. \A i \in 1..n : UpdatesUpTo(i)' = UpdatesUpTo(i)
  BY <1>1 DEF UpdatesUpTo
<1>5. /\ IsFiniteSet(old) /\ n + 1 \notin old /\ old \subseteq 1..n
      /\ new = old \cup (IF a.action \in Updates THEN {n + 1} ELSE {})
  <2>1. IsFiniteSet(old) /\ n + 1 \notin old /\ old \subseteq 1..n
    BY UpdatesUpToFinite DEF UpdatesUpTo
  <2>2. \A i : i \in new <=> i \in old \/ (i = n + 1 /\ a.action \in Updates)
    BY <1>1 DEF UpdatesUpTo
  <2>. QED BY <2>1, <2>2
<1>6. ASSUME NEW i \in old
      PROVE  /\ Cardinality(UpdatesUpTo(i)') \in 1..Len(flags_changed)
             /\ flags_changed[Cardinality(UpdatesUpTo(i)')] = audit_log'[i].env
  BY <1>1, <1>2, <1>4, <1>5, PlaceInChannel
<1>. HIDE DEF old
<1>7. CASE a.action \in Updates
  <2>1. flags_changed' = Append(flags_changed, a.env) /\ a.env = audit_log'[n + 1].env
    BY <1>1, <1>7 DEF Signal
  <2>2. Cardinality(new) = Len(flags_changed) + 1
    BY <1>2, <1>5, <1>7, FS_AddElement
  <2>3. /\ Len(flags_changed') = Len(flags_changed) + 1
        /\ flags_changed'[Len(flags_changed) + 1] = audit_log'[n + 1].env
        /\ \A i \in 1..Len(flags_changed) : flags_changed'[i] = flags_changed[i]
    <3>1. PICK x \in Environments \cup {None} : x = a.env
      BY DEF AuditEntry
    <3>2. flags_changed \in Seq(Environments \cup {None})
      BY <1>3
    <3>3. PICK channel : channel = flags_changed
      OBVIOUS
    <3>4. /\ Len(Append(channel, x)) = Len(channel) + 1
          /\ Append(channel, x)[Len(channel) + 1] = x
          /\ \A i \in 1..Len(channel) : Append(channel, x)[i] = channel[i]
      BY <3>1, <3>2, <3>3
    <3>. QED BY <2>1, <3>1, <3>3, <3>4
  <2>. QED BY <1>1, <1>5, <1>6, <1>7, <2>2, <2>3
<1>8. CASE a.action \notin Updates
  BY <1>1, <1>2, <1>5, <1>6, <1>8
<1>. QED BY <1>7, <1>8

LEMMA NextSignal == IInv /\ SignalPerCommittedChange /\ [Next]_vars => SignalPerCommittedChange'
<1>. SUFFICES ASSUME IInv, SignalPerCommittedChange, [Next]_vars
              PROVE  SignalPerCommittedChange'
  OBVIOUS
<1>. USE DEF IInv
<1>1. CASE UNCHANGED <<flags_changed, audit_log>>
  BY <1>1 DEF SignalPerCommittedChange, UpdatesUpTo
<1>2. ASSUME NEW w \in Workers, CommitCreate(w)
      PROVE  SignalPerCommittedChange'
  <2>. DEFINE a == [action |-> txn[w].action, resource |-> txn[w].resource,
                    env |-> txn[w].env, diff |-> {}]
  <2>1. /\ txn[w] \in Txn /\ TxnShape(txn[w]) /\ txn[w].stage = "flushed"
        /\ txn[w].action \in Creations
    BY <1>2 DEF CommitCreate, TypeOK, Shapes, TxnShape, Txn, Actions, Updates, Creations
  <2>2. a \in AuditEntry /\ a.action \notin Updates
    <3>1. txn[w].resource \in Resources \cup Environments \cup {Project}
      BY <2>1 DEF TxnShape, Resources, Creations
    <3>. QED BY <2>1, <3>1 DEF AuditEntry, Txn, Actions, Creations, Updates
  <2>3. audit_log' = Append(audit_log, a) /\ flags_changed' = flags_changed
    BY <1>2 DEF CommitCreate, Record
  <2>. HIDE DEF a
  <2>. QED BY <2>2, <2>3, LogAndChannelGrow
<1>3. ASSUME NEW w \in Workers, CommitUpdate(w)
      PROVE  SignalPerCommittedChange'
  <2>1. PICK t \in Txn : t = txn[w] /\ TxnShape(t) /\ t.stage = "flushed" /\ t.action \in Updates
    BY <1>3 DEF CommitUpdate, TypeOK, Shapes
  <2>2. t.resource \in Resources /\ t.env \in Environments
    BY <2>1 DEF TxnShape, Updates, Resources, TypeOK
  <2>3. After(t) \in Row /\ t.seen \in Row
    BY <2>2, WrittenType DEF Key, Keys, Txn, Actions
  <2>4. Diff(t) \in SUBSET [before : Row, after : Row]
    BY <2>3 DEF Diff
  <2>. DEFINE a == [action |-> t.action, resource |-> t.resource, env |-> t.env,
                    diff |-> Diff(t)]
  <2>5. a \in AuditEntry /\ a.action \in Updates /\ a.env = t.env
    BY <2>1, <2>2, <2>4 DEF AuditEntry, Actions, Updates
  <2>6. audit_log' = Append(audit_log, a) /\ flags_changed' = Signal(flags_changed, t.env)
    BY <1>3, <2>1 DEF CommitUpdate, Record
  <2>. HIDE DEF a
  <2>. QED BY <2>5, <2>6, LogAndChannelGrow
<1>. QED BY <1>1, <1>2, <1>3
     DEF Next, Quiescent, vars, Step, Finish, BeginCreateProject, BeginCreateEnvironment,
         BeginCreateFlag, BeginCreateSegment, Create, BeginUpdateFlagConfig,
         BeginUpdateSegmentConfig, Load, Flush, FlushConflict, Rollback

-----------------------------------------------------------------------------
(* The specification *)

LEMMA NextIInv == IInv /\ [Next]_vars => IInv'
<1>. SUFFICES ASSUME IInv, [Next]_vars PROVE IInv'
  OBVIOUS
<1>1. CASE UNCHANGED vars
  <2>. USE <1>1 DEF vars
  <2>1. TypeOK'
    BY DEF IInv, TypeOK
  <2>2. Shapes'
    BY DEF IInv, Shapes, TxnShape, OneCreator, EntryShape, NoRowsBeforeFlag, Exists, Key
  <2>3. AuditReplays'
    BY DEF IInv, AuditReplays, ReplaysVersion, ReplaysContent, UpdatesOf, ChangesOf, Exists
  <2>. QED BY <2>1, <2>2, <2>3 DEF IInv
<1>2. ASSUME NEW w \in Workers, Step(w)
      PROVE  IInv'
  <2>0. CASE BeginCreateProject(w)
    BY <2>0, CreateKeepsIInv
  <2>1. ASSUME NEW e \in Environments, BeginCreateEnvironment(w, e)
        PROVE  IInv'
    BY <2>1, CreateKeepsIInv
  <2>2. ASSUME NEW f \in Flags, BeginCreateFlag(w, f)
        PROVE  IInv'
    BY <2>2, CreateKeepsIInv
  <2>3. ASSUME NEW s \in Segments, BeginCreateSegment(w, s)
        PROVE  IInv'
    BY <2>3, CreateKeepsIInv
  <2>4. ASSUME NEW f \in Flags, NEW e \in Environments, NEW body \in Contents,
               BeginUpdateFlagConfig(w, f, e, body)
        PROVE  IInv'
    BY <2>4, LoadKeepsIInv
  <2>5. ASSUME NEW s \in Segments, NEW e \in Environments, NEW body \in Contents,
               BeginUpdateSegmentConfig(w, s, e, body)
        PROVE  IInv'
    BY <2>5, LoadKeepsIInv
  <2>6. CASE Flush(w)
    BY <2>6, FlushKeepsIInv
  <2>7. CASE FlushConflict(w) \/ Rollback(w)
    BY <2>7, EndKeepsIInv DEF FlushConflict, Rollback
  <2>8. CASE CommitCreate(w)
    BY <2>8, CommitCreateKeepsIInv
  <2>9. CASE CommitUpdate(w)
    BY <2>9, CommitUpdateKeepsIInv
  <2>. QED BY <1>2, <2>0, <2>1, <2>2, <2>3, <2>4, <2>5, <2>6, <2>7, <2>8, <2>9
       DEF Step, Finish
<1>. QED BY <1>1, <1>2 DEF Next, Quiescent

(* The inductive invariant *)
THEOREM Invariance == Spec => []IInv
BY InitIInv, NextIInv, PTL DEF Spec

(***************************************************************************)
(* The catalog, the tables, the channel, the audit log and the open        *)
(* transactions keep their types.                                          *)
(***************************************************************************)
THEOREM TypeCorrect == Spec => []TypeOK
<1>1. IInv => TypeOK
  BY DEF IInv
<1>. QED BY <1>1, Invariance, PTL

(***************************************************************************)
(* However PUTs of a flag overlap, wait for each other and roll back, the  *)
(* audit log's diffs replay to the rows (flags.py:123-165).                *)
(***************************************************************************)
THEOREM AuditLogReplays == Spec => []AuditReplays
<1>1. IInv => AuditReplays
  BY DEF IInv
<1>. QED BY <1>1, Invariance, PTL

(***************************************************************************)
(* However first PUTs of a segment in an environment overlap, one of them  *)
(* inserts the row (segments.py:85-94).                                    *)
(***************************************************************************)
THEOREM CreatedOnce == Spec => []SegmentCreatedOnce
<1>1. SegmentInv => SegmentCreatedOnce
  BY DEF SegmentInv
<1>. QED BY <1>1, InitSegmentInv, NextSegmentInv, Invariance, PTL DEF Spec

(***************************************************************************)
(* The channel carries one payload per committed PUT, in commit order, and *)
(* none for a request that was rolled back (services/notify.py:5-6).       *)
(***************************************************************************)
THEOREM SignalsCommittedChanges == Spec => []SignalPerCommittedChange
<1>1. Init => SignalPerCommittedChange
  <2>. SUFFICES ASSUME Init PROVE SignalPerCommittedChange
    OBVIOUS
  <2>1. Len(audit_log) = 0 /\ Len(flags_changed) = 0 /\ UpdatesUpTo(0) = {}
    BY DEF Init, UpdatesUpTo
  <2>. QED BY <2>1, FS_EmptySet DEF SignalPerCommittedChange
<1>. QED BY <1>1, NextSignal, Invariance, PTL DEF Spec
=============================================================================
