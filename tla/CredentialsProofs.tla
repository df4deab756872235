-------------------------- MODULE CredentialsProofs --------------------------
(***************************************************************************)
(* Proofs about Credentials, for any sets of keys, environments and        *)
(* clients, any number of requests at once and any bound.                  *)
(***************************************************************************)
EXTENDS Credentials, FiniteSetTheorems, TLAPS

(* t has not committed yet. *)
Pending(t) == t.stage \in {"loaded", "flushed", "answered"}

(* What a request is going to do to its credential *)
TxnShape(t) ==
  /\ Pending(t) /\ t.change.action = "created" =>
       /\ t.stage # "loaded"
       /\ ~t.row.revoked
       /\ credentials[t.change.key] = None
  /\ Pending(t) /\ t.change.action = "revoked" =>
       /\ t.row.revoked
       /\ credentials[t.change.key] # None
       /\ t.row.env = credentials[t.change.key].env
       /\ t.row.kind = credentials[t.change.key].kind
  /\ t.stage = "committed" =>
       /\ credentials[t.change.key] # None
       /\ t.change.action = "revoked" => Revoked(t.change.key)
  /\ t.stage = "answered" => answersFirst
  /\ t.stage = "committed" => ~answersFirst

(* No key is drawn by two requests that are under way. *)
DrawnOnce ==
  \A v, w \in Workers :
    /\ v # w
    /\ Pending(txn[v]) /\ txn[v].change.action = "created"
    /\ Pending(txn[w]) /\ txn[w].change.action = "created"
    => txn[v].change.key # txn[w].change.key

Shapes == (\A w \in Workers : TxnShape(txn[w])) /\ DrawnOnce

IInv == TypeOK /\ Shapes

-----------------------------------------------------------------------------
(* Types *)

LEMMA RecordTypes ==
  /\ None \notin Credential
  /\ Idle \in Txn /\ Idle.stage = "idle"
  /\ Closed \in Connection /\ Closed.stage = "closed"
  /\ \A t \in Txn : t.stage # "idle" =>
       /\ t \in [stage : {"loaded", "flushed", "answered", "committed"},
                 change : Change, row : Credential]
       /\ t.change \in Change /\ t.row \in Credential
       /\ t.change.key \in Keys /\ t.change.action \in {"created", "revoked"}
  /\ \A n \in Connection : n # Closed =>
       /\ n \in [stage : {"admitted", "open", "refused"}, path : Paths, key : Keys]
       /\ n.stage # "closed" /\ n.key \in Keys
  /\ \A n \in Connection : n.stage \in {"admitted", "open"} => n # Closed
BY CredentialsAssumption DEF Credential, Idle, Txn, Closed, Connection, Change

(* A request that has not committed may move on to t. *)
LEMMA TxnStepKeepsIInv ==
  ASSUME IInv, NEW w \in Workers, NEW t \in Txn, TxnShape(t),
         (Pending(t) /\ t.change.action = "created") =>
            \A v \in Workers \ {w} :
              (Pending(txn[v]) /\ txn[v].change.action = "created") =>
                 txn[v].change.key # t.change.key,
         txn' = [txn EXCEPT ![w] = t], answers' \subseteq Change,
         UNCHANGED <<credentials, audit_log, answersFirst, database, connections>>
  PROVE  IInv'
<1>1. /\ txn' \in [Workers -> Txn]
      /\ \A v \in Workers : txn'[v] = IF v = w THEN t ELSE txn[v]
  BY DEF IInv, TypeOK
<1>2. TypeOK'
  BY <1>1 DEF IInv, TypeOK
<1>3. \A v \in Workers : TxnShape(txn[v])'
  BY <1>1 DEF IInv, Shapes, TxnShape, Pending, Revoked
<1>4. DrawnOnce'
  BY <1>1 DEF IInv, Shapes, DrawnOnce, Pending
<1>. QED BY <1>2, <1>3, <1>4 DEF IInv, Shapes

LEMMA InitIInv == Init => IInv
BY RecordTypes DEF Init, IInv, TypeOK, Shapes, TxnShape, DrawnOnce, Pending

LEMMA BeginKeepsIInv ==
  ASSUME IInv, NEW w \in Workers, NEW e \in Environments, NEW k \in Keys,
         \/ \E kind \in Kinds : BeginCreate(w, e, kind, k)
         \/ BeginRevoke(w, e, k)
  PROVE  IInv'
<1>1. CASE \E kind \in Kinds : BeginCreate(w, e, kind, k)
  <2>1. PICK kind \in Kinds : BeginCreate(w, e, kind, k)
    BY <1>1
  <2>. DEFINE t == [stage |-> "flushed", change |-> [action |-> "created", key |-> k],
                    row |-> [env |-> e, kind |-> kind, revoked |-> FALSE]]
  <2>2. t \in Txn /\ t.stage = "flushed" /\ t.change.action = "created"
        /\ t.change.key = k /\ t.row.revoked = FALSE
    BY DEF Txn, Change, Credential
  <2>3. /\ txn' = [txn EXCEPT ![w] = t] /\ credentials[k] = None
        /\ UNCHANGED <<credentials, audit_log, answersFirst, answers, database,
                       connections>>
    BY <2>1 DEF BeginCreate, Open, Fresh
  <2>4. \A v \in Workers : Pending(txn[v]) => txn[v].change.key # k
    BY <2>1 DEF BeginCreate, Fresh, Running, Pending
  <2>5. TxnShape(t)
    BY <2>2, <2>3 DEF TxnShape, Pending
  <2>. HIDE DEF t
  <2>. QED BY <2>2, <2>3, <2>4, <2>5, TxnStepKeepsIInv DEF IInv, TypeOK
<1>2. CASE BeginRevoke(w, e, k)
  <2>. DEFINE t == [stage |-> "loaded", change |-> [action |-> "revoked", key |-> k],
                    row |-> [credentials[k] EXCEPT !.revoked = TRUE]]
  <2>1. credentials[k] \in Credential
    BY <1>2 DEF BeginRevoke, Revocable, IInv, TypeOK
  <2>2. t \in Txn /\ t.stage = "loaded" /\ t.change.action = "revoked"
        /\ t.change.key = k /\ t.row.revoked = TRUE
        /\ t.row.env = credentials[k].env /\ t.row.kind = credentials[k].kind
    BY <2>1 DEF Txn, Change, Credential
  <2>3. /\ txn' = [txn EXCEPT ![w] = t] /\ credentials[k] # None
        /\ UNCHANGED <<credentials, audit_log, answersFirst, answers, database,
                       connections>>
    BY <1>2 DEF BeginRevoke, Open, Revocable
  <2>5. TxnShape(t)
    BY <2>2, <2>3 DEF TxnShape, Pending
  <2>. HIDE DEF t
  <2>. QED BY <2>2, <2>3, <2>5, TxnStepKeepsIInv DEF IInv, TypeOK
<1>. QED BY <1>1, <1>2

(* Flush, and the answer that leaves before the commit *)
LEMMA AdvanceKeepsIInv ==
  ASSUME IInv, NEW w \in Workers, Flush(w) \/ (Answer(w) /\ answersFirst)
  PROVE  IInv'
<1>1. PICK stage \in {"flushed", "answered"} :
        /\ txn' = [txn EXCEPT ![w] = [@ EXCEPT !.stage = stage]]
        /\ txn[w].stage \in {"loaded", "flushed"}
        /\ stage = "answered" => answersFirst
        /\ answers' \in {answers, answers \cup {txn[w].change}}
        /\ UNCHANGED <<credentials, audit_log, answersFirst, database, connections>>
  BY DEF Flush, Answer
<1>. DEFINE t == [txn[w] EXCEPT !.stage = stage]
<1>2. /\ txn[w] \in [stage : {"loaded", "flushed", "answered", "committed"},
                     change : Change, row : Credential]
      /\ txn[w].change \in Change
  BY <1>1, RecordTypes DEF IInv, TypeOK
<1>3. t \in Txn /\ t.stage = stage /\ t.change = txn[w].change /\ t.row = txn[w].row
  BY <1>2 DEF Txn
<1>4. TxnShape(t)
  <2>1. TxnShape(txn[w])
    BY DEF IInv, Shapes
  <2>2. txn[w].change.action \in {"created", "revoked"}
    BY <1>2 DEF Change
  <2>. HIDE DEF t
  <2>. QED BY <1>1, <1>3, <2>1, <2>2 DEF TxnShape, Pending
<1>5. /\ Pending(txn[w])
      /\ txn' = [txn EXCEPT ![w] = t]
      /\ answers' \subseteq Change
  BY <1>1, <1>2 DEF Pending, IInv, TypeOK
<1>. HIDE DEF t
<1>6. ASSUME t.change.action = "created"
      PROVE  \A v \in Workers \ {w} :
               (Pending(txn[v]) /\ txn[v].change.action = "created") =>
                  txn[v].change.key # t.change.key
  BY <1>3, <1>5, <1>6 DEF IInv, Shapes, DrawnOnce
<1>7. UNCHANGED <<credentials, audit_log, answersFirst, database, connections>>
  BY <1>1
<1>8. t \in Txn
  BY <1>3
<1>. QED BY <1>4, <1>5, <1>6, <1>7, <1>8, TxnStepKeepsIInv

(* The answer to a committed request, and the end of an aborted one *)
LEMMA EndKeepsIInv ==
  ASSUME IInv, NEW w \in Workers, Abort(w) \/ (Answer(w) /\ ~answersFirst)
  PROVE  IInv'
<1>1. /\ txn' = [txn EXCEPT ![w] = Idle]
      /\ UNCHANGED <<credentials, audit_log, answersFirst, database, connections>>
  BY DEF Abort, Answer
<1>2. answers' \subseteq Change
  BY RecordTypes DEF Abort, Answer, IInv, TypeOK
<1>3. Idle \in Txn /\ TxnShape(Idle) /\ ~Pending(Idle)
  BY RecordTypes DEF TxnShape, Pending
<1>. QED BY <1>1, <1>2, <1>3, TxnStepKeepsIInv

LEMMA CommitKeepsIInv ==
  ASSUME IInv, NEW w \in Workers, Commit(w)
  PROVE  IInv'
<1>1. PICK t \in Txn, k \in Keys, row \in Credential :
        /\ t = txn[w] /\ TxnShape(t) /\ Pending(t) /\ k = t.change.key /\ row = t.row
        /\ t.change \in Change /\ row # None
        /\ t.stage \in {"flushed", "answered"}
  BY RecordTypes DEF Commit, Pending, IInv, TypeOK, Shapes
<1>2. PICK u \in Txn : /\ txn' = [txn EXCEPT ![w] = u]
                       /\ ~Pending(u) /\ u.stage \in {"idle", "committed"}
                       /\ u.stage = "committed" => /\ ~answersFirst
                                                   /\ u.change = t.change
  <2>1. CASE answersFirst
    BY <1>1, <2>1, RecordTypes DEF Commit, Pending
  <2>2. CASE ~answersFirst
    <3>. DEFINE u == [t EXCEPT !.stage = "committed"]
    <3>1. t \in [stage : {"loaded", "flushed", "answered", "committed"},
                 change : Change, row : Credential]
      BY <1>1, RecordTypes
    <3>2. u \in Txn /\ u.stage = "committed" /\ u.change = t.change
      BY <3>1 DEF Txn
    <3>. QED BY <1>1, <2>2, <3>2 DEF Commit, Pending
  <2>. QED BY <2>1, <2>2
<1>3. /\ credentials' = [credentials EXCEPT ![k] = row]
      /\ audit_log' = Append(audit_log, Entry(t)) /\ Entry(t) \in AuditEntry
      /\ UNCHANGED <<answersFirst, answers, database, connections>>
  BY <1>1 DEF Commit, Entry, AuditEntry, Change, Credential
<1>4. /\ \A v \in Workers : txn'[v] = IF v = w THEN u ELSE txn[v]
      /\ \A j \in Keys : credentials'[j] = IF j = k THEN row ELSE credentials[j]
  BY <1>2, <1>3 DEF IInv, TypeOK
<1>5. TypeOK'
  BY <1>1, <1>2, <1>3 DEF IInv, TypeOK
<1>6. DrawnOnce'
  BY <1>2, <1>4 DEF IInv, Shapes, DrawnOnce, Pending
<1>7. ASSUME NEW v \in Workers
      PROVE  TxnShape(txn[v])'
  <2>1. CASE v = w
    <3>1. t.change.action = "revoked" => row.revoked
      BY <1>1 DEF TxnShape
    <3>. QED BY <1>1, <1>2, <1>3, <1>4, <2>1, <3>1 DEF TxnShape, Pending, Revoked
  <2>2. CASE v # w
    <3>1. txn'[v] = txn[v] /\ TxnShape(txn[v]) /\ txn[v] \in Txn
      BY <1>4, <2>2 DEF IInv, Shapes, TypeOK
    <3>2. CASE txn[v].stage = "idle"
      BY <3>1, <3>2 DEF TxnShape, Pending
    <3>3. CASE txn[v].stage # "idle"
      <4>1. txn[v].change.key \in Keys /\ txn[v].change.action \in {"created", "revoked"}
        BY <3>1, <3>3, RecordTypes
      <4>2. (Pending(txn[v]) /\ txn[v].change.action = "created")
              => txn[v].change.key # k
        BY <1>1, <2>2, <3>1, <4>1, RecordTypes
           DEF IInv, Shapes, DrawnOnce, TxnShape, Pending, Change
      <4>3. Revoked(txn[v].change.key) /\ txn[v].change.key = k => row.revoked
        BY <1>1, RecordTypes DEF TxnShape, Revoked, Change
      <4>4. (Pending(txn[v]) /\ txn[v].change.action = "revoked" /\ txn[v].change.key = k)
              => row.env = credentials[k].env /\ row.kind = credentials[k].kind
        BY <1>1, <3>1 DEF TxnShape, Change
      <4>5. credentials'[txn[v].change.key] =
              IF txn[v].change.key = k THEN row ELSE credentials[txn[v].change.key]
        BY <1>4, <4>1
      <4>. QED BY <1>1, <1>3, <3>1, <4>2, <4>3, <4>4, <4>5 DEF TxnShape, Pending, Revoked
    <3>. QED BY <3>2, <3>3
  <2>. QED BY <2>1, <2>2
<1>. QED BY <1>5, <1>6, <1>7 DEF IInv, Shapes

LEMMA DataPlaneKeepsIInv ==
  ASSUME IInv, UNCHANGED controlPlaneVars,
         database' \in {"up", "down"}, connections' \in [Clients -> Connection]
  PROVE  IInv'
BY DEF controlPlaneVars, IInv, TypeOK, Shapes, TxnShape, DrawnOnce, Pending, Revoked

LEMMA ConnectionTypes ==
  ASSUME TypeOK, NEW c \in Clients, DataPlaneStep(c)
  PROVE  connections' \in [Clients -> Connection]
<1>1. PICK n : connections' = [connections EXCEPT ![c] = n] /\ n \in Connection
  <2>1. ASSUME NEW path \in Paths, NEW k \in Keys, Authenticate(c, path, k)
        PROVE  \E n \in Connection : connections' = [connections EXCEPT ![c] = n]
    BY <2>1 DEF Authenticate, Connection
  <2>2. CASE Serve(c)
    <3>1. /\ connections[c] \in [stage : {"admitted", "open", "refused"}, path : Paths,
                                 key : Keys]
      BY <2>2, RecordTypes DEF Serve, TypeOK
    <3>2. [connections[c] EXCEPT !.stage = "open"] \in Connection
      BY <3>1 DEF Connection
    <3>. QED BY <2>2, <3>2, RecordTypes DEF Serve
  <2>3. CASE Disconnect(c)
    BY <2>3, RecordTypes DEF Disconnect
  <2>. QED BY <2>1, <2>2, <2>3 DEF DataPlaneStep
<1>. QED BY <1>1 DEF TypeOK

LEMMA NextIInv == IInv /\ [Next]_vars => IInv'
<1>. SUFFICES ASSUME IInv, [Next]_vars PROVE IInv'
  OBVIOUS
<1>1. CASE UNCHANGED vars
  BY <1>1, DataPlaneKeepsIInv DEF vars, IInv, TypeOK
<1>2. ASSUME NEW w \in Workers, ControlPlaneStep(w)
      PROVE  IInv'
  <2>1. CASE Flush(w) \/ Answer(w) \/ Abort(w)
    BY <2>1, AdvanceKeepsIInv, EndKeepsIInv
  <2>2. CASE Commit(w)
    BY <2>2, CommitKeepsIInv
  <2>3. ASSUME NEW e \in Environments, NEW kind \in Kinds, NEW k \in Keys,
               BeginCreate(w, e, kind, k)
        PROVE  IInv'
    BY <2>3, BeginKeepsIInv
  <2>4. ASSUME NEW e \in Environments, NEW k \in Keys, BeginRevoke(w, e, k)
        PROVE  IInv'
    BY <2>4, BeginKeepsIInv
  <2>. QED BY <1>2, <2>1, <2>2, <2>3, <2>4 DEF ControlPlaneStep
<1>3. ASSUME NEW c \in Clients, DataPlaneStep(c)
      PROVE  IInv'
  <2>1. UNCHANGED controlPlaneVars /\ UNCHANGED database
    BY <1>3 DEF DataPlaneStep, Authenticate, Serve, Disconnect
  <2>. QED BY <1>3, <2>1, ConnectionTypes, DataPlaneKeepsIInv DEF IInv, TypeOK
<1>4. CASE Outage \/ Recover
  BY <1>4, DataPlaneKeepsIInv DEF Outage, Recover, IInv, TypeOK
<1>. QED BY <1>1, <1>2, <1>3, <1>4 DEF Next

-----------------------------------------------------------------------------
(* The audit log *)

(* What a commit does: the audit row it appends, and the credential it writes *)
Commits(entry, key, row) ==
  /\ entry = [action |-> entry.action, env |-> row.env, kind |-> row.kind]
  /\ entry.action \in {"created", "revoked"} /\ row # None
  /\ audit_log' = Append(audit_log, entry)
  /\ credentials' = [credentials EXCEPT ![key] = row]
  /\ entry.action = "created" => credentials[key] = None /\ ~row.revoked
  /\ entry.action = "revoked" =>
       /\ credentials[key] # None /\ row.revoked
       /\ row.env = credentials[key].env /\ row.kind = credentials[key].kind

LEMMA CommitCommits ==
  ASSUME IInv, NEW w \in Workers, Commit(w)
  PROVE  /\ txn[w].change.key \in Keys /\ txn[w].row \in Credential
         /\ Entry(txn[w]) \in AuditEntry
         /\ Commits(Entry(txn[w]), txn[w].change.key, txn[w].row)
         /\ Entry(txn[w]).action = txn[w].change.action
<1>1. TxnShape(txn[w]) /\ Pending(txn[w]) /\ txn[w] \in Txn
  BY DEF Commit, Pending, IInv, Shapes, TypeOK
<1>2. /\ txn[w].change \in Change /\ txn[w].change.key \in Keys
      /\ txn[w].row \in Credential /\ txn[w].row # None
      /\ txn[w].change.action \in {"created", "revoked"}
  BY <1>1, RecordTypes DEF Pending
<1>3. Entry(txn[w]) \in AuditEntry /\ Entry(txn[w]).action = txn[w].change.action
  BY <1>2 DEF Entry, AuditEntry, Credential
<1>4. /\ audit_log' = Append(audit_log, Entry(txn[w]))
      /\ credentials' = [credentials EXCEPT ![txn[w].change.key] = txn[w].row]
  BY DEF Commit
<1>5. Entry(txn[w]) = [action |-> Entry(txn[w]).action, env |-> txn[w].row.env,
                       kind |-> txn[w].row.kind]
  BY DEF Entry
<1>. QED BY <1>1, <1>2, <1>3, <1>4, <1>5 DEF Commits, TxnShape

(* Does it concern the keys of environment e and of this kind? *)
About(entry, action, e, kind) == entry = [action |-> action, env |-> e, kind |-> kind]

(* What it adds to what a log says of them, and to the keys themselves *)
LEMMA CommitAdds ==
  ASSUME TypeOK, NEW entry \in AuditEntry, NEW key \in Keys, NEW row \in Credential,
         Commits(entry, key, row), NEW e \in Environments, NEW kind \in Kinds
  PROVE  LET n == Len(audit_log) + 1 IN
         /\ n \in Nat
         /\ \A action : \A i \in Audited(action, e, kind) : i \in Nat /\ i < n
         /\ \A action : Audited(action, e, kind)' = Audited(action, e, kind) \cup
              (IF About(entry, action, e, kind) THEN {n} ELSE {})
         /\ KeysOf(e, kind)' = KeysOf(e, kind) \cup
              (IF About(entry, "created", e, kind) THEN {key} ELSE {})
         /\ Gone(e, kind)' = Gone(e, kind) \cup
              (IF About(entry, "revoked", e, kind) THEN {key} ELSE {})
         /\ About(entry, "created", e, kind) => key \notin KeysOf(e, kind)
         /\ About(entry, "revoked", e, kind) => key \in KeysOf(e, kind)
<1>. DEFINE n == Len(audit_log) + 1
<1>1. /\ n \in Nat /\ audit_log'[n] = entry
      /\ \A i \in DOMAIN audit_log : i \in Nat /\ i < n /\ audit_log'[i] = audit_log[i]
      /\ DOMAIN audit_log' = DOMAIN audit_log \cup {n}
  BY DEF TypeOK, Commits
<1>. HIDE DEF n
<1>2. \A action : Audited(action, e, kind)' = Audited(action, e, kind) \cup
        (IF About(entry, action, e, kind) THEN {n} ELSE {})
  BY <1>1 DEF Audited, About
<1>3. \A k \in Keys : credentials'[k] = IF k = key THEN row ELSE credentials[k]
  BY DEF TypeOK, Commits
<1>4. /\ About(entry, "created", e, kind) <=>
           entry.action = "created" /\ row.env = e /\ row.kind = kind
      /\ About(entry, "revoked", e, kind) <=>
           entry.action = "revoked" /\ row.env = e /\ row.kind = kind
  BY DEF About, Commits
<1>5. CASE entry.action = "created"
  <2>1. credentials[key] = None /\ ~row.revoked /\ row # None
    BY <1>5 DEF Commits
  <2>. QED BY <1>1, <1>2, <1>3, <1>4, <1>5, <2>1 DEF KeysOf, Gone, Audited, n
<1>6. CASE entry.action = "revoked"
  <2>1. /\ credentials[key] # None /\ row.revoked /\ row # None
        /\ row.env = credentials[key].env /\ row.kind = credentials[key].kind
    BY <1>6 DEF Commits
  <2>. QED BY <1>1, <1>2, <1>3, <1>4, <1>6, <2>1 DEF KeysOf, Gone, Audited, n
<1>. QED BY <1>5, <1>6 DEF Commits

(* AuditCountsKeys, with what makes its counts numbers *)
CountsFor(e, kind) ==
  /\ IsFiniteSet(KeysOf(e, kind))
  /\ Cardinality(Audited("created", e, kind)) = Cardinality(KeysOf(e, kind))
  /\ Cardinality(Gone(e, kind)) <= Cardinality(Audited("revoked", e, kind))
  /\ Audited("revoked", e, kind) # {} => Gone(e, kind) # {}
  /\ \A j \in Audited("revoked", e, kind) : \E i \in Audited("created", e, kind) : i < j

Counts == \A e \in Environments, kind \in Kinds : CountsFor(e, kind)

LEMMA AuditedFinite ==
  ASSUME TypeOK, NEW action, NEW e, NEW kind
  PROVE  /\ IsFiniteSet(Audited(action, e, kind))
         /\ Cardinality(Audited(action, e, kind)) \in Nat
<1>1. IsFiniteSet(DOMAIN audit_log)
  <2>1. DOMAIN audit_log = 1..Len(audit_log) /\ Len(audit_log) \in Int
    BY DEF TypeOK
  <2>. QED BY <2>1, FS_Interval
<1>2. Audited(action, e, kind) \in SUBSET DOMAIN audit_log
  BY DEF Audited
<1>. QED BY <1>1, <1>2, FS_Subset, FS_CardinalityType

LEMMA CountsFinite ==
  ASSUME NEW e, NEW kind, CountsFor(e, kind)
  PROVE  /\ IsFiniteSet(KeysOf(e, kind)) /\ Cardinality(KeysOf(e, kind)) \in Nat
         /\ IsFiniteSet(Gone(e, kind)) /\ Cardinality(Gone(e, kind)) \in Nat
<1>1. Gone(e, kind) \in SUBSET KeysOf(e, kind) /\ IsFiniteSet(KeysOf(e, kind))
  BY DEF Gone, CountsFor
<1>. QED BY <1>1, FS_Subset, FS_CardinalityType

(* One more element makes a set one larger, or no larger if it was there. *)
LEMMA OneMore ==
  ASSUME NEW S, IsFiniteSet(S), NEW x, NEW T, T = S \cup {x}
  PROVE  /\ IsFiniteSet(T)
         /\ Cardinality(T) \in Nat /\ Cardinality(S) \in Nat
         /\ Cardinality(S) <= Cardinality(T)
         /\ x \notin S => Cardinality(T) = Cardinality(S) + 1
         /\ Cardinality(T) <= Cardinality(S) + 1
<1>1. /\ IsFiniteSet(T) /\ Cardinality(S) \in Nat
      /\ Cardinality(T) = IF x \in S THEN Cardinality(S) ELSE Cardinality(S) + 1
  BY FS_AddElement, FS_CardinalityType
<1>. QED BY <1>1

LEMMA CommitKeepsCounts ==
  ASSUME TypeOK, NEW entry \in AuditEntry, NEW key \in Keys, NEW row \in Credential,
         Commits(entry, key, row), NEW e \in Environments, NEW kind \in Kinds,
         CountsFor(e, kind)
  PROVE  CountsFor(e, kind)'
<1>. DEFINE n == Len(audit_log) + 1
            I == Audited("created", e, kind)
            R == Audited("revoked", e, kind)
            K == KeysOf(e, kind)
            G == Gone(e, kind)
            made == About(entry, "created", e, kind)
            ended == About(entry, "revoked", e, kind)
<1>1. /\ n \in Nat /\ \A i \in I \cup R : i \in Nat /\ i < n
      /\ I' = I \cup (IF made THEN {n} ELSE {}) /\ R' = R \cup (IF ended THEN {n} ELSE {})
      /\ K' = K \cup (IF made THEN {key} ELSE {}) /\ G' = G \cup (IF ended THEN {key} ELSE {})
      /\ made => key \notin K
      /\ ended => key \in K
  BY CommitAdds
<1>2. n \notin I /\ n \notin R
  BY <1>1
<1>3. ~ (made /\ ended)
  BY DEF About
<1>4. /\ IsFiniteSet(I) /\ IsFiniteSet(R) /\ IsFiniteSet(K) /\ IsFiniteSet(G)
      /\ Cardinality(I) \in Nat /\ Cardinality(R) \in Nat
      /\ Cardinality(K) \in Nat /\ Cardinality(G) \in Nat
  BY AuditedFinite, CountsFinite
<1>5. /\ Cardinality(I) = Cardinality(K)
      /\ Cardinality(G) <= Cardinality(R)
      /\ R # {} => G # {}
      /\ \A j \in R : \E i \in I : i < j
  BY DEF CountsFor
<1>. HIDE DEF n, I, R, K, G, made, ended
<1>6. CASE made
  <2>1. I' = I \cup {n} /\ K' = K \cup {key} /\ R' = R /\ G' = G
    BY <1>1, <1>3, <1>6
  <2>2. IsFiniteSet(K') /\ Cardinality(I') = Cardinality(K')
    BY <1>1, <1>2, <1>4, <1>5, <1>6, <2>1, OneMore
  <2>3. \A j \in R' : \E i \in I' : i < j
    BY <1>5, <2>1
  <2>. QED BY <1>5, <2>1, <2>2, <2>3 DEF CountsFor, I, R, K, G
<1>7. CASE ended
  <2>1. R' = R \cup {n} /\ G' = G \cup {key} /\ I' = I /\ K' = K
    BY <1>1, <1>3, <1>7
  <2>2. Cardinality(G') <= Cardinality(R')
    <3>1. Cardinality(R') = Cardinality(R) + 1
      BY <1>2, <1>4, <2>1, OneMore
    <3>2. Cardinality(G') <= Cardinality(G) + 1 /\ Cardinality(G') \in Nat
      BY <1>4, <2>1, OneMore
    <3>. QED BY <1>4, <1>5, <3>1, <3>2
  <2>3. \A j \in R' : \E i \in I' : i < j
    <3>1. I # {}
      <4>1. Cardinality(K) # 0
        BY <1>1, <1>4, <1>7, FS_EmptySet
      <4>. QED BY <1>4, <1>5, <4>1, FS_EmptySet
    <3>. QED BY <1>1, <1>5, <2>1, <3>1
  <2>4. G' # {}
    BY <2>1
  <2>. QED BY <1>4, <1>5, <2>1, <2>2, <2>3, <2>4 DEF CountsFor, I, R, K, G
<1>8. CASE ~made /\ ~ended
  <2>1. I' = I /\ K' = K /\ R' = R /\ G' = G
    BY <1>1, <1>8
  <2>. QED BY <1>4, <1>5, <2>1 DEF CountsFor, I, R, K, G
<1>. QED BY <1>6, <1>7, <1>8

(* Every other step leaves the credentials and the log alone. *)
LEMMA OnlyCommitChanges ==
  ASSUME [Next]_vars, \A w \in Workers : ~Commit(w)
  PROVE  UNCHANGED <<credentials, audit_log>>
BY DEF vars, controlPlaneVars, Next, ControlPlaneStep, DataPlaneStep, BeginCreate,
       BeginRevoke, Open, Flush, Answer, Abort, Authenticate, Serve, Disconnect,
       Outage, Recover

LEMMA Unaudited ==
  ASSUME UNCHANGED <<credentials, audit_log>>, NEW e, NEW kind
  PROVE  /\ \A action : Audited(action, e, kind)' = Audited(action, e, kind)
         /\ KeysOf(e, kind)' = KeysOf(e, kind) /\ Gone(e, kind)' = Gone(e, kind)
BY DEF Audited, KeysOf, Gone

LEMMA NextCounts == IInv /\ Counts /\ [Next]_vars => Counts'
<1>. SUFFICES ASSUME IInv, Counts, [Next]_vars, NEW e \in Environments, NEW kind \in Kinds
              PROVE  CountsFor(e, kind)'
  BY DEF Counts
<1>0. CountsFor(e, kind)
  BY DEF Counts
<1>1. ASSUME NEW w \in Workers, Commit(w)
      PROVE  CountsFor(e, kind)'
  BY <1>0, <1>1, CommitCommits, CommitKeepsCounts DEF IInv
<1>2. CASE UNCHANGED <<credentials, audit_log>>
  <2>1. /\ \A action : Audited(action, e, kind)' = Audited(action, e, kind)
        /\ KeysOf(e, kind)' = KeysOf(e, kind) /\ Gone(e, kind)' = Gone(e, kind)
    BY <1>2, Unaudited
  <2>. QED BY <1>0, <2>1 DEF CountsFor
<1>. QED BY <1>1, <1>2, OnlyCommitChanges

-----------------------------------------------------------------------------
(* Overlapping revocations *)

(* the requests about to revoke a key that is revoked *)
Late(e, kind) ==
  {w \in Workers : /\ Pending(txn[w]) /\ txn[w].change.action = "revoked"
                   /\ txn[w].row.env = e /\ txn[w].row.kind = kind
                   /\ Revoked(txn[w].change.key)}

(* None of these began after the key was revoked, so a key's revocation    *)
(* finds at most the other requests under way.                             *)
RevocationsBound ==
  \A e \in Environments, kind \in Kinds :
    Cardinality(Audited("revoked", e, kind)) + Cardinality(Late(e, kind))
      <= Cardinality(Workers) * Cardinality(Gone(e, kind))

LEMMA LateFinite ==
  ASSUME NEW S \in SUBSET Workers
  PROVE  /\ IsFiniteSet(Workers) /\ Cardinality(Workers) \in Nat
         /\ IsFiniteSet(S) /\ Cardinality(S) \in Nat
BY CredentialsAssumption, FS_Subset, FS_CardinalityType

(* A step that commits nothing makes no request late. *)
LEMMA NoneGetsLate ==
  ASSUME IInv, [Next]_vars, UNCHANGED <<credentials, audit_log>>,
         NEW e \in Environments, NEW kind \in Kinds
  PROVE  Late(e, kind)' \subseteq Late(e, kind)
<1>. SUFFICES ASSUME NEW v \in Workers, v \in Late(e, kind)'
              PROVE  v \in Late(e, kind)
  BY DEF Late
<1>1. /\ Pending(txn'[v]) /\ txn'[v].change.action = "revoked"
      /\ txn'[v].row.env = e /\ txn'[v].row.kind = kind
      /\ Revoked(txn'[v].change.key)
  BY DEF Late, Pending, Revoked
<1>2. CASE txn'[v] = txn[v]
  BY <1>1, <1>2 DEF Late
<1>3. ASSUME NEW w \in Workers, NEW f \in Environments, NEW d \in Kinds, NEW j \in Keys,
             BeginCreate(w, f, d, j), v = w
      PROVE  FALSE
  <2>1. txn'[v].change.action = "created"
    BY <1>3 DEF BeginCreate, Open, IInv, TypeOK
  <2>. QED BY <1>1, <2>1
<1>4. ASSUME NEW w \in Workers, NEW f \in Environments, NEW j \in Keys,
             BeginRevoke(w, f, j), v = w
      PROVE  FALSE
  <2>1. txn'[v].change.key = j /\ ~Revoked(j)
    BY <1>4 DEF BeginRevoke, Revocable, Open, Revoked, IInv, TypeOK
  <2>. QED BY <1>1, <2>1
<1>5. ASSUME NEW w \in Workers, Flush(w) \/ Answer(w) \/ Abort(w), v = w
      PROVE  v \in Late(e, kind)
  <2>1. CASE Abort(w) \/ (Answer(w) /\ ~answersFirst)
    <3>1. txn'[v] = Idle
      BY <1>5, <2>1 DEF Abort, Answer, IInv, TypeOK
    <3>. QED BY <1>1, <3>1, RecordTypes DEF Pending
  <2>2. CASE Flush(w) \/ (Answer(w) /\ answersFirst)
    <3>1. txn[v].stage \in {"loaded", "flushed"} /\ txn[v].stage # "idle"
      BY <1>5, <2>2 DEF Flush, Answer
    <3>2. txn[v] \in [stage : {"loaded", "flushed", "answered", "committed"},
                      change : Change, row : Credential]
      BY <3>1, RecordTypes DEF IInv, TypeOK
    <3>3. txn'[v].change = txn[v].change /\ txn'[v].row = txn[v].row
      BY <1>5, <2>2, <3>2 DEF Flush, Answer, IInv, TypeOK
    <3>. QED BY <1>1, <3>1, <3>3 DEF Late, Pending
  <2>. QED BY <1>5, <2>1, <2>2
<1>6. ASSUME NEW w \in Workers, Commit(w), v = w
      PROVE  FALSE
  <2>1. audit_log' = Append(audit_log, Entry(txn[w])) /\ audit_log' = audit_log
    BY <1>6 DEF Commit
  <2>2. audit_log \in Seq(AuditEntry)
    BY DEF IInv, TypeOK
  <2>3. Len(audit_log') = Len(audit_log) + 1 /\ Len(audit_log) \in Nat
    BY <2>1, <2>2
  <2>. QED BY <2>1, <2>3
<1>7. ASSUME NEW w \in Workers, ControlPlaneStep(w)
      PROVE  v = w \/ txn'[v] = txn[v]
  BY <1>7 DEF ControlPlaneStep, BeginCreate, BeginRevoke, Open, Flush, Commit, Answer,
              Abort, IInv, TypeOK
<1>8. ASSUME NEW w \in Workers, ControlPlaneStep(w), v = w
      PROVE  v \in Late(e, kind)
  BY <1>3, <1>4, <1>5, <1>6, <1>8 DEF ControlPlaneStep
<1>9. UNCHANGED txn \/ \E w \in Workers : ControlPlaneStep(w)
  BY DEF Next, DataPlaneStep, Authenticate, Serve, Disconnect, Outage, Recover, vars,
         controlPlaneVars
<1>. QED BY <1>2, <1>7, <1>8, <1>9

(* Whom a commit makes late: the others that are revoking the same key. *)
LEMMA CommitMakesLate ==
  ASSUME IInv, NEW w \in Workers, Commit(w), NEW e \in Environments, NEW kind \in Kinds
  PROVE  /\ w \notin Late(e, kind)'
         /\ \/ Late(e, kind)' \subseteq Late(e, kind)
            \/ /\ About(Entry(txn[w]), "revoked", e, kind)
               /\ txn[w].change.key \notin Gone(e, kind)
         /\ About(Entry(txn[w]), "revoked", e, kind) =>
              (w \in Late(e, kind) <=> txn[w].change.key \in Gone(e, kind))
<1>. DEFINE key == txn[w].change.key
            row == txn[w].row
<1>1. /\ key \in Keys /\ row \in Credential /\ TxnShape(txn[w]) /\ Pending(txn[w])
      /\ Commits(Entry(txn[w]), key, row)
      /\ Entry(txn[w]).action = txn[w].change.action
  BY CommitCommits DEF Commit, Pending, IInv, Shapes
<1>2. /\ \A k \in Keys : credentials'[k] = IF k = key THEN row ELSE credentials[k]
      /\ \A v \in Workers \ {w} : txn'[v] = txn[v]
      /\ ~Pending(txn'[w])
  <2>1. \A k \in Keys : credentials'[k] = IF k = key THEN row ELSE credentials[k]
    BY <1>1 DEF Commits, IInv, TypeOK
  <2>2. \A v \in Workers \ {w} : txn'[v] = txn[v]
    BY DEF Commit, IInv, TypeOK
  <2>3. txn[w] \in [stage : {"loaded", "flushed", "answered", "committed"},
                    change : Change, row : Credential]
    BY <1>1, RecordTypes DEF Pending, IInv, TypeOK
  <2>4. txn'[w].stage \in {"idle", "committed"}
    BY <2>3, RecordTypes DEF Commit, IInv, TypeOK
  <2>. QED BY <2>1, <2>2, <2>4 DEF Pending
<1>3. w \notin Late(e, kind)'
  BY <1>2 DEF Late, Pending
<1>4. About(Entry(txn[w]), "revoked", e, kind) <=>
        txn[w].change.action = "revoked" /\ row.env = e /\ row.kind = kind
  BY <1>1 DEF About, Commits
<1>5. ASSUME About(Entry(txn[w]), "revoked", e, kind)
      PROVE  w \in Late(e, kind) <=> key \in Gone(e, kind)
  <2>1. /\ credentials[key] # None
        /\ credentials[key].env = e /\ credentials[key].kind = kind
    BY <1>1, <1>4, <1>5 DEF Commits
  <2>. QED BY <1>1, <1>4, <1>5, <2>1 DEF Late, Gone, KeysOf, Revoked
<1>6. ASSUME NEW v \in Workers, v \in Late(e, kind)', v \notin Late(e, kind)
      PROVE  About(Entry(txn[w]), "revoked", e, kind) /\ key \notin Gone(e, kind)
  <2>1. /\ v # w /\ txn'[v] = txn[v]
        /\ Pending(txn[v]) /\ txn[v].change.action = "revoked"
        /\ txn[v].row.env = e /\ txn[v].row.kind = kind
        /\ ~Revoked(txn[v].change.key)
        /\ Revoked(txn[v].change.key)'
    BY <1>2, <1>6 DEF Late, Pending, Revoked
  <2>2. txn[v].change.key \in Keys /\ TxnShape(txn[v])
    BY <2>1, RecordTypes DEF Pending, IInv, TypeOK, Shapes
  <2>3. txn[v].change.key = key /\ row.revoked
    BY <1>2, <2>1, <2>2 DEF Revoked
  <2>4. credentials[key].env = e /\ credentials[key].kind = kind
    BY <2>1, <2>2, <2>3 DEF TxnShape
  <2>5. txn[w].change.action = "revoked" /\ row.env = e /\ row.kind = kind
    BY <1>1, <2>3, <2>4 DEF Commits
  <2>. QED BY <1>4, <2>1, <2>3, <2>5 DEF Gone, KeysOf, Revoked
<1>. QED BY <1>3, <1>5, <1>6 DEF Late

LEMMA CommitKeepsBound ==
  ASSUME IInv, Counts, RevocationsBound, NEW w \in Workers, Commit(w),
         NEW e \in Environments, NEW kind \in Kinds
  PROVE  Cardinality(Audited("revoked", e, kind)') + Cardinality(Late(e, kind)')
           <= Cardinality(Workers) * Cardinality(Gone(e, kind)')
<1>. DEFINE R == Audited("revoked", e, kind)
            G == Gone(e, kind)
            L == Late(e, kind)
            W == Cardinality(Workers)
            n == Len(audit_log) + 1
            key == txn[w].change.key
            ended == About(Entry(txn[w]), "revoked", e, kind)
<1>1. /\ n \notin R
      /\ R' = R \cup (IF ended THEN {n} ELSE {}) /\ G' = G \cup (IF ended THEN {key} ELSE {})
  BY CommitCommits, CommitAdds DEF IInv
<1>2. /\ IsFiniteSet(R) /\ IsFiniteSet(G)
      /\ Cardinality(R) \in Nat /\ Cardinality(G) \in Nat
  BY AuditedFinite, CountsFinite DEF IInv, Counts
<1>3. /\ L \in SUBSET Workers /\ L' \in SUBSET Workers
      /\ IsFiniteSet(Workers) /\ IsFiniteSet(L) /\ IsFiniteSet(L')
      /\ W \in Nat /\ Cardinality(L) \in Nat /\ Cardinality(L') \in Nat
  <2>1. L \in SUBSET Workers /\ L' \in SUBSET Workers
    BY DEF Late
  <2>. QED BY <2>1, LateFinite
<1>4. /\ w \notin L'
      /\ L' \subseteq L \/ (ended /\ key \notin G)
      /\ ended => (w \in L <=> key \in G)
  BY CommitMakesLate
<1>5. Cardinality(R) + Cardinality(L) <= W * Cardinality(G)
  BY DEF RevocationsBound
<1>. HIDE DEF R, G, L, W, n, key, ended
<1>6. CASE ~ended
  <2>1. R' = R /\ G' = G /\ Cardinality(L') <= Cardinality(L)
    BY <1>1, <1>3, <1>4, <1>6, FS_Subset
  <2>2. PICK r, l, m, x \in Nat : /\ r = Cardinality(R) /\ l = Cardinality(L)
                                  /\ m = Cardinality(L') /\ x = W * Cardinality(G)
    BY <1>2, <1>3
  <2>3. r + l <= x /\ m <= l
    BY <1>5, <2>1, <2>2
  <2>4. r + m <= x
    BY <2>3
  <2>. QED BY <2>1, <2>2, <2>4 DEF R, G, L, W
<1>7. CASE ended /\ key \in G
  <2>1. R' = R \cup {n} /\ G' = G
    BY <1>1, <1>7
  <2>2. Cardinality(R') = Cardinality(R) + 1
    BY <1>1, <1>2, <2>1, OneMore
  <2>3. L' \subseteq L \ {w} /\ w \in L
    BY <1>4, <1>7
  <2>4. IsFiniteSet(L \ {w}) /\ Cardinality(L \ {w}) = Cardinality(L) - 1
    BY <1>3, <2>3, FS_RemoveElement
  <2>5. Cardinality(L') <= Cardinality(L) - 1
    BY <2>3, <2>4, FS_Subset
  <2>6. PICK r, l, m, x \in Nat : /\ r = Cardinality(R) /\ l = Cardinality(L)
                                  /\ m = Cardinality(L') /\ x = W * Cardinality(G)
    BY <1>2, <1>3
  <2>7. r + l <= x /\ m <= l - 1
    BY <1>5, <2>5, <2>6
  <2>8. (r + 1) + m <= x
    BY <2>7
  <2>. QED BY <2>1, <2>2, <2>6, <2>8 DEF R, G, L, W
<1>8. CASE ended /\ key \notin G
  <2>1. R' = R \cup {n} /\ G' = G \cup {key}
    BY <1>1, <1>8
  <2>2. Cardinality(R') = Cardinality(R) + 1
    BY <1>1, <1>2, <2>1, OneMore
  <2>3. Cardinality(G') = Cardinality(G) + 1
    BY <1>2, <1>8, <2>1, OneMore
  <2>4. Cardinality(L') <= W - 1
    <3>1. L' \subseteq Workers \ {w}
      BY <1>3, <1>4
    <3>2. IsFiniteSet(Workers \ {w}) /\ Cardinality(Workers \ {w}) = W - 1
      BY <1>3, FS_RemoveElement DEF W
    <3>. QED BY <3>1, <3>2, FS_Subset
  <2>5. PICK g, v \in Nat : g = Cardinality(G) /\ v = W
    BY <1>2, <1>3
  <2>6. v * (g + 1) = v * g + v /\ v * g \in Nat
    BY <2>5
  <2>7. PICK r, l, m, x \in Nat : /\ r = Cardinality(R) /\ l = Cardinality(L)
                                  /\ m = Cardinality(L') /\ x = v * g
    BY <1>2, <1>3, <2>6
  <2>8. r + l <= x /\ m <= v - 1
    BY <1>5, <2>4, <2>5, <2>7
  <2>9. (r + 1) + m <= x + v
    BY <2>8
  <2>10. W * Cardinality(G') = x + v
    BY <2>3, <2>5, <2>6, <2>7
  <2>. QED BY <2>2, <2>7, <2>9, <2>10 DEF R, G, L, W
<1>. QED BY <1>6, <1>7, <1>8

LEMMA NextRevocationsBound ==
  IInv /\ Counts /\ RevocationsBound /\ [Next]_vars => RevocationsBound'
<1>. SUFFICES ASSUME IInv, Counts, RevocationsBound, [Next]_vars,
                     NEW e \in Environments, NEW kind \in Kinds
              PROVE  Cardinality(Audited("revoked", e, kind)') + Cardinality(Late(e, kind)')
                       <= Cardinality(Workers) * Cardinality(Gone(e, kind)')
  BY DEF RevocationsBound
<1>1. CASE \E w \in Workers : Commit(w)
  BY <1>1, CommitKeepsBound
<1>2. CASE UNCHANGED <<credentials, audit_log>>
  <2>1. /\ Audited("revoked", e, kind)' = Audited("revoked", e, kind)
        /\ Gone(e, kind)' = Gone(e, kind)
    BY <1>2, Unaudited
  <2>2. Late(e, kind)' \subseteq Late(e, kind) /\ Late(e, kind) \in SUBSET Workers
    BY <1>2, NoneGetsLate DEF Late
  <2>3. /\ Cardinality(Late(e, kind)') <= Cardinality(Late(e, kind))
        /\ Cardinality(Late(e, kind)') \in Nat /\ Cardinality(Late(e, kind)) \in Nat
    <3>1. Late(e, kind)' \in SUBSET Workers
      BY <2>2
    <3>. QED BY <2>2, <3>1, LateFinite, FS_Subset
  <2>4. Cardinality(Audited("revoked", e, kind)) \in Nat /\ Cardinality(Gone(e, kind)) \in Nat
        /\ Cardinality(Workers) \in Nat
    BY AuditedFinite, CountsFinite, CredentialsAssumption, FS_CardinalityType
       DEF IInv, Counts
  <2>5. Cardinality(Audited("revoked", e, kind)) + Cardinality(Late(e, kind))
          <= Cardinality(Workers) * Cardinality(Gone(e, kind))
    BY DEF RevocationsBound
  <2>6. PICK r, l, m, x \in Nat :
          /\ r = Cardinality(Audited("revoked", e, kind)) /\ l = Cardinality(Late(e, kind))
          /\ m = Cardinality(Late(e, kind)')
          /\ x = Cardinality(Workers) * Cardinality(Gone(e, kind))
    BY <2>3, <2>4
  <2>7. r + l <= x /\ m <= l
    BY <2>3, <2>5, <2>6
  <2>8. r + m <= x
    BY <2>7
  <2>. QED BY <2>1, <2>6, <2>8
<1>. QED BY <1>1, <1>2, OnlyCommitChanges

-----------------------------------------------------------------------------
(* A row is never removed, nor its revocation taken back. *)

LEMMA RowsLast ==
  ASSUME IInv, [Next]_vars, NEW k \in Keys
  PROVE  /\ credentials[k] # None => credentials'[k] # None
         /\ Revoked(k) => Revoked(k)'
<1>1. ASSUME NEW w \in Workers, Commit(w)
      PROVE  /\ credentials[k] # None => credentials'[k] # None
             /\ Revoked(k) => Revoked(k)'
  <2>1. /\ TxnShape(txn[w]) /\ Pending(txn[w])
        /\ txn[w].change.action \in {"created", "revoked"}
        /\ txn[w].row # None
    BY <1>1, RecordTypes DEF Commit, Pending, IInv, Shapes, TypeOK
  <2>2. credentials'[k] = IF k = txn[w].change.key THEN txn[w].row ELSE credentials[k]
    BY <1>1 DEF Commit, IInv, TypeOK
  <2>. QED BY <2>1, <2>2 DEF TxnShape, Revoked
<1>. QED BY <1>1, OnlyCommitChanges DEF Revoked

LEMMA NextTold == IInv /\ ToldIsCommitted /\ [Next]_vars => ToldIsCommitted'
<1>. SUFFICES ASSUME IInv, ToldIsCommitted, [Next]_vars, ~answersFirst',
                     NEW a \in answers'
              PROVE  /\ credentials'[a.key] # None
                     /\ a.action = "revoked" => Revoked(a.key)'
  BY DEF ToldIsCommitted, Revoked
<1>1. ~answersFirst
  BY DEF vars, controlPlaneVars, Next, ControlPlaneStep, DataPlaneStep, BeginCreate,
         BeginRevoke, Open, Flush, Commit, Answer, Abort, Authenticate, Serve,
         Disconnect, Outage, Recover
<1>2. CASE a \in answers
  <2>1. a.key \in Keys
    BY <1>2 DEF IInv, TypeOK, Change
  <2>. QED BY <1>1, <1>2, <2>1, RowsLast DEF ToldIsCommitted
<1>3. CASE a \notin answers
  <2>1. PICK w \in Workers : Answer(w) /\ a = txn[w].change
    BY <1>3 DEF vars, controlPlaneVars, Next, ControlPlaneStep, DataPlaneStep,
                BeginCreate, BeginRevoke, Open, Flush, Commit, Answer, Abort,
                Authenticate, Serve, Disconnect, Outage, Recover
  <2>2. TxnShape(txn[w]) /\ txn[w].stage = "committed"
    BY <1>1, <2>1 DEF Answer, IInv, Shapes
  <2>3. credentials[a.key] # None /\ (a.action = "revoked" => Revoked(a.key))
    BY <2>1, <2>2 DEF TxnShape
  <2>4. UNCHANGED credentials
    BY <2>1 DEF Answer
  <2>. QED BY <2>3, <2>4 DEF Revoked
<1>. QED BY <1>2, <1>3

-----------------------------------------------------------------------------
(* The steps of the registry *)

LEMMA StatusStep ==
  ASSUME IInv, NEW w \in Workers, Commit(w)
  PROVE  \/ \E k \in Keys : Registry!Issue(k) \/ Registry!Revoke(k)
         \/ UNCHANGED <<Status, Users>>
<1>1. PICK key \in Keys, row \in Credential :
        /\ row # None
        /\ credentials' = [credentials EXCEPT ![key] = row]
        /\ UNCHANGED connections
        /\ \/ credentials[key] = None /\ ~row.revoked
           \/ credentials[key] # None /\ row.revoked
  <2>1. /\ TxnShape(txn[w]) /\ Pending(txn[w])
        /\ txn[w].change.action \in {"created", "revoked"}
        /\ txn[w].row # None /\ txn[w].row \in Credential
        /\ txn[w].change.key \in Keys
    BY RecordTypes DEF Commit, Pending, IInv, Shapes, TypeOK
  <2>. QED BY <2>1 DEF Commit, TxnShape
<1>2. \A k \in Keys : credentials'[k] = IF k = key THEN row ELSE credentials[k]
  BY <1>1 DEF IInv, TypeOK
<1>3. Users' = Users
  BY <1>1 DEF Users
<1>4. Status' = [Status EXCEPT ![key] = IF row.revoked THEN "revoked" ELSE "valid"]
  BY <1>1, <1>2 DEF Status
<1>5. CASE credentials[key] = None
  <2>1. Status[key] = "unissued" /\ ~row.revoked
    BY <1>1, <1>5 DEF Status
  <2>2. Registry!Issue(key)
    BY <1>3, <1>4, <2>1 DEF Registry!Issue
  <2>. QED BY <2>2
<1>6. CASE credentials[key] # None /\ ~credentials[key].revoked
  <2>1. Status[key] = "valid" /\ row.revoked
    BY <1>1, <1>6 DEF Status
  <2>2. Registry!Revoke(key)
    BY <1>3, <1>4, <2>1 DEF Registry!Revoke
  <2>. QED BY <2>2
<1>7. CASE credentials[key] # None /\ credentials[key].revoked
  <2>1. Status[key] = "revoked" /\ row.revoked
    BY <1>1, <1>7 DEF Status
  <2>2. Status' = Status
    BY <1>4, <2>1 DEF Status
  <2>. QED BY <1>3, <2>2
<1>. QED BY <1>5, <1>6, <1>7

LEMMA UsersStep ==
  ASSUME IInv, NEW c \in Clients, DataPlaneStep(c)
  PROVE  \/ \E k \in Keys : Registry!Admit(c, k) \/ Registry!Leave(c, k)
         \/ UNCHANGED <<Status, Users>>
<1>. DEFINE In(n) == n.stage \in {"admitted", "open"}
            old == connections[c]
            new == connections'[c]
<1>1. Status' = Status
  BY DEF DataPlaneStep, Authenticate, Serve, Disconnect, controlPlaneVars, Status
<1>2. \A b \in Clients : connections'[b] = IF b = c THEN new ELSE connections[b]
  BY DEF DataPlaneStep, Authenticate, Serve, Disconnect, IInv, TypeOK
<1>3. \/ ~In(old) /\ In(new) /\ new.key \in Keys /\ Status[new.key] = "valid"
      \/ In(old) /\ ~In(new) /\ old.key \in Keys
      \/ (In(old) <=> In(new)) /\ (In(new) => new.key = old.key)
  <2>0. old \in Connection /\ new \in Connection
    BY ConnectionTypes DEF IInv, TypeOK
  <2>1. ASSUME NEW path \in Paths, NEW k \in Keys, Authenticate(c, path, k)
        PROVE  /\ ~In(old)
               /\ In(new) => new.key \in Keys /\ Status[new.key] = "valid"
    <3>1. /\ ~In(old)
          /\ new.key = k
          /\ In(new) => Grants(k, path)
      BY <2>1, RecordTypes DEF Authenticate, IInv, TypeOK
    <3>. QED BY <3>1 DEF Grants, Status
  <2>2. CASE Serve(c)
    <3>1. old # Closed /\ old.stage = "admitted"
      BY <2>2, RecordTypes DEF Serve
    <3>2. /\ old.key \in Keys
          /\ old \in [stage : {"admitted", "open", "refused"}, path : Paths, key : Keys]
      BY <2>0, <3>1, RecordTypes
    <3>3. CASE old.path = "/sdk/stream"
      <4>1. new = [old EXCEPT !.stage = "open"]
        BY <2>2, <3>3 DEF Serve, IInv, TypeOK
      <4>. QED BY <3>1, <3>2, <4>1
    <3>4. CASE old.path # "/sdk/stream"
      BY <2>2, <3>1, <3>2, <3>4, RecordTypes DEF Serve, IInv, TypeOK
    <3>. QED BY <3>3, <3>4
  <2>3. CASE Disconnect(c)
    <3>1. new = Closed /\ old.key \in Keys
      BY <2>0, <2>3, RecordTypes DEF Disconnect, IInv, TypeOK
    <3>. QED BY <3>1, RecordTypes
  <2>. HIDE DEF old, new
  <2>. QED BY <2>1, <2>2, <2>3 DEF DataPlaneStep
<1>4. /\ Users \in [Keys -> SUBSET Clients] /\ Users' \in [Keys -> SUBSET Clients]
      /\ \A k \in Keys, b \in Clients :
           /\ b \in Users[k] <=> In(connections[b]) /\ connections[b].key = k
           /\ b \in Users'[k] <=> In(connections'[b]) /\ connections'[b].key = k
  BY DEF Users
<1>5. \A k \in Keys :
        /\ \A b \in Clients \ {c} : b \in Users'[k] <=> b \in Users[k]
        /\ c \in Users[k] <=> In(old) /\ old.key = k
        /\ c \in Users'[k] <=> In(new) /\ new.key = k
  BY <1>2, <1>4
<1>. HIDE DEF In, old, new
<1>6. CASE ~In(old) /\ In(new) /\ new.key \in Keys /\ Status[new.key] = "valid"
  <2>1. \A j \in Keys : c \notin Users[j]
    BY <1>5, <1>6
  <2>2. ASSUME NEW k \in Keys
        PROVE  Users'[k] = IF k = new.key THEN Users[k] \cup {c} ELSE Users[k]
    <3>1. ASSUME NEW b \in Clients
          PROVE  b \in Users'[k] <=> b \in (IF k = new.key THEN Users[k] \cup {c} ELSE Users[k])
      BY <1>5, <1>6
    <3>2. Users[k] \subseteq Clients /\ Users'[k] \subseteq Clients
      BY <1>4
    <3>. QED BY <3>1, <3>2
  <2>3. Users' = [Users EXCEPT ![new.key] = @ \cup {c}]
    BY <1>4, <2>2
  <2>4. Registry!Admit(c, new.key)
    BY <1>1, <1>6, <2>1, <2>3 DEF Registry!Admit
  <2>. QED BY <1>6, <2>4
<1>7. CASE In(old) /\ ~In(new) /\ old.key \in Keys
  <2>1. c \in Users[old.key]
    BY <1>5, <1>7
  <2>2. ASSUME NEW k \in Keys
        PROVE  Users'[k] = IF k = old.key THEN Users[k] \ {c} ELSE Users[k]
    <3>1. ASSUME NEW b \in Clients
          PROVE  b \in Users'[k] <=> b \in (IF k = old.key THEN Users[k] \ {c} ELSE Users[k])
      BY <1>5, <1>7
    <3>2. Users[k] \subseteq Clients /\ Users'[k] \subseteq Clients
      BY <1>4
    <3>. QED BY <3>1, <3>2
  <2>3. Users' = [Users EXCEPT ![old.key] = @ \ {c}]
    BY <1>4, <2>2
  <2>4. Registry!Leave(c, old.key)
    BY <1>1, <2>1, <2>3 DEF Registry!Leave
  <2>. QED BY <1>7, <2>4
<1>8. CASE (In(old) <=> In(new)) /\ (In(new) => new.key = old.key)
  <2>1. ASSUME NEW k \in Keys
        PROVE  Users'[k] = Users[k]
    <3>1. ASSUME NEW b \in Clients
          PROVE  b \in Users'[k] <=> b \in (Users[k])
      BY <1>5, <1>8
    <3>2. Users[k] \subseteq Clients /\ Users'[k] \subseteq Clients
      BY <1>4
    <3>. QED BY <3>1, <3>2
  <2>2. Users' = Users
    BY <1>4, <2>1
  <2>. QED BY <1>1, <2>2
<1>. QED BY <1>3, <1>6, <1>7, <1>8

LEMMA RegistryStep == IInv /\ [Next]_vars => [Registry!RegistryNext]_(<<Status, Users>>)
<1>. SUFFICES ASSUME IInv, [Next]_vars
              PROVE  [Registry!RegistryNext]_(<<Status, Users>>)
  OBVIOUS
<1>1. CASE \E w \in Workers : Commit(w)
  BY <1>1, StatusStep DEF Registry!RegistryNext
<1>2. CASE \E c \in Clients : DataPlaneStep(c)
  BY <1>2, UsersStep DEF Registry!RegistryNext
<1>3. CASE UNCHANGED <<credentials, connections>>
  BY <1>3 DEF Status, Users
<1>. QED
  BY <1>1, <1>2, <1>3
     DEF vars, controlPlaneVars, Next, ControlPlaneStep, BeginCreate, BeginRevoke, Open,
         Flush, Answer, Abort, Outage, Recover

LEMMA RegistryStart == Init => Registry!RegistryInit
<1>. SUFFICES ASSUME Init PROVE Registry!RegistryInit
  OBVIOUS
<1>1. Status = [k \in Keys |-> "unissued"]
  BY DEF Init, Status
<1>2. Users = [k \in Keys |-> {}]
  BY RecordTypes DEF Init, Users
<1>. QED BY <1>1, <1>2 DEF Registry!RegistryInit

-----------------------------------------------------------------------------
(* The specification *)

(* The inductive invariant *)
THEOREM Invariance == Spec => []IInv
BY InitIInv, NextIInv, PTL DEF Spec

(***************************************************************************)
(* Credentials, requests, answers and connections keep their types.        *)
(***************************************************************************)
THEOREM TypeCorrect == Spec => []TypeOK
<1>1. IInv => TypeOK
  BY DEF IInv
<1>. QED BY <1>1, Invariance, PTL

(***************************************************************************)
(* The audit log counts the keys of every environment and kind, and those  *)
(* revoked, however requests overlap and wherever they are cut off         *)
(* (credentials.py:22-88, audit.py:2).                                     *)
(***************************************************************************)
THEOREM AuditCounts == Spec => []AuditCountsKeys
<1>1. Init => Counts
  <2>. SUFFICES ASSUME Init, NEW e \in Environments, NEW kind \in Kinds
                PROVE  CountsFor(e, kind)
    BY DEF Counts
  <2>1. /\ \A action : Audited(action, e, kind) = {}
        /\ KeysOf(e, kind) = {} /\ Gone(e, kind) = {}
    BY DEF Init, Audited, KeysOf, Gone
  <2>. QED BY <2>1, FS_EmptySet DEF CountsFor
<1>2. Counts => AuditCountsKeys
  BY DEF Counts, CountsFor, AuditCountsKeys
<1>. QED BY <1>1, <1>2, NextCounts, Invariance, PTL DEF Spec

(***************************************************************************)
(* Overlapping revocations of a key all take effect, as the check for one  *)
(* already revoked reads a row it does not lock (credentials.py:71-75);    *)
(* but no more of them than requests may be open at once.                  *)
(***************************************************************************)
THEOREM RevocationsWithinWorkers == Spec => []RevocationsOverlap
<1>1. Init => Counts /\ RevocationsBound
  <2>. SUFFICES ASSUME Init, NEW e \in Environments, NEW kind \in Kinds
                PROVE  /\ CountsFor(e, kind)
                       /\ Cardinality(Audited("revoked", e, kind)) + Cardinality(Late(e, kind))
                            <= Cardinality(Workers) * Cardinality(Gone(e, kind))
    BY DEF Counts, RevocationsBound
  <2>1. /\ \A action : Audited(action, e, kind) = {}
        /\ KeysOf(e, kind) = {} /\ Gone(e, kind) = {} /\ Late(e, kind) = {}
    BY DEF Init, Audited, KeysOf, Gone, Late, Pending, Idle
  <2>2. Cardinality(Workers) \in Nat
    BY CredentialsAssumption, FS_CardinalityType
  <2>3. CountsFor(e, kind)
    BY <2>1, FS_EmptySet DEF CountsFor
  <2>4. Cardinality({}) = 0 /\ Cardinality(Workers) * 0 = 0
    BY <2>2, FS_EmptySet
  <2>. QED BY <2>1, <2>3, <2>4
<1>2. IInv /\ Counts /\ RevocationsBound => RevocationsOverlap
  <2>. SUFFICES ASSUME IInv, Counts, RevocationsBound,
                       NEW e \in Environments, NEW kind \in Kinds
                PROVE  Cardinality(Audited("revoked", e, kind))
                         <= Cardinality(Workers) * Cardinality(Gone(e, kind))
    BY DEF RevocationsOverlap
  <2>1. Cardinality(Audited("revoked", e, kind)) + Cardinality(Late(e, kind))
          <= Cardinality(Workers) * Cardinality(Gone(e, kind))
    BY DEF RevocationsBound
  <2>2. /\ Cardinality(Audited("revoked", e, kind)) \in Nat
        /\ Cardinality(Workers) \in Nat /\ Cardinality(Gone(e, kind)) \in Nat
    BY AuditedFinite, CountsFinite, CredentialsAssumption, FS_CardinalityType
       DEF IInv, Counts
  <2>3. Cardinality(Late(e, kind)) \in Nat
    BY LateFinite DEF Late
  <2>4. PICK r, l, x \in Nat :
          /\ r = Cardinality(Audited("revoked", e, kind)) /\ l = Cardinality(Late(e, kind))
          /\ x = Cardinality(Workers) * Cardinality(Gone(e, kind))
    BY <2>2, <2>3
  <2>5. r <= x
    BY <2>1, <2>4
  <2>. QED BY <2>4, <2>5
<1>. QED BY <1>1, <1>2, NextCounts, NextRevocationsBound, Invariance, PTL DEF Spec

(***************************************************************************)
(* In a build that commits before it answers, what the console was told    *)
(* has happened (db.py:29-31).                                             *)
(***************************************************************************)
THEOREM AnswersHold == Spec => []ToldIsCommitted
<1>1. Init => ToldIsCommitted
  BY DEF Init, ToldIsCommitted
<1>. QED BY <1>1, NextTold, Invariance, PTL DEF Spec

(***************************************************************************)
(* The control plane's transactions and the data plane's lookups implement *)
(* the key registry: no key is issued twice or comes back from revocation, *)
(* and nobody gets in with one that is not valid (auth.go:28-36).          *)
(***************************************************************************)
THEOREM ImplementsRegistry == Spec => KeepsRegistry
<1>. QED
  BY RegistryStart, RegistryStep, Invariance, PTL
     DEF Spec, KeepsRegistry, Registry!RegistrySpec, Registry!registryVars
=============================================================================
