----------------------------- MODULE Credentials -----------------------------
(***************************************************************************)
(* SDK credentials: issued and revoked through the control plane           *)
(* (control-plane/app/api/credentials.py), looked up by the data plane on  *)
(* each request it gets (internal/auth, internal/server).                  *)
(*                                                                         *)
(* A request of the control plane is one READ COMMITTED transaction.  It   *)
(* is answered once it has committed, or just before: FastAPI ran the end  *)
(* of get_session ahead of the response up to 0.117 and runs it behind the *)
(* response since, and pyproject.toml accepts both.                        *)
(***************************************************************************)
EXTENDS Integers, Sequences, FiniteSets

CONSTANTS
  Keys,          \* the keys the generator may draw, each at most once
  Environments,
  Kinds,         \* kinds of credentials in use
  Workers,       \* requests the control plane has open at once: a connection each
  Clients,       \* connections to the data plane
  None,
  MaxChanges     \* bound: changes committed in one behaviour

ASSUME CredentialsAssumption ==
  /\ Kinds \subseteq {"server", "client", "mobile"}
  /\ None \notin [env : Environments, kind : Kinds, revoked : BOOLEAN]
  /\ IsFiniteSet(Workers)
  /\ MaxChanges \in Nat

VARIABLES
  credentials,   \* key -> its committed row of sdk_credentials, or None
  audit_log,     \* committed audit rows, in commit order
  txn,           \* worker -> the request it runs
  answersFirst,  \* does this build answer before it commits?
  answers,       \* what the console has been told was done
  database,      \* "up" or "down"
  connections    \* client -> its request to the data plane

controlPlaneVars == <<credentials, audit_log, txn, answersFirst, answers>>
vars == <<controlPlaneVars, database, connections>>

-----------------------------------------------------------------------------

Credential == [env : Environments, kind : Kinds, revoked : BOOLEAN]
Change == [action : {"created", "revoked"}, key : Keys]
AuditEntry == [action : {"created", "revoked"}, env : Environments, kind : Kinds]
Paths == {"/sdk/stream", "/eval", "/events"}

Idle == [stage |-> "idle"]
Txn == {Idle} \cup
  [stage : {"loaded", "flushed", "answered", "committed"}, change : Change,
   row : Credential]

Closed == [stage |-> "closed"]
Connection == {Closed} \cup
  [stage : {"admitted", "open", "refused"}, path : Paths, key : Keys]

TypeOK ==
  /\ credentials \in [Keys -> Credential \cup {None}]
  /\ audit_log \in Seq(AuditEntry)
  /\ txn \in [Workers -> Txn]
  /\ answersFirst \in BOOLEAN
  /\ answers \subseteq Change
  /\ database \in {"up", "down"}
  /\ connections \in [Clients -> Connection]

Init ==
  /\ credentials = [k \in Keys |-> None]
  /\ audit_log = <<>>
  /\ txn = [w \in Workers |-> Idle]
  /\ answersFirst \in BOOLEAN
  /\ answers = {}
  /\ database = "up"
  /\ connections = [c \in Clients |-> Closed]

-----------------------------------------------------------------------------
(* The control plane *)

Running(w) == txn[w].stage # "idle"
HasRoom == Len(audit_log) < MaxChanges

Open(w, stage, action, k, row) ==
  /\ database = "up"
  /\ HasRoom
  /\ ~Running(w)
  /\ txn' = [txn EXCEPT ![w] =
       [stage |-> stage, change |-> [action |-> action, key |-> k], row |-> row]]
  /\ UNCHANGED <<credentials, audit_log, answersFirst, answers, database, connections>>

(* generate() draws a key nobody has drawn before. *)
Fresh(k) ==
  /\ credentials[k] = None
  /\ [action |-> "created", key |-> k] \notin answers
  /\ \A w \in Workers : Running(w) => txn[w].change.key # k

(* mutant: the row is written without its revoked_at *)
BeginCreateBare(w, e, kind, k) ==
  /\ Fresh(k)
  /\ Open(w, "flushed", "created", k, [env |-> e, kind |-> kind])

BeginCreate(w, e, kind, k) ==
  /\ Fresh(k)
  /\ Open(w, "flushed", "created", k, [env |-> e, kind |-> kind, revoked |-> FALSE])

(* mutant: a credential may be revoked again *)
RevocableAlways(k, e) == credentials[k] # None /\ credentials[k].env = e

(* 404 for no credential of this environment, 409 for one already revoked *)
Revocable(k, e) ==
  /\ credentials[k] # None
  /\ credentials[k].env = e
  /\ ~credentials[k].revoked

BeginRevoke(w, e, k) ==
  /\ Revocable(k, e)
  /\ Open(w, "loaded", "revoked", k, [credentials[k] EXCEPT !.revoked = TRUE])

(* The audit row of a request: its resource_key is the key's prefix, made   *)
(* of kind and environment, which all such keys share; of the key itself it *)
(* has neither id nor diff.                                                 *)
Entry(t) == [action |-> t.change.action, env |-> t.row.env, kind |-> t.row.kind]

(* mutant: the audit row is written by a transaction of its own *)
FlushAuditsApart(w) ==
  /\ database = "up"
  /\ txn[w].stage = "loaded"
  /\ txn' = [txn EXCEPT ![w].stage = "flushed"]
  /\ audit_log' = Append(audit_log, Entry(txn[w]))
  /\ UNCHANGED <<credentials, answersFirst, answers, database, connections>>

(* The UPDATE waits for the row lock another revocation may hold. *)
Flush(w) ==
  /\ database = "up"
  /\ txn[w].stage = "loaded"
  /\ \A v \in Workers : txn[v].stage \in {"flushed", "answered"} =>
       txn[v].change.key # txn[w].change.key
  /\ txn' = [txn EXCEPT ![w].stage = "flushed"]
  /\ UNCHANGED <<credentials, audit_log, answersFirst, answers, database, connections>>

Commit(w) ==
  /\ database = "up"
  /\ txn[w].stage = (IF answersFirst THEN "answered" ELSE "flushed")
  /\ credentials' = [credentials EXCEPT ![txn[w].change.key] = txn[w].row]
  /\ audit_log' = Append(audit_log, Entry(txn[w]))
  /\ txn' = [txn EXCEPT ![w] = IF answersFirst THEN Idle
                               ELSE [@ EXCEPT !.stage = "committed"]]
  /\ UNCHANGED <<answersFirst, answers, database, connections>>

(* mutant: the answer leaves ahead of the commit in every build *)
AnswerEarly(w) ==
  /\ txn[w].stage = "flushed"
  /\ answers' = answers \cup {txn[w].change}
  /\ txn' = [txn EXCEPT ![w].stage = IF answersFirst THEN "answered" ELSE "flushed"]
  /\ UNCHANGED <<credentials, audit_log, answersFirst, database, connections>>

(* 201 with the plaintext key, which is not kept, or 200 with revoked_at *)
Answer(w) ==
  /\ txn[w].stage = (IF answersFirst THEN "flushed" ELSE "committed")
  /\ answers' = answers \cup {txn[w].change}
  /\ txn' = [txn EXCEPT ![w] = IF answersFirst THEN [@ EXCEPT !.stage = "answered"]
                               ELSE Idle]
  /\ UNCHANGED <<credentials, audit_log, answersFirst, database, connections>>

(* An exception, an outage or the death of the process, before the commit  *)
(* or between it and the answer.                                           *)
Abort(w) ==
  /\ Running(w)
  /\ txn' = [txn EXCEPT ![w] = Idle]
  /\ UNCHANGED <<credentials, audit_log, answersFirst, answers, database, connections>>

-----------------------------------------------------------------------------
(* The data plane *)

MayUse(kind, path) ==
  \/ path = "/sdk/stream" /\ kind = "server"
  \/ path = "/eval" /\ kind # "server"
  \/ path = "/events"

(* mutant: the lookup does not ask for revoked_at *)
GrantsRevoked(k, path) == credentials[k] # None /\ MayUse(credentials[k].kind, path)

(* the row found by the key's hash with revoked_at IS NULL, of a kind that fits *)
Grants(k, path) ==
  /\ credentials[k] # None
  /\ ~credentials[k].revoked
  /\ MayUse(credentials[k].kind, path)

(* A key is presented by who was given it.  Any error of the lookup, that  *)
(* of a database that does not answer included, is a 401.                  *)
Authenticate(c, path, k) ==
  /\ connections[c] = Closed
  /\ [action |-> "created", key |-> k] \in answers
  /\ connections' = [connections EXCEPT ![c] =
       [stage |-> IF database = "up" /\ Grants(k, path) THEN "admitted" ELSE "refused",
        path |-> path, key |-> k]]
  /\ UNCHANGED <<controlPlaneVars, database>>

(* The handler goes on with what the lookup found.  A stream stays open and *)
(* asks no more; the other paths answer and are done.                       *)
Serve(c) ==
  /\ connections[c].stage = "admitted"
  /\ connections' = [connections EXCEPT ![c] =
       IF @.path = "/sdk/stream" THEN [@ EXCEPT !.stage = "open"] ELSE Closed]
  /\ UNCHANGED <<controlPlaneVars, database>>

(* The connection ends: the client leaves or the process dies. *)
Disconnect(c) ==
  /\ connections[c] # Closed
  /\ connections' = [connections EXCEPT ![c] = Closed]
  /\ UNCHANGED <<controlPlaneVars, database>>

Outage ==
  /\ database = "up"
  /\ database' = "down"
  /\ UNCHANGED <<controlPlaneVars, connections>>

Recover ==
  /\ database = "down"
  /\ database' = "up"
  /\ UNCHANGED <<controlPlaneVars, connections>>

-----------------------------------------------------------------------------

ControlPlaneStep(w) ==
  \/ \E e \in Environments, kind \in Kinds, k \in Keys : BeginCreate(w, e, kind, k)
  \/ \E e \in Environments, k \in Keys : BeginRevoke(w, e, k)
  \/ Flush(w)
  \/ Commit(w)
  \/ Answer(w)
  \/ Abort(w)

DataPlaneStep(c) ==
  \/ \E path \in Paths, k \in Keys : Authenticate(c, path, k)
  \/ Serve(c)
  \/ Disconnect(c)

Next ==
  \/ \E w \in Workers : ControlPlaneStep(w)
  \/ \E c \in Clients : DataPlaneStep(c)
  \/ Outage
  \/ Recover

Spec == Init /\ [][Next]_vars

-----------------------------------------------------------------------------
(* Properties *)

Revoked(k) == credentials[k] # None /\ credentials[k].revoked
Audited(action, e, kind) ==
  {i \in DOMAIN audit_log :
     audit_log[i] = [action |-> action, env |-> e, kind |-> kind]}

(* the keys of an environment and a kind, and those of them revoked *)
KeysOf(e, kind) ==
  {k \in Keys : /\ credentials[k] # None
                /\ credentials[k].env = e /\ credentials[k].kind = kind}
Gone(e, kind) == {k \in KeysOf(e, kind) : credentials[k].revoked}

(***************************************************************************)
(* "an audit row and its change commit or roll back together" (audit.py:2). *)
(* Its rows cannot tell the keys of a kind apart, but they count them:      *)
(* whatever overlaps, waits, fails or is cut off, an environment has as     *)
(* many keys of a kind as were audited, no more revocations than were, none *)
(* audited without a revoked key, and none ahead of every issue.            *)
(***************************************************************************)
AuditCountsKeys ==
  \A e \in Environments, kind \in Kinds :
    LET issued == Audited("created", e, kind)
        revoked == Audited("revoked", e, kind)
    IN /\ Cardinality(issued) = Cardinality(KeysOf(e, kind))
       /\ Cardinality(Gone(e, kind)) <= Cardinality(revoked)
       /\ revoked # {} => Gone(e, kind) # {}
       /\ \A j \in revoked : \E i \in issued : i < j

(***************************************************************************)
(* The 409 of "credential already revoked" (credentials.py:74) looks at a   *)
(* row that is not locked, so overlapping revocations of one key all take   *)
(* effect and are audited; but only those: a key is revoked at most once    *)
(* per request that may be open at once.                                    *)
(***************************************************************************)
RevocationsOverlap ==
  \A e \in Environments, kind \in Kinds :
    Cardinality(Audited("revoked", e, kind))
      <= Cardinality(Workers) * Cardinality(Gone(e, kind))

(***************************************************************************)
(* A key is issued once, revoked for good, and from the commit of its       *)
(* revocation on nobody new gets in with it (auth.go:32), whatever requests *)
(* on the credential are still under way; who was let in before, a stream   *)
(* above all (server.go:73), stays until it leaves.  The second of two      *)
(* overlapping revocations changes nothing.                                 *)
(***************************************************************************)
Status ==
  [k \in Keys |-> IF credentials[k] = None THEN "unissued"
                  ELSE IF credentials[k].revoked THEN "revoked" ELSE "valid"]

Users ==
  [k \in Keys |-> {c \in Clients : /\ connections[c].stage \in {"admitted", "open"}
                                   /\ connections[c].key = k}]

Registry == INSTANCE KeyRegistry WITH status <- Status, users <- Users
KeepsRegistry == Registry!RegistrySpec

(***************************************************************************)
(* Where the commit comes before the response (db.py:29-31), what the       *)
(* console was told has happened: a key it shows can be found, and stays    *)
(* until it is revoked, and one it was told is revoked lets nobody in.      *)
(***************************************************************************)
ToldIsCommitted ==
  ~answersFirst =>
    \A a \in answers : /\ credentials[a.key] # None
                       /\ a.action = "revoked" => Revoked(a.key)

-----------------------------------------------------------------------------
(* What the documents say and the code does not do *)

(***************************************************************************)
(* "Reads never hit Postgres on the eval path" (data-plane/README.md:10):   *)
(* a key that is good for /eval is not refused there, outage or not.        *)
(***************************************************************************)
EvalNeedsNoDatabase ==
  [][\A c \in Clients :
       LET now == connections'[c] IN
       (connections[c] = Closed /\ now.stage = "refused" /\ now.path = "/eval") =>
         ~Grants(now.key, "/eval")]_vars
=============================================================================
