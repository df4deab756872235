---------------------------- MODULE ControlPlane -----------------------------
(***************************************************************************)
(* The control plane's write path (control-plane/app/api).                 *)
(*                                                                         *)
(* FastAPI runs the synchronous handlers on a thread pool, and db.py gives *)
(* each request a session and one READ COMMITTED transaction, committed    *)
(* when the handler returns and rolled back on any exception.  A worker    *)
(* therefore goes through                                                  *)
(*                                                                         *)
(*     idle --Begin*--> loaded --Flush--> flushed --Commit--> idle         *)
(*            (reads)          (row lock)                                  *)
(*                                                                         *)
(* and may be rolled back anywhere on the way.  Between its reads and its  *)
(* flush other requests commit: that is the concurrency modelled here.     *)
(*                                                                         *)
(* The columns of a row other than its version are abstracted to Columns,  *)
(* each holding one of Values; a request body is one value per column,     *)
(* already accepted by the schemas and by _validate_indices (a rejected    *)
(* request changes nothing and is not modelled).  Lookups that end in 404  *)
(* and duplicate keys that end in 409 change nothing either: they are the  *)
(* guards of the Begin actions.                                            *)
(***************************************************************************)
EXTENDS Integers, Sequences, FiniteSets

CONSTANTS
  Workers,        \* requests open at once: a connection each
  Project,        \* the project key of all requests
  Flags,          \* flag keys a request may create
  Segments,       \* segment keys a request may create
  Environments,   \* environment keys a request may create
  Columns,        \* targeting columns of a config row
  Values,         \* values of a column
  DefaultValue,   \* the value the models' column defaults give
  None,           \* SQL NULL
  NotifyBackend,  \* notify.backend of the configuration
  MaxCommits      \* bound: transactions committed in one behaviour

ASSUME ControlPlaneAssumption ==
  /\ Flags \cap Segments = {}
  /\ Flags \cap Environments = {}
  /\ Segments \cap Environments = {}
  /\ IsFiniteSet(Flags \cup Segments)
  /\ IsFiniteSet(Workers)
  /\ Project \notin Flags \cup Segments \cup Environments
  /\ None \notin Environments
  /\ DefaultValue \in Values
  /\ NotifyBackend \in {"postgres", "log"}
  /\ MaxCommits \in Nat

VARIABLES
  projects,       \* committed rows of projects
  environments,   \* committed rows of environments
  flags,          \* committed rows of flags
  segments,       \* committed rows of segments
  configs,        \* the two config tables: key -> committed row or NoRow
  flags_changed,  \* NOTIFY payloads delivered, in commit order
  audit_log,      \* committed audit rows, in commit order
  txn             \* the transaction each worker has open

vars == <<projects, environments, flags, segments, configs, flags_changed,
          audit_log, txn>>

-----------------------------------------------------------------------------

Resources == Flags \cup Segments
Keys == Resources \X Environments
Contents == [Columns -> Values]
DefaultContent == [c \in Columns |-> DefaultValue]
Row == [content : Contents, version : Nat]
SeedRow == [content |-> DefaultContent, version |-> 1]

(* No row: a row that exists has a version of at least 1.  It is also the  *)
(* unsaved object update_segment_config starts from when it finds no row.  *)
NoRow == [content |-> DefaultContent, version |-> 0]

Exists(k) == configs[k].version # 0

(* audit.record's action codes *)
Actions == {"project.created", "environment.created", "flag.created",
            "segment.created", "flag.targeting.updated", "segment.updated"}

(***************************************************************************)
(* An open transaction.  resource and env name what a request creates or   *)
(* the row a PUT is about; seen is that row as the session loaded it;      *)
(* seeds are the environments create_flag selected.                        *)
(***************************************************************************)
Txn == [stage : {"idle", "loaded", "flushed"},
        action : Actions \cup {"none"},
        resource : Resources \cup Environments \cup {Project, None},
        env : Environments \cup {None},
        seen : Row,
        body : Contents,
        seeds : SUBSET Environments]

Idle == [stage |-> "idle", action |-> "none", resource |-> None, env |-> None,
         seen |-> NoRow, body |-> DefaultContent, seeds |-> {}]

AuditEntry == [action : Actions,
               resource : Resources \cup Environments \cup {Project},
               env : Environments \cup {None},
               diff : SUBSET [before : Row, after : Row]]

Updates == {"flag.targeting.updated", "segment.updated"}

TypeOK ==
  /\ projects \subseteq {Project}
  /\ environments \subseteq Environments
  /\ flags \subseteq Flags
  /\ segments \subseteq Segments
  /\ configs \in [Keys -> Row]
  /\ flags_changed \in Seq(Environments)
  /\ audit_log \in Seq(AuditEntry)
  /\ txn \in [Workers -> Txn]

Init ==
  /\ projects = {}
  /\ environments = {}
  /\ flags = {}
  /\ segments = {}
  /\ configs = [k \in Keys |-> NoRow]
  /\ flags_changed = <<>>
  /\ audit_log = <<>>
  /\ txn = [w \in Workers |-> Idle]

-----------------------------------------------------------------------------
(* Helpers *)

Key(t) == <<t.resource, t.env>>

(* mutant: only the first PUT sets the version *)
NextVersionOnce(t) == IF t.seen.version = 0 THEN 1 ELSE t.seen.version

(* cfg.version += 1, computed from the version the session loaded *)
NextVersion(t) == t.seen.version + 1

(* The session loaded no row, so it will INSERT one. *)
IsInsert(t) == t.seen.version = 0

(* The row after the request's assignments, as the handler's session has it. *)
After(t) == [content |-> t.body, version |-> NextVersion(t)]

(* mutant: the UPDATE names every column *)
WrittenWhole(t) == After(t)

(* mutant: a PUT merges like a PATCH, defaults leave the column alone *)
WrittenPatch(t) ==
  [content |-> [c \in Columns |-> IF t.body[c] # DefaultValue
                                  THEN t.body[c]
                                  ELSE configs[Key(t)].content[c]],
   version |-> NextVersion(t)]

(***************************************************************************)
(* What the flushed statement leaves in the table.  An INSERT writes every *)
(* column.  An UPDATE names only the columns whose new value differs from  *)
(* the loaded one, and version, which always differs; the columns it does  *)
(* not name keep what is in the table by then.                             *)
(***************************************************************************)
Written(t) ==
  IF IsInsert(t)
  THEN After(t)
  ELSE [content |-> [c \in Columns |-> IF t.body[c] # t.seen.content[c]
                                       THEN t.body[c]
                                       ELSE configs[Key(t)].content[c]],
        version |-> NextVersion(t)]

(* mutant: a payload equal to the last one is not sent again *)
SignalCoalesced(channel, e) ==
  IF channel # <<>> /\ channel[Len(channel)] = e THEN channel ELSE Append(channel, e)

(* pg_notify runs in the transaction: the payload is sent when it commits. *)
Signal(channel, e) ==
  IF NotifyBackend = "postgres" THEN Append(channel, e) ELSE channel

Record(t, diff) ==
  Append(audit_log, [action |-> t.action, resource |-> t.resource,
                     env |-> t.env, diff |-> diff])

(* mutant: the snapshots leave out the version *)
DiffWithoutVersion(t) ==
  IF t.action = "flag.targeting.updated"
  THEN {[before |-> [content |-> t.seen.content], after |-> [content |-> t.body]]}
  ELSE {}

(* Only update_flag_config passes a diff to audit.record. *)
Diff(t) ==
  IF t.action = "flag.targeting.updated"
  THEN {[before |-> t.seen, after |-> After(t)]} ELSE {}

(* mutant: the rows are locked as they are loaded, without an order *)
BlocksFromLoad(v, w) ==
  /\ v # w
  /\ txn[v].stage # "idle"
  /\ txn[v].action \in Updates
  /\ Key(txn[v]) = Key(txn[w])

(* v has flushed a statement on the row that w is about to write: an UPDATE *)
(* waits for its row lock, an INSERT for its unique index entry.            *)
Blocks(v, w) ==
  /\ v # w
  /\ txn[v].stage = "flushed"
  /\ txn[v].action \in Updates
  /\ Key(txn[v]) = Key(txn[w])

(* an uncommitted INSERT of the same key in a catalog table *)
Creating(x) ==
  \E v \in Workers :
    /\ txn[v].stage = "flushed"
    /\ txn[v].action \notin Updates
    /\ txn[v].resource = x

(* the requests under way *)
Open == {w \in Workers : txn[w].stage # "idle"}

(* the bound: a request begins only if it may still commit within it *)
HasRoom == Len(audit_log) + Cardinality(Open) < MaxCommits

-----------------------------------------------------------------------------
(* Requests that create a catalog row: the INSERT is flushed at once. *)

Create(w, action, x, env, seeds) ==
  /\ txn[w].stage = "idle"
  /\ HasRoom
  /\ ~Creating(x)
  /\ txn' = [txn EXCEPT ![w] = [Idle EXCEPT !.stage = "flushed", !.action = action,
                                            !.resource = x, !.env = env,
                                            !.seeds = seeds]]
  /\ UNCHANGED <<projects, environments, flags, segments, configs, flags_changed,
                 audit_log>>

BeginCreateProject(w) ==
  /\ Project \notin projects
  /\ Create(w, "project.created", Project, None, {})

(* The other requests look their project up first: 404 when there is none. *)
BeginCreateEnvironment(w, e) ==
  /\ Project \in projects
  /\ e \notin environments
  /\ Create(w, "environment.created", e, e, {})

BeginCreateSegment(w, s) ==
  /\ Project \in projects
  /\ s \notin segments
  /\ Create(w, "segment.created", s, None, {})

(* After its INSERT, create_flag selects the environments to seed. *)
BeginCreateFlag(w, f) ==
  /\ Project \in projects
  /\ f \notin flags
  /\ Create(w, "flag.created", f, None, environments)

CommitCreate(w) ==
  LET t == txn[w] IN
  /\ t.stage = "flushed"
  /\ t.action \notin Updates
  /\ projects' = projects \cup ({t.resource} \cap {Project})
  /\ environments' = environments \cup ({t.resource} \cap Environments)
  /\ flags' = flags \cup ({t.resource} \cap Flags)
  /\ segments' = segments \cup ({t.resource} \cap Segments)
  /\ configs' = [k \in Keys |-> IF k \in {t.resource} \X t.seeds
                                THEN SeedRow ELSE configs[k]]
  /\ audit_log' = Record(t, {})
  /\ txn' = [txn EXCEPT ![w] = Idle]
  /\ UNCHANGED flags_changed

-----------------------------------------------------------------------------
(* PUT of a flag's or a segment's targeting in one environment *)

Load(w, action, r, e, body) ==
  /\ txn[w].stage = "idle"
  /\ HasRoom
  /\ e \in environments
  /\ txn' = [txn EXCEPT ![w] =
       [stage |-> "loaded", action |-> action, resource |-> r, env |-> e,
        seen |-> configs[<<r, e>>], body |-> body, seeds |-> {}]]
  /\ UNCHANGED <<projects, environments, flags, segments, configs, flags_changed,
                 audit_log>>

(* 404 when the flag has no row in the environment *)
BeginUpdateFlagConfig(w, f, e, body) ==
  /\ f \in flags
  /\ Exists(<<f, e>>)
  /\ Load(w, "flag.targeting.updated", f, e, body)

BeginUpdateSegmentConfig(w, s, e, body) ==
  /\ s \in segments
  /\ Load(w, "segment.updated", s, e, body)

(* mutant: an INSERT that finds the row replaces it *)
FlushUpsert(w) ==
  /\ txn[w].stage = "loaded"
  /\ ~ \E v \in Workers : Blocks(v, w)
  /\ txn' = [txn EXCEPT ![w].stage = "flushed"]
  /\ UNCHANGED <<projects, environments, flags, segments, configs, flags_changed,
                 audit_log>>

(* session.flush(): the statement waits until nobody holds the row. *)
Flush(w) ==
  /\ txn[w].stage = "loaded"
  /\ ~ \E v \in Workers : Blocks(v, w)
  /\ ~(IsInsert(txn[w]) /\ Exists(Key(txn[w])))
  /\ txn' = [txn EXCEPT ![w].stage = "flushed"]
  /\ UNCHANGED <<projects, environments, flags, segments, configs, flags_changed,
                 audit_log>>

(* The INSERT of a segment row that another request has committed meanwhile: *)
(* an IntegrityError nobody catches, so a 500 and a rollback.                *)
FlushConflict(w) ==
  /\ txn[w].stage = "loaded"
  /\ ~ \E v \in Workers : Blocks(v, w)
  /\ IsInsert(txn[w]) /\ Exists(Key(txn[w]))
  /\ txn' = [txn EXCEPT ![w] = Idle]
  /\ UNCHANGED <<projects, environments, flags, segments, configs, flags_changed,
                 audit_log>>

CommitUpdate(w) ==
  LET t == txn[w] IN
  /\ t.stage = "flushed"
  /\ t.action \in Updates
  /\ configs' = [configs EXCEPT ![Key(t)] = Written(t)]
  /\ audit_log' = Record(t, Diff(t))
  /\ flags_changed' = Signal(flags_changed, t.env)
  /\ txn' = [txn EXCEPT ![w] = Idle]
  /\ UNCHANGED <<projects, environments, flags, segments>>

(* Any exception, or the death of the process, at any point of a request. *)
Rollback(w) ==
  /\ txn[w].stage # "idle"
  /\ txn' = [txn EXCEPT ![w] = Idle]
  /\ UNCHANGED <<projects, environments, flags, segments, configs, flags_changed,
                 audit_log>>

-----------------------------------------------------------------------------

Finish(w) == Flush(w) \/ FlushConflict(w) \/ CommitCreate(w) \/ CommitUpdate(w)

Step(w) ==
  \/ BeginCreateProject(w)
  \/ \E e \in Environments : BeginCreateEnvironment(w, e)
  \/ \E f \in Flags : BeginCreateFlag(w, f)
  \/ \E s \in Segments : BeginCreateSegment(w, s)
  \/ \E f \in Flags, e \in Environments, body \in Contents :
        BeginUpdateFlagConfig(w, f, e, body)
  \/ \E s \in Segments, e \in Environments, body \in Contents :
        BeginUpdateSegmentConfig(w, s, e, body)
  \/ Finish(w)
  \/ Rollback(w)

(* The bound is reached and nothing is in flight: only then may it all stop. *)
Quiescent ==
  /\ ~HasRoom
  /\ \A w \in Workers : txn[w].stage = "idle"
  /\ UNCHANGED vars

Next == (\E w \in Workers : Step(w)) \/ Quiescent

(* A handler thread that has started runs on (requests need not arrive), and *)
(* strongly so: PostgreSQL queues the waiters of a row lock, so a request    *)
(* whose row becomes free again and again is not passed over for ever.       *)
Fairness == \A w \in Workers : SF_vars(Finish(w))

Spec == Init /\ [][Next]_vars /\ Fairness

-----------------------------------------------------------------------------
(* Properties that hold however requests overlap *)

(* the audited updates of row k, oldest first by index *)
UpdatesOf(k) ==
  {i \in DOMAIN audit_log : /\ audit_log[i].action \in Updates
                            /\ <<audit_log[i].resource, audit_log[i].env>> = k}

(* the audited updates of row k whose diff shows column c changing *)
ChangesOf(k, c) ==
  {i \in UpdatesOf(k) : \E d \in audit_log[i].diff :
                           d.before.content[c] # d.after.content[c]}

(***************************************************************************)
(* The audit log replays to the table.  Overlapping PUTs of a flag may     *)
(* interleave their columns, but the diffs update_flag_config records      *)
(* (flags.py:144-162) still account for every column: it holds the "after" *)
(* value of the last audited update whose diff changed it, its default if  *)
(* none did; and the version is the one the last update recorded.          *)
(***************************************************************************)
ReplaysContent(k, c) ==
  LET is == ChangesOf(k, c) IN
  /\ is = {} => configs[k].content[c] = DefaultValue
  /\ \A i \in is : (\A j \in is : j <= i) =>
       \A d \in audit_log[i].diff : configs[k].content[c] = d.after.content[c]

ReplaysVersion(k) ==
  LET is == UpdatesOf(k) IN
  /\ is = {} => configs[k].version = 1
  /\ \A i \in is : (\A j \in is : j <= i) =>
       \A d \in audit_log[i].diff : configs[k].version = d.after.version

AuditReplays ==
  \A k \in Flags \X Environments :
    Exists(k) => ReplaysVersion(k) /\ \A c \in Columns : ReplaysContent(k, c)

(***************************************************************************)
(* Two first PUTs of a segment in an environment never both take effect:   *)
(* a segment's row is at version 1 only while one update of it has been    *)
(* audited (segments.py:85-94; the second INSERT fails on the primary key  *)
(* and its request, audit row included, is rolled back).                   *)
(***************************************************************************)
SegmentCreatedOnce ==
  \A s \in Segments, e \in Environments :
    configs[<<s, e>>].version = 1 =>
      \A i, j \in UpdatesOf(<<s, e>>) : i = j

(* the audited updates among the first n entries *)
UpdatesUpTo(n) == {i \in 1..n : audit_log[i].action \in Updates}

(***************************************************************************)
(* "the signal fires exactly when the change commits (and rolls back with  *)
(* it if the transaction aborts)" (services/notify.py:5-6): the channel    *)
(* carries the environments of the audited updates, in commit order, and   *)
(* nothing for requests that were rolled back after pg_notify.             *)
(***************************************************************************)
SignalPerCommittedChange ==
  NotifyBackend = "postgres" =>
    LET updates == UpdatesUpTo(Len(audit_log))
    IN  /\ Len(flags_changed) = Cardinality(updates)
        /\ \A i \in updates :
             flags_changed[Cardinality(UpdatesUpTo(i))] = audit_log[i].env

(***************************************************************************)
(* A PUT is a "Full replace of an environment's targeting"                 *)
(* (schemas/flag.py:135): whatever it waited for and overlapped with, if   *)
(* the row it commits over is the one its session loaded, then the row     *)
(* becomes its body, all columns of it, under the next version.            *)
(***************************************************************************)
PutReplacesRow ==
  [][\A w \in Workers :
       (/\ txn[w].action \in Updates
        /\ audit_log' # audit_log
        /\ txn'[w] # txn[w]
        /\ txn[w].seen = configs[Key(txn[w])]) =>
         configs' = [configs EXCEPT ![Key(txn[w])] =
                       [content |-> txn[w].body, version |-> @.version + 1]]]_vars

(***************************************************************************)
(* No request waits for ever: row locks are only held by requests that     *)
(* have nothing left to wait for, so every request ends.                   *)
(***************************************************************************)
RequestsEnd ==
  \A w \in Workers : (txn[w].stage # "idle") ~> (txn[w].stage = "idle")

-----------------------------------------------------------------------------
(* What holds while no two PUTs of one row overlap *)

(* Requests for different rows, and requests that create, may overlap. *)
Apart ==
  \A v, w \in Workers :
    (/\ v # w
     /\ txn[v].stage # "idle" /\ txn[v].action \in Updates
     /\ txn[w].stage # "idle" /\ txn[w].action \in Updates)
      => Key(txn[v]) # Key(txn[w])

(***************************************************************************)
(* The handlers keep the promise the data plane is written against: each   *)
(* committed PUT is a Change of ConfigTable, each committed create_flag a  *)
(* Seed, and nothing else touches the tables or the channel.               *)
(***************************************************************************)
Table == INSTANCE ConfigTable WITH MaxChanges <- MaxCommits
KeepsTablePromise == Table!TableSpec

-----------------------------------------------------------------------------
(* What the documents say and the code does not do *)

(***************************************************************************)
(* "Per-environment targeting for one flag. One row per (flag,             *)
(* environment)." (models/flag.py:41)                                      *)
(***************************************************************************)
OneRowPerFlagAndEnvironment ==
  \A f \in flags, e \in environments : Exists(<<f, e>>)
=============================================================================
