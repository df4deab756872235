# Feature flags: a verification project

TLA+ modules, TLC configurations and TLAPS proofs for the feature-flag service:
a FastAPI control plane that writes flag targeting to PostgreSQL, a Go data plane
that serves it, and the Go evaluator that both the data plane and server-side
SDKs run. Paths are relative to the repository root; `D:n` is `DESIGN.md`, line n.

## 1. The system

```
 console --HTTP--> control plane --one transaction per request--> PostgreSQL
                                                                  |  tables
                                     NOTIFY flags_changed, sent   |
                                     when the transaction commits |
                                                                  v
       main / poll / listener threads --LoadAll--> store (in memory)
                                                     |          |
                      SDKs <--/sdk/stream (1 s tick)-+          +-- /eval --> Evaluate
                       '--> Evaluate
```

| component | state it keeps | operations | what makes it correct |
|---|---|---|---|
| write path (`control-plane/app/api`, `db.py`) | catalog tables, one config row per (flag, env) and per (segment, env) with a `version` | create project / environment / flag / segment; PUT of a flag's or a segment's targeting | a PUT replaces the row; its version rises with every change; a row exists once |
| notification (`services/notify.py`) | none; the `flags_changed` channel | `pg_notify` in the writing transaction | sent exactly when the change commits |
| audit log (`services/audit.py`) | append-only table with before/after diffs | `record` in each transaction | what it says happened is what happened |
| targeting validation (`schemas/*.py`, `_validate_indices`) | none | accept or 422 | nothing accepted makes evaluation fail |
| ruleset store (`internal/store`) | environment -> ruleset, aggregate version | `LoadAll`, `assemble`, `Get` | holds what the tables held; catches up |
| process (`cmd/dataplane/main.go`) | three threads, one LISTEN connection | initial load, poll, listener | the poll makes up for what notifications miss |
| SDK stream (`internal/server`) | per connection `lastVersion` | connect, tick, disconnect | a connected SDK comes to the last ruleset |
| evaluation (`sdk/go/flageval`) | none: a function of ruleset and context | `Evaluate` | in range, deterministic, sticky, total |
| client evaluation (`/eval`) | none | one store read, one `Evaluate` per client flag | as the two above |
| SDK credentials (`api/credentials.py`, `internal/auth`) | hashed keys, `revoked_at` | issue, revoke, authenticate | a key is issued once, revoked for good, and the audit log counts it |
| console (`web/static/app.js`) | selected environment, open drawer, requests under way | open, edit, save, toggle, switch environment | an edit changes what its user changed, where it was loaded from |
| events (`/events`) | none (forwarding is a TODO) | count and drop | - |
| configuration, migrations, conformance corpus, Docker/CI/terraform | - | - | - |

What is hard about it:

* **Requests overlap.** Synchronous handlers run on a thread pool, each in its own
  READ COMMITTED transaction which commits after the handler returned (`db.py:24-36`).
  A PUT loads a row without locking it and flushes later; the UPDATE names only the
  columns that differ from what was loaded.
* **Three threads load concurrently** and only the final assignment is under the
  store's lock (`store.go:71-77`). Flags and segments come from two statements, hence
  two snapshots; a failure in mid-result looks like its end (`store.go:102`).
* **Versions are added up** (`store.go:134,166`), and equality of the sums decides
  whether a ruleset is installed (`:73`) and sent (`server.go:93`).
* **Delivery is unreliable**: notifications before LISTEN are lost, the listener
  returns at its first error and is never restarted (`main.go:93-98`), the process may
  die; the poll is the backstop.
* **Evaluation recurses** through prerequisites (guarded) and through segments (not
  guarded), and indexes variations without a bounds check. A rollout's shares are
  added up in float64 (`bucket.go:34-38`), each sum rounded.
* **Keys are looked up in the database on every request** but held streams are not
  looked at again (`server.go:73`); a key leaves with the response, before or after
  its row commits, depending on FastAPI's version (`db.py:29-31`).
* **The console reads, waits and writes back whole configurations**, and asks for the
  selected environment when it writes, not for the one it read (`app.js:254`).

## 2. Modules

| module | models |
|---|---|
| `ConfigTable` | the contract between the planes: what the tables and the channel may do |
| `ControlPlane` (implements `ConfigTable` while PUTs of one row do not overlap) | write path, notification, audit log: overlapping transactions |
| `DataPlane` (extends `ConfigTable`) | store, process, SDK stream, faults |
| `RulesetCache` | what the store and the streams promise, in terms of the states the tables have been in |
| `RulesetHistory` (extends `DataPlane`, implements `RulesetCache`) | no code of its own: `DataPlane` with the history those promises speak of |
| `FlagSystem` | `ControlPlane` and `DataPlane` sharing tables and channel |
| `Evaluation` | `Evaluate` and the validation in front of it |
| `KeyRegistry` | what SDK keys promise: issued once, revoked for good, nobody gets in without a valid one |
| `Credentials` (implements `KeyRegistry`) | issue and revoke, the data plane's lookups, outages |
| `Console` | a page's read-modify-write of targeting |
| `ControlPlaneProofs`, `DataPlaneProofs`, `EvaluationProofs`, `CredentialsProofs`, `ConsoleProofs` | the theorems about one component each |
| `TablePromiseProofs` (extends `ControlPlaneProofs`) | that `ControlPlane` implements `ConfigTable` |
| `RulesetCacheProofs` (extends `DataPlaneProofs`) | that `RulesetHistory` implements `RulesetCache`, and that one undisturbed load catches up |
| `FlagSystemProofs` | the theorems about the two planes together, from those about each |
| `MC*` + `MC*_<run>.cfg` | the instances for TLC |

**ControlPlane.** `configs` is both config tables, `txn[w]` the open transaction of
worker `w`, a request and its connection: `idle -> loaded -> flushed -> idle`. Between
`loaded` and `flushed` other requests commit. `Begin*` is a handler up to and
including its reads (and, for creations, its INSERT); `Flush` is the `session.flush()`
that takes the row lock (`Blocks`), `FlushConflict` the INSERT that finds another
request's row, `Commit*` everything that becomes visible at the commit: the row, the
audit row, the notification. `Rollback` may happen at any point. `Written` is
SQLAlchemy's UPDATE: the columns whose value differs from the loaded one, and the
version. Only `update_flag_config` passes a diff to the audit log (`Diff`). A row's
targeting columns are abstracted to `Columns -> Values`; requests that are rejected
(404, 409, 422) change nothing and appear as guards. There is one project, which
`BeginCreateProject` creates: nothing but the lookup that ends in 404 relates requests
of different projects. None of the handlers deletes a row.

**ConfigTable.** Rows appear at version 1, never vanish, and each change raises
the version by one and signals once. This is what `DataPlane` is written against.
The handlers implement it (`KeepsTablePromise` in `ControlPlane`) as long as no two
PUTs of one row are under way at once (`Apart`); requests for different rows and
requests that create may overlap. Finding 3 is what happens otherwise.

**DataPlane.** `loader[l]` is where thread `l` (`main`, `poll`, `listen`) is in
`LoadAll`; `ListEnvironments`, `QueryFlags`, `QuerySegments`, `Install`, `Return`
are its steps. The order of the environments in the loop is that of an unordered
SELECT: any. `QueryError` and `Fetched` are the two ways a query fails: with an
error, or silently with a part of its rows. `Fail` is what the callers do:
log and go on, or, in `main`, exit. A row that does not decode is content in
`Undecodable`. `Sent` is the stream's `push` closure, run at `Connect` and `Tick`.
Rulesets keep the rows' versions so that properties can speak of them; the program
adds them up and drops them, and the actions only ever use the sum.

**RulesetCache.** What a user of the data plane can rely on, without versions, loads
or threads: a ruleset that comes to be held has the flag rows of one state the
environment's tables were in and the segment rows of the same or a later one (two
statements, two snapshots), with rows missing only once a connection has failed; an
SDK is sent what is held, whole; rulesets are only forgotten with the process. It does
not promise that rulesets get newer, because they need not: an older load may install
after a newer one.

**RulesetHistory.** `past` is every state an environment's tables have had, `clean` the
loads that began while no query of an earlier state was under way and have since seen
neither a change nor a fault. They are history variables: no action of `DataPlane`
reads them, and each step determines them (`Remember`, `Follow`), so every behaviour of
`DataPlane` has its history and no other (`HistoryOnly` proves the half of this the
theorems use). `Deliveries` is what the SDKs have seen of `stream`.

**FlagSystem.** No definitions of behaviour of its own: a step is a step of one
side, with the tables and the channel shared. Its properties are those of the data
plane, stated of the tables as the handlers write them, and that the handlers keep the
contract beside it.

**Evaluation.** `evaluate` (in `Evaluations`) and `contains` (in `Members`, for
segments) are recursive functions with the guard's state, `visiting`, as an argument;
`Met` is a flag's prerequisites, given what `evaluate` returns of theirs, `Outcome`
the rest of the order of evaluation. Recursion that never returns is the result
`Overflow`: the Go stack is exhausted and the process dies. PUTs move the ruleset
between accepted configurations, so the properties quantify over every reachable
ruleset and every context. Of the operators on attribute values only `in`,
`segmentMatch` and negation are kept; the hash is a constant function.
The numbers of `bucketVariation` are `Numbers`, multiples of a step fine enough for
every quotient and every float64: a weight of 1 is `Unit` steps. `Share` is
`float64(weight) / 100000.0` and `Cumulative` the running sum, each through `Round`,
of which no more is assumed than of rounding to nearest: it is monotone, keeps what
is a float64 already, and is off by at most `Slack` (2^-53 for sums up to 2). For the
code, `Slack / Unit` is 10^5 / 2^53, which lets a rollout have `MaxEntries` = 2 * 10^10
entries. The schema adds weights as integers (`WeightUpTo`).

**Credentials.** `txn[w]` is a control-plane request, of which as many can be open as
there are connections (its thread goes back to the pool when the handler returns,
before the commit): `loaded` (a revocation that has read its row), `flushed` (INSERT
or UPDATE issued, row locked), then the commit and the response, in the order
`answersFirst` says: `get_session` commits after the handler returned, which is before
the response in old versions of FastAPI and after it in new ones, and `pyproject.toml`
accepts both. `answers` is what the console has been told; a key can only be presented
by who was given it there. The audit row (`Entry`) has the action, the environment and
the kind: `resource_key` is the key's prefix, which all keys of a kind in an
environment share (`services/credentials.py:14`), and there is no id and no diff.
`Abort` stands for every failure before the commit and for a response that is lost.
`Authenticate` is the lookup of one request of the data plane, whatever its path;
`Serve` is the rest of the handler, for which the key is not looked up again: a stream
stays `open`. `Outage` and `Recover` are the database's.

**KeyRegistry.** `status` of each key and its `users`. `Credentials` implements it
under `Status` (row to status) and `Users` (connections let in).

**Console.** A page's `selected` environment, its `drawer` (the edit it is open on,
with the environment and row it read), `toggles` (switches between their GET and
their PUT) and `puts` (requests on their way to the server). In the server a PUT has
two steps, as in `ControlPlane`: `Begin` (`ApiPut` for any other writer) loads the row
into a transaction in `txns`, `Commit` updates the columns in which the body differs
from what was loaded, under the loaded version plus one (`Written`), or fails where
a segment's INSERT finds a row. The columns of a row are `enabled`, `form` (what the drawer
edits) and `rest` (what it only passes on); as each column is written for itself, `form`
and `rest` stand for any one of theirs. A fallthrough has more than its form shows, its
`bucketing`: the context kind, the attribute and the order of the buckets, which a save
makes up (`app.js:249-251`). `from` and `touched` are kept for the properties: the
program does not have them.

## 3. Runs

| run | question | result |
|---|---|---|
| `control_plane_overlap` | what holds however requests overlap? | `AuditReplays`, `SegmentCreatedOnce`, `SignalPerCommittedChange`, `PutReplacesRow`, `RequestsEnd` hold |
| `control_plane_seed` | one row per flag and environment? | violated (finding 1) |
| `data_plane_serving` | given the contract, does the data plane serve it, with faults? | `KeepsCachePromise` (refinement), `HeldRowsBehind`, `VersionIdentifiesRuleset`, `CleanLoadCatchesUp`, `StoreConverges`, `StreamsConverge` hold |
| `data_plane_poison` | does the poll cover each environment by itself? | violated (finding 2) |
| `system_serial` | one edit at a time over two environments: do the handlers keep the contract, and does an edit reach store and SDKs, and only those of its environment? | `KeepsTablePromise` (refinement), `HeldRowsBehind`, `VersionIdentifiesRuleset`, `EditsReachStore`, `EditsReachStreams` hold |
| `system_overlap` | ... and when PUTs of one row overlap? | `EditsReachStore` violated (finding 3) |
| `evaluation_rulesets` | does evaluation mean what the design says? | `ServesExistingVariation`, `PrerequisitesMeanTheirFlags`, `RampUpKeepsMembers` hold |
| `evaluation_overflow` | does evaluation return? | violated (finding 4) |
| `credentials_lifecycle` | what do keys, their audit and their answers promise, through failures? | `KeepsRegistry` (refinement), `AuditCountsKeys`, `RevocationsOverlap`, `ToldIsCommitted` hold |
| `credentials_outage` | is evaluation independent of the database? | violated (finding 5) |
| `console_edits` | what does a page's PUT spare that overlaps others? | `FreshEditsMerge` holds |
| `console_switch` | does an edit leave alone what it does not touch? | violated (finding 6) |

**Bounds.** Two workers are enough for every pairwise overlap of transactions, as a
worker's steps depend on others only through one row's lock and contents. Two columns
of two values distinguish "the column I changed", "the column the other changed" and
"the default". `MaxCommits` bounds the audited commits: a request begins only if it,
and every request under way, may still commit within the bound, so that a commit is
never refused. 7 leaves room, after a project, an environment, a flag and a segment,
for three updates, two of them overlapping. `system_serial` has one worker, so `Apart`
holds in it by itself; that the same is true of any number of workers whose requests
overlap, PUTs of one row apart, is what the theorems of `TablePromiseProofs` and
`FlagSystemProofs` add. Two environments appear where a row could be read from the
wrong one (`system_serial`, `data_plane_poison`, the credentials and the console). In
`data_plane_serving` a flag and a segment give two queries, two changes let one fall
before, between and after them for two loads in flight, and one fault of any kind can
be followed by a full recovery; an older ruleset installed over a newer one needs no
more than that. The two runs of `DataPlane` carry the history of `RulesetHistory`.
`MaxChanges`, `MaxCommits` and `MaxFaults` bound the behaviours, so that "once edits
stop" is part of every one. In `Evaluation`, three flags give chains, diamonds and
cycles of prerequisites; two segments give self-reference through another. Of the
buckets one lies on an edge that the rounding draws: two weights of 1 sum up to 24,
one of 2 to 26. One lies beyond it and one beyond every weight. With them, the
property without its provision for rounding is violated. Some bodies are there to be
refused. In `Credentials`, two keys are one that is used and one that is confused with
it, and four changes allow an issue and three revocations of one key, one more than
two requests at a time can get through. In `Console`, one page has a drawer, a switch
and a PUT under way at a time, which is every pair of its handlers; a second page
would be another writer, and `ApiPut` is one already. Two PUTs are open in the server
at once. In `console_edits` the versions add up to three: two rows that are there, and
one that is written or inserted, by as many overlapping PUTs as there are; nothing
begins after that, so that staleness is left to `console_switch`, where a whole write
may lie between a page's reading and its writing. Symmetry in the environments is
sound: they start alike, and no action prefers one. The theorem has no bounds.

**Fairness.** A handler that has started runs on: strong fairness per worker on
`Finish`, because PostgreSQL queues the waiters of a row lock and a waiter whose
row becomes free again and again is not overtaken for ever. Requests need not
arrive, and rollbacks are never forced. Each loading thread and each stream is
weakly fair: the Go scheduler runs every goroutine, tickers fire, queries return
with a result or an error. Faults, connections, disconnections and LISTEN are not
fair, so convergence rests on the poll alone. `Credentials` and `Console` assume no
fairness: nothing in them has to happen.

`CHECK_DEADLOCK` is left on everywhere. The control plane stutters
(`Quiescent`) only with nothing in flight and the bound reached; a state where all
requests wait for each other would be reported.

## 4. Where documents and code disagree

1. "One row per (flag, environment)" (`models/flag.py:41`): an environment created
   after, or during, the creation of a flag has no row for it, and no request ever
   creates one.
2. "The reload poll covers any missed notification" (`main.go:78`): a row that does
   not decode in one environment stops the load of the environments after it.
3. The aggregate version "changes when any config changes" (`store.go:18`): two
   overlapping PUTs compute the same version from the row both loaded; a data plane
   that saw the first skips the second until a later change.
4. Evaluation "never blocks or throws into the host app" (D:335): segments that refer
   to each other, which the schema accepts, recurse without bound.
5. "Reads never hit Postgres on the eval path" (`data-plane/README.md:10`): each
   `/eval` looks its key up in the database, and any error of the lookup is a 401.
6. "preserving fields the UI didn't touch" (`app.js:161`): an edit is written to the
   environment that is selected when it is saved, with the rules of the one it was
   read from.

Seen while modelling, without a run of their own:

* "Full replace of an environment's targeting" (`schemas/flag.py:135`): of two
  overlapping PUTs, the second leaves the columns it did not change as the first wrote
  them; the row holds neither body.
* "SDKs ignore out-of-order updates" (D:311): a slow load installs an older ruleset
  over a newer one and the stream sends it, with no version to order by. (The next
  poll repairs it: `StoreConverges`.)
* "cyclic prereq fails closed" (`eval.go:31`): the guard fails the innermost flag,
  whose off variation may be the one the flag outside requires.
* The largest hashes divide to exactly 1, against "[0, 1)" (`bucket.go:12`), and reach
  the last variation even at weight 0 (probability 2^-54).
* A clause on an absent context kind "does not match" (D:221) unless it is negated,
  when it does (`clauses.go:30-32`); "assembly ... validates prerequisite references"
  (D:309) is not done.
* "an audit row and its change commit or roll back together" (`audit.py:2`) holds, but
  the row of a credential does not say which: keys of a kind in an environment share
  the `resource_key`. What the log tells is how many (`AuditCountsKeys`).
* "Sticky" is so up to the rounding of sums: from (30000, 0, 70000) to (10000, 20000,
  70000) the first two sums become 0.1 and 0.30000000000000004 where they were 0.3 and
  0.3, and the member whose bucket is 0.3 leaves the third variation though nothing
  about it changed. `RampUpKeepsMembers` therefore asks for a smaller total, or for no
  entry with more.
* Overlapping revocations of a key both succeed and are both audited; the second also
  moves `revoked_at` (`credentials.py:74-77`).
* `config.yaml:26` offers `redis` as a notify backend, which `env_changed` refuses
  with an exception (`notify.py:40`): every PUT would be a 500.
* A version would not guard the console's edits, were it checked: overlapping PUTs
  commit different rows under one (finding 3), and `FreshEditsMerge` with "the version
  it read" for "the row it read" is violated once the versions may add up to four.
* The drawer rewrites a rollout's context kind and attribute to `user` and `key`, and
  its buckets to the order of the variations (`app.js:249-251`); the segment drawer
  takes any failed GET for an empty segment (`:330`); both violate
  `PreservesUntouched` too, behind longer runs than finding 6's. A list that was
  requested for one environment may be shown under another (`:113,128`).

## 5. Proofs

TLAPS checks, for every value of the constants that satisfies the modules'
`ASSUME`s:

| theorem | states |
|---|---|
| `ControlPlaneProofs!TypeCorrect` | `Spec => []TypeOK` |
| `ControlPlaneProofs!AuditLogReplays` | `Spec => []AuditReplays` |
| `ControlPlaneProofs!CreatedOnce` | `Spec => []SegmentCreatedOnce` |
| `ControlPlaneProofs!SignalsCommittedChanges` | `Spec => []SignalPerCommittedChange` |
| `TablePromiseProofs!ImplementsTable` | `Spec /\ []Apart => KeepsTablePromise`, with the postgres backend |
| `TablePromiseProofs!PutsReplaceRows` | `Spec => PutReplacesRow` |
| `DataPlaneProofs!TypeCorrect` | `Spec => []TypeOK` |
| `DataPlaneProofs!RulesetsLag` | `Spec => []HeldRowsBehind` |
| `DataPlaneProofs!EqualVersionsMayBeSkipped` | `Spec => []VersionIdentifiesRuleset` |
| `RulesetCacheProofs!ImplementsCache` | `HistorySpec => KeepsCachePromise` |
| `RulesetCacheProofs!CleanLoadsCatchUp` | `HistorySpec => []CleanLoadCatchesUp` |
| `FlagSystemProofs!TypeCorrect` | `Spec => []TypeOK` |
| `FlagSystemProofs!PromiseInSystem` | `Spec /\ []Apart => KeepsTablePromise`, with the postgres backend |
| `FlagSystemProofs!RulesetsLag` | `Spec /\ []Apart => []HeldRowsBehind`, with the postgres backend |
| `FlagSystemProofs!EqualVersionsMayBeSkipped` | `Spec /\ []Apart => []VersionIdentifiesRuleset`, with the postgres backend |
| `EvaluationProofs!TypeCorrect` | `Spec => []TypeOK` |
| `EvaluationProofs!ServesExisting` | `Spec => []ServesExistingVariation` |
| `EvaluationProofs!GuardSparesAcyclic` | `Spec => []PrerequisitesMeanTheirFlags` |
| `EvaluationProofs!RampUpIsSticky` | `Spec => RampUpKeepsMembers` |
| `CredentialsProofs!TypeCorrect` | `Spec => []TypeOK` |
| `CredentialsProofs!AuditCounts` | `Spec => []AuditCountsKeys` |
| `CredentialsProofs!RevocationsWithinWorkers` | `Spec => []RevocationsOverlap` |
| `CredentialsProofs!AnswersHold` | `Spec => []ToldIsCommitted` |
| `CredentialsProofs!ImplementsRegistry` | `Spec => KeepsRegistry` |
| `ConsoleProofs!TypeCorrect` | `Spec => []TypeOK` |
| `ConsoleProofs!FreshMerges` | `Spec => FreshEditsMerge` |

*Control plane.* `AuditReplays` alone is not inductive: a PUT in flight may write
columns computed from a row that has changed since. The invariant adds `Shapes`:
what an open transaction is about at each stage (a flag update has seen a row that
still exists, only a flag's creation has seeds), that no two uncommitted creations
share a key, that a flag has no rows before it is created, and that every audited
update of a flag carries exactly one diff, from which it follows
that a committed UPDATE changes exactly the columns its diff shows: the columns it
leaves alone keep whatever the log says of them. `CreatedOnce` has an invariant of
its own, `SegmentInv`: two uncommitted updates are never of the same row, a row
that is being inserted does not exist, a row that was seen still does, and a
segment's row that does not exist has no audited update.
`SignalPerCommittedChange` is argued about one entry that is appended to the log and
one signal that is appended with it, or not: counting the updates up to an entry
gives its signal's place in the channel, and an entry behind all others moves nobody's
place.

*The contract.* `ImplementsTable` needs two kinds of knowledge that hold of every
behaviour, `Bounds`, and one that holds while `Apart` does, `Knowledge`: what an open
PUT loaded is still its row. That is the whole difference between the handlers and a
serial writer, and it is what a second PUT of the row destroys: with it, a committed
UPDATE writes the body over the row it loaded and raises that row's version by one, a
`Change` (`FreshUpdate`, of which `PutsReplaceRows` is the part that needs no `Apart`);
without it the row can change under an unchanged version. `Knowledge` also
has that the environments a request looked up exist, so that a commit that reads them
again would find them. `Bounds` relates the log, the open requests and the channel to
`MaxCommits`: what the handlers may do within the model's bound, the contract may do
within its own. `Apart` is a hypothesis about the requests that are sent, stated as a
state predicate and assumed always; requests for different rows, and creations, may
overlap as they please, and any one request may wait or roll back. The backend is
"postgres" (`control-plane/config/config.yaml:26`) because the contract signals each
change and "log" signals none.

*Data plane.* `HeldRowsBehind` is strengthened by `IInv` with what a load has
fetched so far and what a stream has put: rows are never newer than the table's
and equal when their versions are. It is preserved because the tables only move
forward. `EqualVersionsMayBeSkipped` follows from it: if every row's version is at
most the table's, and the sums agree, then all versions agree, hence all rows. The
sum is the cardinality of the finite set `Units`, and the argument is that a
subset of a finite set with as many elements is the whole set. That types are kept is
proved apart from `IInv`, without anything about the tables but their types: the
composition needs it where the contract is not kept.

*Ruleset cache.* `ImplementsCache` needs `ReadsKnown`: the history ends with the
present, and what a load in flight has fetched was read from a state in it. The
history only grows, so what was read stays readable, and the query for the segments
reads its last state, which no state the flags were read from comes after. Hence an
install is a `Hold` or, when it is skipped, no step of the cache; a tick is a `Push`
or has nothing to send; listing, querying and listening show nothing.
`CleanLoadsCatchUp` is the safety half of `StoreConverges`: fairness only has to bring
about one such load, which TLC checks. Its invariant is `CleanCovers`: while a clean
load is under way no other thread holds a stale read, and each environment is up to
date, still to be loaded, or being loaded. It is inductive because of
`VersionIdentifiesRuleset`: where the version is the tables', the install that is
skipped would have changed nothing.

*Whole system.* `FlagSystemProofs` uses the two halves' lemmas as they are: a step of
the system is a step of `ControlPlane` that leaves the data plane alone, or a step of
the data plane that leaves the tables alone. Under `Apart` the first is a step of
`ConfigTable` by the argument of `ImplementsTable`, so in either case it is a step of
`DataPlane`, whose `IInv` is preserved. Types need no `Apart`. The lemmas `Same*` say
that a definition means the same through `FlagSystem`'s instances and through those of
the proofs.

*Evaluation.* Nothing here is proved by induction over data with the library's
theorems; what replaces it is the least counterexample (`LeastNat`: a non-empty set of
naturals has a least element). That `evaluate` is a function at all, which TLA+ does
not grant a recursive definition, is shown in this way over the number of flags that
are not in `visiting` (`EvaluationsDefined`): a call adds one to `visiting`. From
there on `evaluate` may be unfolded once (`EvaluationAt`). `ServesExisting` takes no
more: whatever the prerequisites and segments come to, `Outcome` serves one of the
indices that `_validate_indices` looked at; of segments only the three possible
results matter, so cycles are included. `GuardSparesAcyclic`: without cycles,
`visiting` does not matter to a flag none of whose dependencies is in it
(`VisitingIrrelevant`), and a flag is not in its own. `RampUpIsSticky`: the rounded
sums of a rollout's shares are defined and grow (`CumulativeLaws`, `CumulativeGrows`)
and stay within `Slack` per operation of the exact ones (`CumulativeNear`), which is
less than half a weight of 1. So a smaller total has a sum that is no higher; where no
entry has more, sums are no higher because `Round` is monotone
(`NotMoreSumsNoHigher`). Hence the entry's interval only grows (`RampUpKeepsBucket`),
and nothing else in the evaluation of the flag moves: its prerequisites do not come
back to it, and the flags that do not depend on it evaluate as before
(`OthersUnmoved`).

*Credentials.* The invariant says what a request that has not committed is going to
do: an issue is of a key that has no row and that no other uncommitted issue has
drawn, a revocation is of a row that exists. With it every commit is an `Issue`, a
`Revoke` or, the second of two overlapping revocations, no step of the registry, and
every lookup that succeeds is an `Admit`. The audit log is then argued about one
appended entry at a time (`AuditGrows`), and the answers from the fact that rows are
never removed nor revocations taken back (`RowsLast`). `RevocationsOverlap` counts:
once a row is revoked no request starts to revoke it, so the committed revocations of
an environment and kind, with those of revoked rows still under way (`Late`), are
never more than the requests that can be open at once for each revoked key.

*Console.* `Carries`: a request's body holds what its user did not touch as it was read,
and a transaction has the body of its request. A handler that loaded that same row
therefore finds no difference in those columns, and a column without a difference is not
written (`MergedKeeps`): what it holds at the commit, by whomever, stays.

Only model-checked is what is temporal under fairness, which is beyond the prover:
`RequestsEnd`, `StoreConverges`, `StreamsConverge`, `EditsReachStore` and
`EditsReachStreams` (of `StoreConverges`, the part that is safety is
`CleanLoadCatchesUp`, a theorem). Every safety invariant and every action property of
the passing runs is a theorem, those of `FlagSystem` but `TypeOK` under `[]Apart`. The
constants' assumptions are in the modules (`*Assumption`): the sets of workers,
resources and flag keys are finite, names of different kinds differ, the marker `None`
is none of the values, and in `Evaluation` the bodies have the shape of the schemas, a
bucket is at most 1.0, `Round` is as in section 2, and a rollout is no longer than its
errors allow (`4 * (Slack * MaxEntries) <= Unit`).

## 6. Not modelled

* Event intake: counted and dropped in the source, so there is no state.
* The console's lists, creation forms, credentials and audit tabs: what they do to the
  server is one request of `ControlPlane` or `Credentials` each, and what they show is
  left to the hazards `app.js:101` and `:128`.
* The HTTP, JSON and SSE layers, the pools of threads and connections.
* Ids and timestamps, hence the order of the audit listing (`api/audit.py:40` sorts by
  an id drawn at the flush, not at the commit).
* The answers to the requests of `ControlPlane` (those of `Credentials` are modelled).
* Flag metadata: names, tags; the variations of an existing flag cannot be edited.
* The string, number and regular-expression operators; SHA-1 and its division to a
  bucket; `ParseContext`.
* Configuration and start-up, migrations, the conformance corpus, build files.

## 7. Plan

Done, most important behaviour first:

1. `ConfigTable`, `DataPlane`: serving, convergence, faults.
2. `ControlPlane`: overlap, audit, signals, the contract when serial.
3. `FlagSystem`: both together.
4. `Evaluation`: order, prerequisites, segments, rollouts, validation.
5. `Credentials` and `KeyRegistry`; `Console`.
6. Proofs of the safety invariants and action properties of all of them, of the
   refinements of `KeyRegistry` and `ConfigTable`, and of the composition.
7. `RulesetCache` and `RulesetHistory`: what the data plane promises of the rulesets
   it serves, and the safety part of convergence, with their proofs.

Left:

8. The bucket's arithmetic with scaled integers, against the reference implementation
   of the conformance corpus.
