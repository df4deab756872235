------------------------------ MODULE DataPlane ------------------------------
(***************************************************************************)
(* The data plane (data-plane/): a process that assembles each             *)
(* environment's ruleset from the tables of ConfigTable, keeps it in       *)
(* memory, and pushes it to connected SDKs.                                *)
(*                                                                         *)
(* Three threads run Store.LoadAll: main before it serves, the poll ticker *)
(* (reloadLoop) and the notification listener (listenForChanges).  A load  *)
(* lists the environments, then for each of them queries the flag rows,    *)
(* then the segment rows, each query seeing its own committed snapshot,    *)
(* and installs what it assembled under the store's lock when its          *)
(* aggregate version differs from the held one.                            *)
(*                                                                         *)
(*   idle --ListEnvironments--> next --QueryFlags--> segments              *)
(*   --QuerySegments--> install --Install--> next ... --Return--> idle     *)
(*                                                                         *)
(* A ruleset maps each resource to a row, NoRow if it is not in the maps.  *)
(* The rows keep their own versions, which the process adds up and drops:  *)
(* the ruleset's Version field is AggregateVersion of it, and nothing else *)
(* of the model reads a row's version.                                     *)
(***************************************************************************)
EXTENDS ConfigTable

CONSTANTS
  Clients,      \* server-side SDKs that stream
  Undecodable,  \* contents the process cannot decode
  None,         \* no environment
  MaxFaults     \* bound: faults of the process and of its connections

VARIABLES
  process,    \* "starting" during the initial load, then "serving"
  store,      \* Store.envs: environment -> ruleset, None if not loaded
  loader,     \* where each thread is in LoadAll
  listening,  \* listenForChanges: "no" before LISTEN, "yes", "dead" once it returned
  heard,      \* notifications its connection has delivered or will never deliver
  stream,     \* the SDK connections
  faults      \* faults so far

dataPlaneVars == <<process, store, loader, listening, heard, stream, faults>>
vars == <<tableVars, dataPlaneVars>>

-----------------------------------------------------------------------------

Loaders == {"main", "poll", "listen"}

Rulesets == [Resources -> Row]
NoRows == [r \in Resources |-> NoRow]

ASSUME DataPlaneAssumption ==
  /\ Undecodable \subseteq Contents \ {DefaultContent}
  /\ None \notin Environments
  /\ None \notin Rulesets
  /\ MaxFaults \in Nat

LoaderState == [pc : {"idle", "next", "segments", "install"},
                todo : SUBSET Environments,
                env : Environments \cup {None},
                rows : Rulesets]
IdleLoader == [pc |-> "idle", todo |-> {}, env |-> None, rows |-> NoRows]

(* last is the handler's lastVersion, put the ruleset it wrote last. *)
StreamState == [env : Environments \cup {None}, last : Nat \cup {-1}, put : Rulesets]
Closed == [env |-> None, last |-> -1, put |-> NoRows]

TypeOK ==
  /\ TableTypeOK
  /\ process \in {"starting", "serving"}
  /\ store \in [Environments -> Rulesets \cup {None}]
  /\ loader \in [Loaders -> LoaderState]
  /\ \A l \in Loaders : loader[l].pc \in {"segments", "install"} => loader[l].env # None
  /\ listening \in {"no", "yes", "dead"}
  /\ heard \in Nat
  /\ stream \in [Clients -> StreamState]
  /\ faults \in Nat

Init ==
  /\ TableInit
  /\ process = "starting"
  /\ store = [e \in Environments |-> None]
  /\ loader = [l \in Loaders |-> IdleLoader]
  /\ listening = "no"
  /\ heard = 0
  /\ stream = [c \in Clients |-> Closed]
  /\ faults = 0

-----------------------------------------------------------------------------
(* Assembling a ruleset *)

(* mutant: a LEFT JOIN, whose missing rows are filled with the defaults *)
CommittedLeftJoin(R, e) ==
  [r \in Resources |-> IF r \notin R THEN NoRow
                       ELSE IF Exists(<<r, e>>) THEN configs[<<r, e>>] ELSE SeedRow]

(* mutant: without the environment in the query, the last row read wins *)
CommittedAnywhere(R, e) ==
  [r \in Resources |->
     IF r \in R
     THEN CHOOSE row \in {configs[<<r, x>>] : x \in Environments} :
            \A x \in Environments : configs[<<r, x>>].version <= row.version
     ELSE NoRow]

(* the committed rows of the resources R in environment e *)
Committed(R, e) ==
  [r \in Resources |-> IF r \in R THEN configs[<<r, e>>] ELSE NoRow]

Current(e) == Committed(Resources, e)

(* mutant: the highest version instead of their sum *)
HighestVersion(rs) ==
  LET versions == {rs[r].version : r \in Resources}
  IN CHOOSE n \in versions : \A m \in versions : m <= n

(***************************************************************************)
(* rs.Version += version over the rows: as many pairs <<r, n>> as the      *)
(* versions add up to.                                                     *)
(***************************************************************************)
Units(rs) == UNION {{r} \X (1..rs[r].version) : r \in Resources}
AggregateVersion(rs) == Cardinality(Units(rs))

Decodes(rs) == \A r \in Resources : rs[r].content \notin Undecodable

(***************************************************************************)
(* The rows R that iterating over a query of them yields.  rows.Next()     *)
(* returns false both at the end and when the connection fails, and        *)
(* rows.Err() is never asked: a failure in mid-result passes for its end.  *)
(***************************************************************************)
Fetched(R, all) ==
  \/ R = all /\ UNCHANGED faults
  \/ /\ R # all
     /\ faults < MaxFaults
     /\ faults' = faults + 1

-----------------------------------------------------------------------------
(* The process's end: everything it held is gone and it starts again. *)

Restart ==
  /\ process' = "starting"
  /\ store' = [e \in Environments |-> None]
  /\ loader' = [l \in Loaders |-> IdleLoader]
  /\ listening' = "no"
  /\ heard' = 0
  /\ stream' = [c \in Clients |-> Closed]

(* LoadAll returns an error: the poll and the listener log it and go on,   *)
(* main exits.                                                             *)
Fail(l) ==
  IF l = "main"
  THEN Restart
  ELSE /\ loader' = [loader EXCEPT ![l] = IdleLoader]
       /\ UNCHANGED <<process, store, listening, heard, stream>>

Goto(l, state) ==
  /\ loader' = [loader EXCEPT ![l] = state]
  /\ UNCHANGED <<process, store, listening, heard, stream>>

-----------------------------------------------------------------------------
(* LoadAll, run by l *)

(* mutant: nothing polls *)
ListEnvironmentsAtStart(l) ==
  /\ l = "main" /\ process = "starting"
  /\ loader[l].pc = "idle"
  /\ \E envs \in SUBSET environments :
       /\ Fetched(envs, environments)
       /\ Goto(l, [IdleLoader EXCEPT !.pc = "next", !.todo = envs])

(* main loads once at the start, the poll on each tick. *)
ListEnvironments(l) ==
  /\ l = IF process = "starting" THEN "main" ELSE "poll"
  /\ loader[l].pc = "idle"
  /\ \E envs \in SUBSET environments :
       /\ Fetched(envs, environments)
       /\ Goto(l, [IdleLoader EXCEPT !.pc = "next", !.todo = envs])

(* WaitForNotification returned: LoadAll, whatever the payload says. *)
Notified ==
  /\ listening = "yes"
  /\ loader["listen"].pc = "idle"
  /\ heard < Len(flags_changed)
  /\ heard' = heard + 1
  /\ \E envs \in SUBSET environments :
       /\ Fetched(envs, environments)
       /\ loader' = [loader EXCEPT !["listen"] =
                       [IdleLoader EXCEPT !.pc = "next", !.todo = envs]]
  /\ UNCHANGED <<process, store, listening, stream>>

QueryFlags(l) ==
  /\ loader[l].pc = "next"
  /\ \E e \in loader[l].todo, R \in SUBSET Flags :
       LET rows == Committed(R, e) IN
       /\ Fetched(rows, Committed(Flags, e))
       /\ IF Decodes(rows)
          THEN Goto(l, [pc |-> "segments", todo |-> loader[l].todo \ {e},
                        env |-> e, rows |-> rows])
          ELSE Fail(l)

QuerySegments(l) ==
  LET e == loader[l].env IN
  /\ loader[l].pc = "segments"
  /\ \E R \in SUBSET Segments :
       LET rows == Committed(R, e) IN
       /\ Fetched(rows, Committed(Segments, e))
       /\ IF Decodes(rows)
          THEN Goto(l, [loader[l] EXCEPT
                          !.pc = "install",
                          !.rows = [r \in Resources |->
                                      IF r \in Segments THEN rows[r] ELSE @[r]]])
          ELSE Fail(l)

(* mutant: what is loaded stays *)
IsMissing(e, rs) == store[e] = None

(* !ok || prev.Version != rs.Version *)
IsNew(e, rs) ==
  \/ store[e] = None
  \/ AggregateVersion(store[e]) # AggregateVersion(rs)

(* mutant: of each row the newer version is kept *)
InstallNewest(l) ==
  LET e == loader[l].env
      rs == loader[l].rows
      held == IF store[e] = None THEN rs ELSE store[e] IN
  /\ loader[l].pc = "install"
  /\ store' = [store EXCEPT ![e] =
                 [r \in Resources |->
                    IF held[r].version > rs[r].version THEN held[r] ELSE rs[r]]]
  /\ loader' = [loader EXCEPT ![l].pc = "next", ![l].rows = NoRows]
  /\ UNCHANGED <<process, listening, heard, stream, faults>>

Install(l) ==
  LET e == loader[l].env
      rs == loader[l].rows IN
  /\ loader[l].pc = "install"
  /\ store' = IF IsNew(e, rs) THEN [store EXCEPT ![e] = rs] ELSE store
  /\ loader' = [loader EXCEPT ![l].pc = "next", ![l].rows = NoRows]
  /\ UNCHANGED <<process, listening, heard, stream, faults>>

(* LoadAll returns; after the initial load main starts the other threads *)
(* and serves.                                                           *)
Return(l) ==
  /\ loader[l].pc = "next"
  /\ loader[l].todo = {}
  /\ loader' = [loader EXCEPT ![l] = IdleLoader]
  /\ process' = "serving"
  /\ UNCHANGED <<store, listening, heard, stream, faults>>

(* a query of LoadAll returns an error *)
QueryError(l) ==
  /\ loader[l].pc \in {"next", "segments"}
  /\ faults < MaxFaults
  /\ faults' = faults + 1
  /\ Fail(l)

LoadStep(l) ==
  \/ ListEnvironments(l)
  \/ l = "listen" /\ Notified
  \/ QueryFlags(l)
  \/ QuerySegments(l)
  \/ Install(l)
  \/ Return(l)

-----------------------------------------------------------------------------
(* listenForChanges outside LoadAll *)

(* LISTEN: payloads sent from now on are delivered. *)
Listen ==
  /\ process = "serving"
  /\ listening = "no"
  /\ listening' = "yes"
  /\ heard' = Len(flags_changed)
  /\ UNCHANGED <<process, store, loader, stream, faults>>

(* Acquiring the connection, LISTEN or WaitForNotification failed. *)
ListenerDies ==
  /\ process = "serving"
  /\ listening # "dead"
  /\ loader["listen"].pc = "idle"
  /\ faults < MaxFaults
  /\ faults' = faults + 1
  /\ listening' = "dead"
  /\ UNCHANGED <<process, store, loader, heard, stream>>

-----------------------------------------------------------------------------
(* handleSDKStream *)

(* mutant: an environment that is not loaded is sent all the same *)
SentUnloaded(s) ==
  IF store[s.env] = None
  THEN [s EXCEPT !.put = None]
  ELSE [s EXCEPT !.last = AggregateVersion(store[s.env]), !.put = store[s.env]]

(* mutant: only the first ruleset is sent *)
SentOnce(s) ==
  IF store[s.env] = None \/ s.last # -1
  THEN s
  ELSE [s EXCEPT !.last = AggregateVersion(store[s.env]), !.put = store[s.env]]

(* rs.Version == lastVersion: nothing to send *)
Sent(s) ==
  IF store[s.env] = None
  THEN s
  ELSE LET rs == store[s.env] IN
       IF AggregateVersion(rs) = s.last
       THEN s
       ELSE [s EXCEPT !.last = AggregateVersion(rs), !.put = rs]

(* A server key of environment e is accepted; the snapshot is sent at once. *)
Connect(c, e) ==
  /\ process = "serving"
  /\ stream[c].env = None
  /\ e \in environments
  /\ stream' = [stream EXCEPT ![c] = Sent([Closed EXCEPT !.env = e])]
  /\ UNCHANGED <<process, store, loader, listening, heard, faults>>

Tick(c) ==
  /\ stream[c].env # None
  /\ stream' = [stream EXCEPT ![c] = Sent(stream[c])]
  /\ UNCHANGED <<process, store, loader, listening, heard, faults>>

Disconnect(c) ==
  /\ stream[c].env # None
  /\ stream' = [stream EXCEPT ![c] = Closed]
  /\ UNCHANGED <<process, store, loader, listening, heard, faults>>

Crash ==
  /\ faults < MaxFaults
  /\ faults' = faults + 1
  /\ Restart

-----------------------------------------------------------------------------

DataPlaneNext ==
  \/ \E l \in Loaders : LoadStep(l) \/ QueryError(l)
  \/ Listen
  \/ ListenerDies
  \/ \E c \in Clients, e \in Environments : Connect(c, e)
  \/ \E c \in Clients : Tick(c) \/ Disconnect(c)
  \/ Crash

Next ==
  \/ TableNext /\ UNCHANGED dataPlaneVars
  \/ DataPlaneNext /\ UNCHANGED tableVars

(* The Go scheduler runs every thread, the tickers fire, a query returns.  *)
(* Nobody need send requests, and the listener need not get to LISTEN.     *)
DataPlaneFairness ==
  /\ \A l \in Loaders : WF_vars(LoadStep(l) /\ UNCHANGED tableVars)
  /\ \A c \in Clients : WF_vars(Tick(c) /\ UNCHANGED tableVars)

Spec == Init /\ [][Next]_vars /\ DataPlaneFairness

-----------------------------------------------------------------------------
(* Safety *)

(***************************************************************************)
(* rs was read from the committed tables of environment e, possibly some   *)
(* time ago and possibly not all of it: no row is newer than the table's,  *)
(* and a row of the table's version is the table's row.                    *)
(***************************************************************************)
Behind(rs, e) ==
  \A r \in Resources :
    /\ rs[r].version <= configs[<<r, e>>].version
    /\ rs[r].version = configs[<<r, e>>].version => rs[r] = configs[<<r, e>>]

(***************************************************************************)
(* Every ruleset the process holds, is assembling or has pushed lags the   *)
(* tables of its own environment row by row, however the loads of the      *)
(* three threads, crashes and truncated results interleave: nothing is     *)
(* invented, taken from another environment or from an uncommitted row.    *)
(***************************************************************************)
HeldRowsBehind ==
  /\ \A e \in Environments : store[e] # None => Behind(store[e], e)
  /\ \A l \in Loaders : loader[l].env # None => Behind(loader[l].rows, loader[l].env)
  /\ \A c \in Clients : stream[c].env # None => Behind(stream[c].put, stream[c].env)

(***************************************************************************)
(* Why an equal aggregate version may be skipped (store.go:73,             *)
(* server.go:93): a held or pushed ruleset whose version is that of the    *)
(* tables is the tables' ruleset, although versions of different rows are  *)
(* added up, the two queries see different snapshots and rows may be       *)
(* missing.  So a skipped install or send never withholds a change.        *)
(***************************************************************************)
VersionIdentifiesRuleset ==
  /\ \A e \in Environments :
       (store[e] # None /\ AggregateVersion(store[e]) = AggregateVersion(Current(e)))
         => store[e] = Current(e)
  /\ \A c \in Clients :
       (stream[c].env # None /\ stream[c].last = AggregateVersion(Current(stream[c].env)))
         => stream[c].put = Current(stream[c].env)

-----------------------------------------------------------------------------
(* Liveness *)

UpToDate(e) == store[e] = Current(e)

(***************************************************************************)
(* Once the tables stop changing and the faults stop, the store comes to   *)
(* hold every environment's ruleset and keeps it, although a load that     *)
(* began before the last change may still install what it read then, and   *)
(* a notification may have been lost (main.go:77-78: "The reload poll      *)
(* above covers any missed notification").                                 *)
(***************************************************************************)
StoreConverges ==
  <>[](process = "serving" /\ \A e \in environments : UpToDate(e))

(* ... and every SDK that stays connected has been sent that ruleset. *)
StreamsConverge ==
  <>[](\A c \in Clients :
         stream[c].env # None => stream[c].put = Current(stream[c].env))

-----------------------------------------------------------------------------
(* What the documents say and the code does not do *)

(***************************************************************************)
(* "The reload poll above covers any missed notification" (main.go:78):    *)
(* an environment whose own rows all decode is eventually up to date.      *)
(***************************************************************************)
PollCoversDecodable ==
  \A e \in Environments :
    <>[](e \in environments /\ Decodes(Current(e)) => UpToDate(e))
=============================================================================
