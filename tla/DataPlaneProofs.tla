--------------------------- MODULE DataPlaneProofs ---------------------------
(***************************************************************************)
(* Proofs about DataPlane, for any sets of flags, segments, environments,  *)
(* contents and clients, and any bounds.                                   *)
(***************************************************************************)
EXTENDS DataPlane, FiniteSetTheorems, TLAPS

(* A row leaves version 0 only by being created. *)
RowsSane == \A k \in Keys : configs[k].version = 0 => configs[k] = NoRow

(* A stream's lastVersion is that of the ruleset it wrote last. *)
LastIsPut ==
  \A c \in Clients :
    stream[c].env # None =>
      \/ stream[c].last = -1
      \/ stream[c].last = AggregateVersion(stream[c].put)

IInv == TypeOK /\ RowsSane /\ HeldRowsBehind /\ LastIsPut

-----------------------------------------------------------------------------
(* The aggregate version as a measure *)

(* A ruleset has finitely many units... *)
LEMMA UnitsFinite ==
  ASSUME NEW rs \in Rulesets
  PROVE  IsFiniteSet(Units(rs))
<1>. DEFINE part == [r \in Resources |-> {r} \X (1..rs[r].version)]
            parts == {{r} \X (1..rs[r].version) : r \in Resources}
<1>1. IsFiniteSet(Resources)
  BY TableAssumption DEF Resources
<1>2. part \in Surjection(Resources, parts)
  BY DEF Surjection
<1>3. IsFiniteSet(parts)
  BY <1>1, <1>2, FS_Surjection
<1>4. ASSUME NEW r \in Resources
      PROVE  IsFiniteSet({r} \X (1..rs[r].version))
  <2>1. PICK n \in Nat : n = rs[r].version
    BY DEF Rulesets, Row
  <2>2. IsFiniteSet(1..n)
    BY FS_Interval
  <2>3. IsFiniteSet({r})
    BY FS_Singleton, Zenon
  <2>. QED BY <2>1, <2>2, <2>3, FS_Product
<1>. QED BY <1>3, <1>4, FS_UNION DEF Units

(* ... as many as its version, a natural number. *)
LEMMA VersionIsNat ==
  ASSUME NEW rs \in Rulesets
  PROVE  AggregateVersion(rs) \in Nat
BY UnitsFinite, FS_CardinalityType DEF AggregateVersion

(* The units of a ruleset, spelled out. *)
LEMMA InUnits ==
  ASSUME NEW rs, NEW u
  PROVE  u \in Units(rs) <=> \E r \in Resources : u \in {r} \X (1..rs[r].version)
BY DEF Units

(* Of two rulesets one of which is row by row at most as new as the other, *)
(* the older has the smaller version, unless all their versions agree.     *)
LEMMA UnitsDetermineVersions ==
  ASSUME NEW old \in Rulesets, NEW new \in Rulesets,
         \A r \in Resources : old[r].version <= new[r].version,
         AggregateVersion(old) = AggregateVersion(new)
  PROVE  \A r \in Resources : old[r].version = new[r].version
<1>1. IsFiniteSet(Units(new))
  BY UnitsFinite
<1>2. ASSUME NEW r \in Resources
      PROVE  old[r].version \in Nat /\ new[r].version \in Nat
  BY DEF Rulesets, Row
<1>3. Units(old) \in SUBSET Units(new)
  <2>1. ASSUME NEW r \in Resources
        PROVE  {r} \X (1..old[r].version) \subseteq {r} \X (1..new[r].version)
    BY <1>2
  <2>. QED BY <2>1, InUnits
<1>4. Units(new) = Units(old)
  BY <1>1, <1>3, FS_Subset DEF AggregateVersion
<1>5. ASSUME NEW r \in Resources, old[r].version # new[r].version
      PROVE  FALSE
  <2>1. old[r].version < new[r].version
    BY <1>2, <1>5
  <2>2. <<r, new[r].version>> \in Units(new)
    <3>1. new[r].version \in 1..new[r].version
      BY <1>2, <2>1
    <3>. QED BY <3>1, InUnits
  <2>3. <<r, new[r].version>> \in Units(old)
    BY <1>4, <2>2
  <2>4. new[r].version \in 1..old[r].version
    <3>1. PICK q \in Resources :
            <<r, new[r].version>> \in {q} \X (1..old[q].version)
      BY <2>3, InUnits
    <3>. QED BY <3>1
  <2>. QED BY <1>2, <2>1, <2>4
<1>. QED BY <1>5

(* What the tables hold of an environment is a ruleset. *)
LEMMA CommittedType ==
  ASSUME TableTypeOK, NEW R \in SUBSET Resources, NEW e \in Environments
  PROVE  Committed(R, e) \in Rulesets
<1>1. NoRow \in Row
  BY TableAssumption DEF NoRow, Row
<1>2. \A r \in Resources : configs[<<r, e>>] \in Row
  BY DEF TableTypeOK, Keys
<1>. QED BY <1>1, <1>2 DEF Committed, Rulesets

(* A ruleset that lags the tables and has their version is theirs. *)
LEMMA SameVersionSameRuleset ==
  ASSUME TableTypeOK, NEW e \in Environments, NEW rs \in Rulesets, Behind(rs, e),
         AggregateVersion(rs) = AggregateVersion(Current(e))
  PROVE  rs = Current(e)
<1>1. Current(e) \in Rulesets
  BY CommittedType DEF Current
<1>2. \A r \in Resources : Current(e)[r] = configs[<<r, e>>]
  BY DEF Current, Committed
<1>3. \A r \in Resources : rs[r].version <= Current(e)[r].version
  BY <1>2 DEF Behind
<1>4. \A r \in Resources : rs[r].version = Current(e)[r].version
  BY <1>1, <1>3, UnitsDetermineVersions
<1>5. \A r \in Resources : rs[r] = Current(e)[r]
  BY <1>2, <1>4 DEF Behind
<1>. QED BY <1>1, <1>5 DEF Rulesets

-----------------------------------------------------------------------------
(* What the tables do *)

LEMMA NoRowIsRow == NoRow \in Row /\ SeedRow \in Row
BY TableAssumption DEF NoRow, SeedRow, Row

(* The tables' type is kept, and a row that changes gets a higher version. *)
LEMMA TableStep ==
  ASSUME TableTypeOK, RowsSane, TableNext
  PROVE  /\ TableTypeOK'
         /\ RowsSane'
         /\ \A k \in Keys : \/ configs'[k] = configs[k]
                            \/ configs'[k].version > configs[k].version
<1>. USE DEF TableTypeOK, RowsSane
<1>1. \A k \in Keys : configs[k].version \in Nat
  BY DEF Row
<1>2. CASE \E e \in Environments : AddEnvironment(e)
  BY <1>2 DEF AddEnvironment
<1>3. CASE \E f \in Flags, envs \in SUBSET environments : Seed(f, envs)
  <2>1. PICK f \in Flags, envs \in SUBSET environments : Seed(f, envs)
    BY <1>3
  <2>2. configs' \in [Keys -> Row] /\ UNCHANGED <<environments, flags_changed>>
    BY <2>1, NoRowIsRow DEF Seed
  <2>3. ASSUME NEW k \in Keys, k \in {f} \X envs
        PROVE  configs[k].version = 0 /\ configs'[k] = SeedRow
    BY <2>1, <2>3 DEF Seed, Exists
  <2>4. ASSUME NEW k \in Keys, k \notin {f} \X envs
        PROVE  configs'[k] = configs[k]
    BY <2>1, <2>4 DEF Seed
  <2>5. SeedRow.version = 1
    BY DEF SeedRow
  <2>. QED BY <2>2, <2>3, <2>4, <2>5
<1>4. CASE \E r \in Resources, e \in environments, content \in Contents :
             Change(r, e, content)
  <2>1. PICK r \in Resources, e \in environments, content \in Contents :
          Change(r, e, content)
    BY <1>4
  <2>. DEFINE new == [content |-> content, version |-> configs[<<r, e>>].version + 1]
  <2>2. <<r, e>> \in Keys /\ e \in Environments
    BY DEF Keys
  <2>3. new \in Row
    BY <1>1, <2>2 DEF Row
  <2>4. configs' = [configs EXCEPT ![<<r, e>>] = new]
    BY <2>1, <2>2 DEF Change
  <2>5. /\ flags_changed' = Append(flags_changed, e)
        /\ environments' = environments
    BY <2>1 DEF Change
  <2>6. flags_changed' \in Seq(Environments)
    BY <2>2, <2>5
  <2>7. configs' \in [Keys -> Row]
    BY <2>3, <2>4
  <2>8. \A k \in Keys : configs'[k] = IF k = <<r, e>> THEN new ELSE configs[k]
    BY <2>4
  <2>9. new.version = configs[<<r, e>>].version + 1
    OBVIOUS
  <2>10. TableTypeOK'
    BY <2>5, <2>6, <2>7
  <2>11. ASSUME NEW k \in Keys
         PROVE  /\ configs'[k].version = 0 => configs'[k] = NoRow
                /\ configs'[k] = configs[k] \/ configs'[k].version > configs[k].version
    <3>1. CASE k = <<r, e>>
      BY <1>1, <2>8, <2>9, <3>1
    <3>2. CASE k # <<r, e>>
      BY <1>1, <2>8, <3>2
    <3>. QED BY <3>1, <3>2
  <2>. QED BY <2>10, <2>11
<1>. QED BY <1>2, <1>3, <1>4 DEF TableNext

(* What lags the tables still lags them after they changed. *)
LEMMA BehindStays ==
  ASSUME TableTypeOK, RowsSane, TableNext,
         NEW e \in Environments, NEW rs \in Rulesets, Behind(rs, e)
  PROVE  Behind(rs, e)'
<1>1. \A k \in Keys : \/ configs'[k] = configs[k]
                      \/ configs'[k].version > configs[k].version
  BY TableStep
<1>2. ASSUME NEW r \in Resources
      PROVE  /\ rs[r].version <= configs'[<<r, e>>].version
             /\ rs[r].version = configs'[<<r, e>>].version => rs[r] = configs'[<<r, e>>]
  <2>1. <<r, e>> \in Keys
    BY DEF Keys
  <2>2. /\ rs[r].version \in Nat
        /\ configs[<<r, e>>].version \in Nat
        /\ configs'[<<r, e>>].version \in Nat
    BY <2>1, TableStep DEF Rulesets, Row, TableTypeOK
  <2>3. /\ rs[r].version <= configs[<<r, e>>].version
        /\ rs[r].version = configs[<<r, e>>].version => rs[r] = configs[<<r, e>>]
    BY DEF Behind
  <2>4. CASE configs'[<<r, e>>] = configs[<<r, e>>]
    BY <2>3, <2>4
  <2>5. CASE configs'[<<r, e>>].version > configs[<<r, e>>].version
    BY <2>2, <2>3, <2>5
  <2>. QED BY <1>1, <2>1, <2>4, <2>5
<1>. QED BY <1>2 DEF Behind

(* A query's result lags the tables at once. *)
LEMMA CommittedBehind ==
  ASSUME TableTypeOK, RowsSane, NEW R \in SUBSET Resources, NEW e \in Environments
  PROVE  Behind(Committed(R, e), e)
<1>1. ASSUME NEW r \in Resources
      PROVE  LET row == Committed(R, e)[r] IN
             /\ row.version <= configs[<<r, e>>].version
             /\ row.version = configs[<<r, e>>].version => row = configs[<<r, e>>]
  <2>1. <<r, e>> \in Keys
    BY DEF Keys
  <2>2. configs[<<r, e>>].version \in Nat /\ NoRow.version = 0
    BY <2>1 DEF TableTypeOK, Row, NoRow
  <2>3. configs[<<r, e>>].version = 0 => configs[<<r, e>>] = NoRow
    BY <2>1 DEF RowsSane
  <2>. QED BY <2>2, <2>3 DEF Committed
<1>. QED BY <1>1 DEF Behind

(* Nothing read lags trivially. *)
LEMMA NoRowsBehind ==
  ASSUME TableTypeOK, RowsSane, NEW e \in Environments
  PROVE  NoRows \in Rulesets /\ Behind(NoRows, e)
<1>1. NoRows = Committed({}, e)
  BY DEF NoRows, Committed
<1>. QED BY <1>1, CommittedType, CommittedBehind

-----------------------------------------------------------------------------
(* Types alone: whatever the tables do, the data plane's steps keep them. *)

LEMMA RestartKeepsTypes ==
  ASSUME TypeOK, Restart, UNCHANGED tableVars, faults' \in Nat
  PROVE  TypeOK'
<1>1. NoRows \in Rulesets
  BY NoRowIsRow DEF NoRows, Rulesets
<1>2. IdleLoader \in LoaderState /\ IdleLoader.pc = "idle" /\ Closed \in StreamState
  BY <1>1 DEF IdleLoader, LoaderState, Closed, StreamState
<1>. QED BY <1>2 DEF TypeOK, TableTypeOK, Restart, tableVars

LEMMA LoaderStepKeepsTypes ==
  ASSUME TypeOK, NEW l \in Loaders, NEW state \in LoaderState,
         state.pc \in {"segments", "install"} => state.env # None,
         loader' = [loader EXCEPT ![l] = state],
         UNCHANGED <<tableVars, stream>>,
         process' \in {"starting", "serving"}, listening' \in {"no", "yes", "dead"},
         store' \in [Environments -> Rulesets \cup {None}],
         heard' \in Nat, faults' \in Nat
  PROVE  TypeOK'
<1>1. /\ loader' \in [Loaders -> LoaderState]
      /\ \A m \in Loaders : loader'[m] = IF m = l THEN state ELSE loader[m]
  BY DEF TypeOK
<1>. QED BY <1>1 DEF TypeOK, TableTypeOK, tableVars

(* LoadAll goes on or gives up. *)
LEMMA LoadAllKeepsTypes ==
  ASSUME TypeOK, NEW l \in Loaders, UNCHANGED tableVars, faults' \in Nat,
         \/ Fail(l)
         \/ \E state \in LoaderState :
              /\ state.pc \in {"segments", "install"} => state.env # None
              /\ Goto(l, state)
  PROVE  TypeOK'
<1>1. CASE l = "main" /\ Fail(l)
  BY <1>1, RestartKeepsTypes DEF Fail
<1>2. CASE \E state \in LoaderState :
             /\ state.pc \in {"segments", "install"} => state.env # None
             /\ loader' = [loader EXCEPT ![l] = state]
             /\ UNCHANGED <<process, store, listening, heard, stream>>
  <2>1. /\ process' \in {"starting", "serving"} /\ listening' \in {"no", "yes", "dead"}
        /\ store' \in [Environments -> Rulesets \cup {None}] /\ heard' \in Nat
    BY <1>2 DEF TypeOK
  <2>. QED BY <1>2, <2>1, LoaderStepKeepsTypes
<1>3. IdleLoader \in LoaderState /\ IdleLoader.pc = "idle"
  BY NoRowIsRow DEF IdleLoader, LoaderState, NoRows, Rulesets
<1>. QED BY <1>1, <1>2, <1>3 DEF Fail, Goto

LEMMA FetchedFaults ==
  ASSUME NEW R, NEW all, faults \in Nat, Fetched(R, all)
  PROVE  faults' \in Nat
BY DEF Fetched

LEMMA LoadStepKeepsTypes ==
  ASSUME TypeOK, NEW l \in Loaders, LoadStep(l), UNCHANGED tableVars
  PROVE  TypeOK'
<1>0. /\ TableTypeOK /\ faults \in Nat /\ heard \in Nat /\ loader[l] \in LoaderState
      /\ NoRows \in Rulesets /\ IdleLoader \in LoaderState
  BY NoRowIsRow DEF TypeOK, IdleLoader, LoaderState, NoRows, Rulesets
<1>1. \A envs \in SUBSET environments :
        /\ [IdleLoader EXCEPT !.pc = "next", !.todo = envs] \in LoaderState
        /\ [IdleLoader EXCEPT !.pc = "next", !.todo = envs].pc = "next"
  BY <1>0 DEF IdleLoader, LoaderState, TableTypeOK
<1>2. CASE ListEnvironments(l)
  BY <1>0, <1>1, <1>2, FetchedFaults, LoadAllKeepsTypes DEF ListEnvironments
<1>3. CASE l = "listen" /\ Notified
  <2>1. PICK envs \in SUBSET environments :
          /\ Fetched(envs, environments)
          /\ loader' = [loader EXCEPT ![l] = [IdleLoader EXCEPT !.pc = "next", !.todo = envs]]
    BY <1>3 DEF Notified
  <2>2. /\ heard' \in Nat /\ UNCHANGED <<process, store, listening, stream>>
    BY <1>0, <1>3 DEF Notified
  <2>3. faults' \in Nat
    BY <1>0, <2>1, FetchedFaults
  <2>4. /\ process' \in {"starting", "serving"} /\ listening' \in {"no", "yes", "dead"}
        /\ store' \in [Environments -> Rulesets \cup {None}]
    BY <2>2 DEF TypeOK
  <2>. QED BY <1>1, <2>1, <2>2, <2>3, <2>4, LoaderStepKeepsTypes
<1>4. CASE QueryFlags(l)
  <2>1. PICK e \in loader[l].todo, R \in SUBSET Flags :
          /\ Fetched(Committed(R, e), Committed(Flags, e))
          /\ \/ Fail(l)
             \/ Goto(l, [pc |-> "segments", todo |-> loader[l].todo \ {e},
                         env |-> e, rows |-> Committed(R, e)])
    BY <1>4 DEF QueryFlags
  <2>2. e \in Environments /\ e # None /\ R \in SUBSET Resources
    BY <1>0, DataPlaneAssumption DEF LoaderState, Resources
  <2>3. Committed(R, e) \in Rulesets
    BY <1>0, <2>2, CommittedType
  <2>4. [pc |-> "segments", todo |-> loader[l].todo \ {e}, env |-> e,
         rows |-> Committed(R, e)] \in LoaderState
    BY <1>0, <2>2, <2>3 DEF LoaderState
  <2>. QED BY <1>0, <2>1, <2>2, <2>4, FetchedFaults, LoadAllKeepsTypes
<1>5. CASE QuerySegments(l)
  <2>. DEFINE e == loader[l].env
              all(R) == [r \in Resources |->
                           IF r \in Segments THEN Committed(R, e)[r] ELSE loader[l].rows[r]]
  <2>1. PICK R \in SUBSET Segments :
          /\ Fetched(Committed(R, e), Committed(Segments, e))
          /\ Fail(l) \/ Goto(l, [loader[l] EXCEPT !.pc = "install", !.rows = all(R)])
    BY <1>5 DEF QuerySegments
  <2>2. e \in Environments /\ e # None /\ R \in SUBSET Resources
    BY <1>0, <1>5 DEF QuerySegments, TypeOK, LoaderState, Resources
  <2>3. Committed(R, e) \in Rulesets
    BY <1>0, <2>2, CommittedType
  <2>4. all(R) \in Rulesets
    BY <1>0, <2>3 DEF Rulesets, LoaderState
  <2>5. /\ [loader[l] EXCEPT !.pc = "install", !.rows = all(R)] \in LoaderState
        /\ [loader[l] EXCEPT !.pc = "install", !.rows = all(R)].env = e
    BY <1>0, <2>4 DEF LoaderState
  <2>. QED BY <1>0, <2>1, <2>2, <2>5, FetchedFaults, LoadAllKeepsTypes
<1>6. CASE Install(l)
  <2>. DEFINE next == [loader[l] EXCEPT !.pc = "next", !.rows = NoRows]
  <2>1. next \in LoaderState /\ next.pc = "next"
    BY <1>0 DEF LoaderState
  <2>2. loader' = [loader EXCEPT ![l] = next]
    BY <1>6 DEF Install, TypeOK
  <2>3. store' \in [Environments -> Rulesets \cup {None}]
    <3>1. loader[l].rows \in Rulesets
      BY <1>0 DEF LoaderState
    <3>. QED BY <1>6, <3>1 DEF Install, TypeOK
  <2>4. /\ process' \in {"starting", "serving"} /\ listening' \in {"no", "yes", "dead"}
        /\ heard' \in Nat /\ faults' \in Nat /\ UNCHANGED stream
    BY <1>6 DEF Install, TypeOK
  <2>. QED BY <2>1, <2>2, <2>3, <2>4, LoaderStepKeepsTypes
<1>7. CASE Return(l)
  <2>1. IdleLoader.pc = "idle"
    BY DEF IdleLoader
  <2>2. /\ process' \in {"starting", "serving"} /\ listening' \in {"no", "yes", "dead"}
        /\ heard' \in Nat /\ faults' \in Nat /\ UNCHANGED <<store, stream>>
        /\ store' \in [Environments -> Rulesets \cup {None}]
        /\ loader' = [loader EXCEPT ![l] = IdleLoader]
    BY <1>7 DEF Return, TypeOK
  <2>. QED BY <1>0, <2>1, <2>2, LoaderStepKeepsTypes
<1>. QED BY <1>2, <1>3, <1>4, <1>5, <1>6, <1>7 DEF LoadStep

LEMMA StreamStepKeepsTypes ==
  ASSUME TypeOK, NEW c \in Clients, NEW s \in StreamState,
         stream' = [stream EXCEPT ![c] = s],
         UNCHANGED <<tableVars, process, store, loader, listening, heard, faults>>
  PROVE  TypeOK'
<1>1. stream' \in [Clients -> StreamState]
  BY DEF TypeOK
<1>. QED BY <1>1 DEF TypeOK, TableTypeOK, tableVars

LEMMA SentTyped ==
  ASSUME TypeOK, NEW s \in StreamState, s.env \in Environments
  PROVE  Sent(s) \in StreamState
<1>1. CASE store[s.env] = None
  BY <1>1 DEF Sent
<1>2. CASE store[s.env] # None
  <2>1. store[s.env] \in Rulesets
    BY <1>2 DEF TypeOK
  <2>2. AggregateVersion(store[s.env]) \in Nat
    BY <2>1, VersionIsNat
  <2>3. [s EXCEPT !.last = AggregateVersion(store[s.env]), !.put = store[s.env]]
          \in StreamState
    BY <2>1, <2>2 DEF StreamState
  <2>. QED BY <1>2, <2>3 DEF Sent
<1>. QED BY <1>1, <1>2

LEMMA DataPlaneKeepsTypes ==
  ASSUME TypeOK, DataPlaneNext, UNCHANGED tableVars
  PROVE  TypeOK'
<1>0. /\ TableTypeOK /\ faults \in Nat /\ heard \in Nat /\ Len(flags_changed) \in Nat
      /\ Closed \in StreamState /\ stream \in [Clients -> StreamState]
  BY NoRowIsRow DEF TypeOK, TableTypeOK, Closed, StreamState, NoRows, Rulesets
<1>1. CASE \E l \in Loaders : LoadStep(l)
  BY <1>1, LoadStepKeepsTypes
<1>2. CASE \E l \in Loaders : QueryError(l)
  BY <1>0, <1>2, LoadAllKeepsTypes DEF QueryError
<1>3. CASE Listen \/ ListenerDies
  BY <1>0, <1>3 DEF Listen, ListenerDies, TypeOK, TableTypeOK, tableVars
<1>4. ASSUME NEW c \in Clients, NEW e \in Environments, Connect(c, e)
      PROVE  TypeOK'
  <2>1. /\ [Closed EXCEPT !.env = e] \in StreamState
        /\ [Closed EXCEPT !.env = e].env = e
    BY <1>0 DEF StreamState, Closed
  <2>2. Sent([Closed EXCEPT !.env = e]) \in StreamState
    BY <2>1, SentTyped
  <2>. QED BY <1>4, <2>2, StreamStepKeepsTypes DEF Connect
<1>5. ASSUME NEW c \in Clients, Tick(c)
      PROVE  TypeOK'
  <2>1. stream[c] \in StreamState /\ stream[c].env \in Environments
    BY <1>0, <1>5 DEF Tick, StreamState
  <2>2. Sent(stream[c]) \in StreamState
    BY <2>1, SentTyped
  <2>. QED BY <1>5, <2>2, StreamStepKeepsTypes DEF Tick
<1>6. ASSUME NEW c \in Clients, Disconnect(c)
      PROVE  TypeOK'
  BY <1>0, <1>6, StreamStepKeepsTypes DEF Disconnect
<1>7. CASE Crash
  BY <1>0, <1>7, RestartKeepsTypes DEF Crash
<1>. QED BY <1>1, <1>2, <1>3, <1>4, <1>5, <1>6, <1>7 DEF DataPlaneNext

-----------------------------------------------------------------------------
(* The inductive invariant *)

LEMMA InitIInv == Init => IInv
<1>. SUFFICES ASSUME Init PROVE IInv
  OBVIOUS
<1>. USE DEF Init, TableInit
<1>1. NoRows \in Rulesets
  BY NoRowIsRow DEF NoRows, Rulesets
<1>2. IdleLoader \in LoaderState /\ IdleLoader.env = None /\ IdleLoader.pc = "idle"
  BY <1>1 DEF IdleLoader, LoaderState
<1>3. Closed \in StreamState /\ Closed.env = None
  BY <1>1 DEF Closed, StreamState
<1>4. TypeOK
  BY <1>2, <1>3, NoRowIsRow DEF TypeOK, TableTypeOK
<1>5. RowsSane
  BY DEF RowsSane, NoRow
<1>6. HeldRowsBehind /\ LastIsPut
  BY <1>2, <1>3 DEF HeldRowsBehind, LastIsPut
<1>. QED BY <1>4, <1>5, <1>6 DEF IInv

(* The tables' steps *)
LEMMA TableKeepsIInv ==
  ASSUME IInv, TableNext, UNCHANGED dataPlaneVars
  PROVE  IInv'
<1>. USE DEF dataPlaneVars, IInv
<1>1. TypeOK'
  BY TableStep DEF TypeOK
<1>2. RowsSane'
  BY TableStep DEF TypeOK
<1>3. HeldRowsBehind'
  <2>1. ASSUME NEW e \in Environments, store[e] # None
        PROVE  Behind(store[e], e)'
    <3>1. store[e] \in Rulesets /\ Behind(store[e], e)
      BY <2>1 DEF TypeOK, HeldRowsBehind
    <3>2. store'[e] = store[e]
      OBVIOUS
    <3>3. \A rs \in Rulesets : Behind(rs, e) => Behind(rs, e)'
      BY BehindStays DEF TypeOK
    <3>. QED BY <3>1, <3>2, <3>3 DEF Behind
  <2>2. ASSUME NEW l \in Loaders, loader[l].env # None
        PROVE  Behind(loader[l].rows, loader[l].env)'
    <3>1. /\ loader[l].rows \in Rulesets /\ loader[l].env \in Environments
          /\ Behind(loader[l].rows, loader[l].env)
      BY <2>2 DEF TypeOK, HeldRowsBehind, LoaderState
    <3>3. \A e \in Environments, rs \in Rulesets : Behind(rs, e) => Behind(rs, e)'
      BY BehindStays DEF TypeOK
    <3>. QED BY <3>1, <3>3 DEF Behind
  <2>3. ASSUME NEW c \in Clients, stream[c].env # None
        PROVE  Behind(stream[c].put, stream[c].env)'
    <3>1. /\ stream[c].put \in Rulesets /\ stream[c].env \in Environments
          /\ Behind(stream[c].put, stream[c].env)
      BY <2>3 DEF TypeOK, HeldRowsBehind, StreamState
    <3>3. \A e \in Environments, rs \in Rulesets : Behind(rs, e) => Behind(rs, e)'
      BY BehindStays DEF TypeOK
    <3>. QED BY <3>1, <3>3 DEF Behind
  <2>. QED BY <2>1, <2>2, <2>3 DEF HeldRowsBehind
<1>4. LastIsPut'
  BY DEF LastIsPut
<1>. QED BY <1>1, <1>2, <1>3, <1>4

(* A step that only sets one loader's state, to one that has read from the *)
(* tables, keeps the invariant.                                            *)
LoaderOK(state) ==
  /\ state \in LoaderState
  /\ state.pc \in {"segments", "install"} => state.env # None
  /\ state.env # None => Behind(state.rows, state.env)

LEMMA LoaderStepKeepsIInv ==
  ASSUME IInv, NEW l \in Loaders, NEW state, LoaderOK(state),
         loader' = [loader EXCEPT ![l] = state],
         UNCHANGED <<tableVars, store, stream>>,
         process' \in {"starting", "serving"}, listening' \in {"no", "yes", "dead"},
         heard' \in Nat, faults' \in Nat
  PROVE  IInv'
<1>. USE DEF IInv, tableVars
<1>1. \A m \in Loaders : loader'[m] = IF m = l THEN state ELSE loader[m]
  BY DEF TypeOK
<1>2. TypeOK'
  <2>1. store' \in [Environments -> Rulesets \cup {None}]
    BY DEF TypeOK
  <2>. QED BY <2>1, LoaderStepKeepsTypes DEF LoaderOK
<1>3. RowsSane'
  BY DEF RowsSane
<1>4. HeldRowsBehind'
  BY <1>1 DEF HeldRowsBehind, LoaderOK, Behind
<1>5. LastIsPut'
  BY DEF LastIsPut
<1>. QED BY <1>2, <1>3, <1>4, <1>5

(* The same for a stream. *)
StreamOK(s) ==
  /\ s \in StreamState
  /\ s.env # None =>
       /\ Behind(s.put, s.env)
       /\ s.last = -1 \/ s.last = AggregateVersion(s.put)

LEMMA StreamStepKeepsIInv ==
  ASSUME IInv, NEW c \in Clients, NEW s, StreamOK(s),
         stream' = [stream EXCEPT ![c] = s],
         UNCHANGED <<tableVars, process, store, loader, listening, heard, faults>>
  PROVE  IInv'
<1>. USE DEF IInv, tableVars
<1>1. \A d \in Clients : stream'[d] = IF d = c THEN s ELSE stream[d]
  BY DEF TypeOK
<1>2. TypeOK'
  BY StreamStepKeepsTypes DEF StreamOK
<1>3. RowsSane'
  BY DEF RowsSane
<1>4. HeldRowsBehind'
  BY <1>1 DEF HeldRowsBehind, StreamOK, Behind
<1>5. LastIsPut'
  BY <1>1 DEF LastIsPut, StreamOK
<1>. QED BY <1>2, <1>3, <1>4, <1>5

(* The end of the process *)
LEMMA RestartKeepsIInv ==
  ASSUME IInv, Restart, UNCHANGED tableVars, faults' \in Nat
  PROVE  IInv'
<1>. USE DEF IInv, tableVars, Restart
<1>1. NoRows \in Rulesets
  BY NoRowIsRow DEF NoRows, Rulesets
<1>2. IdleLoader \in LoaderState /\ IdleLoader.env = None /\ IdleLoader.pc = "idle"
  BY <1>1 DEF IdleLoader, LoaderState
<1>3. Closed \in StreamState /\ Closed.env = None
  BY <1>1 DEF Closed, StreamState
<1>4. TypeOK'
  BY RestartKeepsTypes
<1>5. RowsSane'
  BY DEF RowsSane
<1>6. HeldRowsBehind' /\ LastIsPut'
  BY <1>2, <1>3 DEF HeldRowsBehind, LastIsPut
<1>. QED BY <1>4, <1>5, <1>6

(* LoadAll gives up. *)
LEMMA FailKeepsIInv ==
  ASSUME IInv, NEW l \in Loaders, Fail(l), UNCHANGED tableVars, faults' \in Nat
  PROVE  IInv'
<1>1. CASE l = "main"
  BY <1>1, RestartKeepsIInv DEF Fail
<1>2. CASE l # "main"
  <2>1. LoaderOK(IdleLoader)
    BY NoRowIsRow DEF LoaderOK, IdleLoader, LoaderState, NoRows, Rulesets
  <2>2. /\ loader' = [loader EXCEPT ![l] = IdleLoader]
        /\ UNCHANGED <<process, store, listening, heard, stream>>
    BY <1>2 DEF Fail
  <2>3. /\ process' \in {"starting", "serving"}
        /\ listening' \in {"no", "yes", "dead"} /\ heard' \in Nat
    BY <2>2 DEF IInv, TypeOK
  <2>. QED BY <2>1, <2>2, <2>3, LoaderStepKeepsIInv
<1>. QED BY <1>1, <1>2

(* LoadAll goes on. *)
LEMMA GotoKeepsIInv ==
  ASSUME IInv, NEW l \in Loaders, NEW state, LoaderOK(state), Goto(l, state),
         UNCHANGED tableVars, faults' \in Nat
  PROVE  IInv'
<1>1. /\ loader' = [loader EXCEPT ![l] = state]
      /\ UNCHANGED <<process, store, listening, heard, stream>>
  BY DEF Goto
<1>2. /\ process' \in {"starting", "serving"}
      /\ listening' \in {"no", "yes", "dead"} /\ heard' \in Nat
  BY <1>1 DEF IInv, TypeOK
<1>. QED BY <1>1, <1>2, LoaderStepKeepsIInv

-----------------------------------------------------------------------------
(* The data plane's steps *)

(* What is sent is what the store holds. *)
LEMMA SentOK ==
  ASSUME IInv, NEW s, StreamOK(s), s.env # None
  PROVE  StreamOK(Sent(s))
<1>1. s \in StreamState /\ s.env \in Environments
  BY DEF StreamOK, StreamState
<1>2. CASE store[s.env] = None \/ AggregateVersion(store[s.env]) = s.last
  BY <1>2 DEF Sent
<1>3. CASE store[s.env] # None /\ AggregateVersion(store[s.env]) # s.last
  <2>. DEFINE rs == store[s.env]
              t == [s EXCEPT !.last = AggregateVersion(rs), !.put = rs]
  <2>1. rs \in Rulesets /\ Behind(rs, s.env)
    BY <1>1, <1>3 DEF IInv, TypeOK, HeldRowsBehind
  <2>2. AggregateVersion(rs) \in Nat
    BY <2>1, VersionIsNat
  <2>3. /\ t \in StreamState
        /\ t.env = s.env /\ t.put = rs /\ t.last = AggregateVersion(rs)
    BY <1>1, <2>1, <2>2 DEF StreamState
  <2>4. Sent(s) = t
    BY <1>3 DEF Sent
  <2>. QED BY <2>1, <2>3, <2>4 DEF StreamOK
<1>. QED BY <1>2, <1>3

LEMMA InstallKeepsIInv ==
  ASSUME IInv, NEW l \in Loaders, Install(l), UNCHANGED tableVars
  PROVE  IInv'
<1>. USE DEF IInv, tableVars
<1>1. PICK e \in Environments, rs \in Rulesets :
        /\ e = loader[l].env /\ rs = loader[l].rows /\ Behind(rs, e)
        /\ loader[l] \in LoaderState
  BY DEF Install, TypeOK, LoaderState, HeldRowsBehind
<1>2. NoRows \in Rulesets /\ Behind(NoRows, e)
  BY <1>1, NoRowsBehind DEF TypeOK
<1>3. /\ store' \in [Environments -> Rulesets \cup {None}]
      /\ \A f \in Environments : store'[f] = store[f] \/ (f = e /\ store'[f] = rs)
  <2>1. store \in [Environments -> Rulesets \cup {None}]
    BY DEF TypeOK
  <2>2. store' = [store EXCEPT ![e] = rs] \/ store' = store
    BY <1>1 DEF Install
  <2>. QED BY <1>1, <2>1, <2>2
<1>. DEFINE after == [loader[l] EXCEPT !.pc = "next", !.rows = NoRows]
<1>4. /\ after \in LoaderState
      /\ after.env = e /\ after.rows = NoRows /\ after.pc = "next"
  BY <1>1, <1>2 DEF LoaderState
<1>5. /\ loader' \in [Loaders -> LoaderState]
      /\ \A m \in Loaders : loader'[m] = IF m = l THEN after ELSE loader[m]
  <2>1. loader \in [Loaders -> LoaderState]
    BY DEF TypeOK
  <2>2. loader' = [loader EXCEPT ![l] = after]
    BY <2>1 DEF Install
  <2>. QED BY <1>4, <2>1, <2>2
<1>6. UNCHANGED <<process, listening, heard, stream, faults>>
  BY DEF Install
<1>7. TypeOK'
  BY LoadStepKeepsTypes DEF LoadStep
<1>8. RowsSane'
  BY DEF RowsSane
<1>9. HeldRowsBehind'
  <2>1. \A f \in Environments, more \in Rulesets : Behind(more, f) => Behind(more, f)'
    BY DEF Behind
  <2>2. ASSUME NEW f \in Environments, store'[f] # None
        PROVE  Behind(store[f], f)'
    <3>1. CASE store'[f] = store[f]
      BY <2>1, <2>2, <3>1 DEF TypeOK, HeldRowsBehind, Behind
    <3>2. CASE f = e /\ store'[f] = rs
      BY <1>1, <2>1, <3>2 DEF Behind
    <3>. QED BY <1>3, <3>1, <3>2
  <2>3. ASSUME NEW m \in Loaders, loader'[m].env # None
        PROVE  Behind(loader[m].rows, loader[m].env)'
    <3>1. CASE m = l
      <4>1. loader'[m].env = e /\ loader'[m].rows = NoRows
        BY <1>4, <1>5, <3>1
      <4>2. Behind(NoRows, e)'
        BY <1>1, <1>2, <2>1
      <4>. QED BY <4>1, <4>2 DEF Behind
    <3>2. CASE m # l
      BY <1>5, <2>1, <2>3, <3>2 DEF HeldRowsBehind, TypeOK, LoaderState, Behind
    <3>. QED BY <3>1, <3>2
  <2>4. ASSUME NEW c \in Clients, stream'[c].env # None
        PROVE  Behind(stream[c].put, stream[c].env)'
    BY <1>6, <2>1, <2>4 DEF HeldRowsBehind, Behind
  <2>. QED BY <2>2, <2>3, <2>4 DEF HeldRowsBehind
<1>10. LastIsPut'
  BY <1>6 DEF LastIsPut
<1>. QED BY <1>7, <1>8, <1>9, <1>10

(* LoadAll begins with nothing read. *)
LEMMA ListedOK ==
  ASSUME TableTypeOK, NEW envs \in SUBSET environments
  PROVE  LoaderOK([IdleLoader EXCEPT !.pc = "next", !.todo = envs])
BY NoRowIsRow DEF LoaderOK, IdleLoader, LoaderState, NoRows, Rulesets, TableTypeOK

LEMMA LoadStepKeepsIInv ==
  ASSUME IInv, NEW l \in Loaders, LoadStep(l), UNCHANGED tableVars
  PROVE  IInv'
<1>. USE DEF IInv
<1>0. /\ TableTypeOK /\ faults \in Nat /\ heard \in Nat
      /\ loader[l] \in LoaderState
      /\ process \in {"starting", "serving"} /\ listening \in {"no", "yes", "dead"}
  BY DEF TypeOK
<1>1. CASE ListEnvironments(l)
  <2>1. PICK envs \in SUBSET environments :
          /\ Fetched(envs, environments)
          /\ Goto(l, [IdleLoader EXCEPT !.pc = "next", !.todo = envs])
    BY <1>1 DEF ListEnvironments
  <2>. QED BY <1>0, <2>1, ListedOK, FetchedFaults, GotoKeepsIInv
<1>2. CASE l = "listen" /\ Notified
  <2>1. PICK envs \in SUBSET environments :
          /\ Fetched(envs, environments)
          /\ loader' = [loader EXCEPT !["listen"] =
                          [IdleLoader EXCEPT !.pc = "next", !.todo = envs]]
    BY <1>2 DEF Notified
  <2>2. /\ heard' \in Nat
        /\ UNCHANGED <<process, store, listening, stream>>
    BY <1>0, <1>2 DEF Notified
  <2>3. faults' \in Nat
    BY <1>0, <2>1, FetchedFaults
  <2>. QED BY <1>0, <1>2, <2>1, <2>2, <2>3, ListedOK, LoaderStepKeepsIInv
<1>3. CASE QueryFlags(l)
  <2>1. PICK e \in loader[l].todo, R \in SUBSET Flags :
          /\ Fetched(Committed(R, e), Committed(Flags, e))
          /\ IF Decodes(Committed(R, e))
             THEN Goto(l, [pc |-> "segments", todo |-> loader[l].todo \ {e},
                           env |-> e, rows |-> Committed(R, e)])
             ELSE Fail(l)
    BY <1>3 DEF QueryFlags
  <2>. DEFINE next == [pc |-> "segments", todo |-> loader[l].todo \ {e},
                       env |-> e, rows |-> Committed(R, e)]
  <2>2. e \in Environments /\ R \in SUBSET Resources
    BY <1>0 DEF LoaderState, Resources
  <2>3. Committed(R, e) \in Rulesets /\ Behind(Committed(R, e), e)
    BY <1>0, <2>2, CommittedType, CommittedBehind
  <2>4. LoaderOK(next)
    BY <1>0, <2>2, <2>3, DataPlaneAssumption DEF LoaderOK, LoaderState
  <2>5. faults' \in Nat
    BY <1>0, <2>1, FetchedFaults
  <2>6. CASE Decodes(Committed(R, e))
    BY <2>1, <2>4, <2>5, <2>6, GotoKeepsIInv
  <2>7. CASE ~Decodes(Committed(R, e))
    BY <2>1, <2>5, <2>7, FailKeepsIInv
  <2>. QED BY <2>6, <2>7
<1>4. CASE QuerySegments(l)
  <2>. DEFINE e == loader[l].env
              old == loader[l].rows
  <2>1. PICK R \in SUBSET Segments :
          /\ Fetched(Committed(R, e), Committed(Segments, e))
          /\ IF Decodes(Committed(R, e))
             THEN Goto(l, [loader[l] EXCEPT
                             !.pc = "install",
                             !.rows = [r \in Resources |->
                                         IF r \in Segments THEN Committed(R, e)[r]
                                                           ELSE @[r]]])
             ELSE Fail(l)
    BY <1>4 DEF QuerySegments
  <2>. DEFINE all == [r \in Resources |->
                        IF r \in Segments THEN Committed(R, e)[r] ELSE old[r]]
              next == [loader[l] EXCEPT !.pc = "install", !.rows = all]
  <2>2. /\ e \in Environments /\ R \in SUBSET Resources
        /\ old \in Rulesets /\ Behind(old, e)
    BY <1>0, <1>4 DEF QuerySegments, TypeOK, LoaderState, Resources, HeldRowsBehind
  <2>3. Committed(R, e) \in Rulesets /\ Behind(Committed(R, e), e)
    BY <1>0, <2>2, CommittedType, CommittedBehind
  <2>4. all \in Rulesets /\ Behind(all, e)
    BY <2>2, <2>3 DEF Rulesets, Behind
  <2>5. LoaderOK(next)
    <3>1. /\ next \in LoaderState
          /\ next.env = e /\ next.rows = all /\ next.pc = "install"
      BY <1>0, <2>4 DEF LoaderState
    <3>. QED BY <2>2, <2>4, <3>1, DataPlaneAssumption DEF LoaderOK
  <2>6. faults' \in Nat
    BY <1>0, <2>1, FetchedFaults
  <2>7. CASE Decodes(Committed(R, e))
    BY <2>1, <2>5, <2>6, <2>7, GotoKeepsIInv
  <2>8. CASE ~Decodes(Committed(R, e))
    BY <2>1, <2>6, <2>8, FailKeepsIInv
  <2>. QED BY <2>7, <2>8
<1>5. CASE Install(l)
  BY <1>5, InstallKeepsIInv
<1>6. CASE Return(l)
  <2>1. LoaderOK(IdleLoader)
    BY NoRowIsRow DEF LoaderOK, IdleLoader, LoaderState, NoRows, Rulesets
  <2>. QED BY <1>0, <1>6, <2>1, LoaderStepKeepsIInv DEF Return
<1>. QED BY <1>1, <1>2, <1>3, <1>4, <1>5, <1>6 DEF LoadStep

LEMMA ConnectKeepsIInv ==
  ASSUME IInv, NEW c \in Clients, NEW e \in Environments, Connect(c, e),
         UNCHANGED tableVars
  PROVE  IInv'
<1>. DEFINE s == [Closed EXCEPT !.env = e]
<1>1. NoRows \in Rulesets /\ Behind(NoRows, e)
  BY NoRowsBehind DEF IInv, TypeOK
<1>2. StreamOK(s) /\ s.env # None
  BY <1>1, DataPlaneAssumption DEF StreamOK, StreamState, Closed
<1>3. StreamOK(Sent(s))
  BY <1>2, SentOK
<1>. QED BY <1>3, StreamStepKeepsIInv DEF Connect

LEMMA TickKeepsIInv ==
  ASSUME IInv, NEW c \in Clients, Tick(c), UNCHANGED tableVars
  PROVE  IInv'
<1>1. StreamOK(stream[c]) /\ stream[c].env # None
  BY DEF IInv, TypeOK, HeldRowsBehind, LastIsPut, StreamOK, Tick
<1>2. StreamOK(Sent(stream[c]))
  BY <1>1, SentOK
<1>. QED BY <1>2, StreamStepKeepsIInv DEF Tick

LEMMA DisconnectKeepsIInv ==
  ASSUME IInv, NEW c \in Clients, Disconnect(c), UNCHANGED tableVars
  PROVE  IInv'
<1>1. StreamOK(Closed)
  BY NoRowIsRow DEF StreamOK, StreamState, Closed, NoRows, Rulesets
<1>. QED BY <1>1, StreamStepKeepsIInv DEF Disconnect

LEMMA DataPlaneKeepsIInv ==
  ASSUME IInv, DataPlaneNext, UNCHANGED tableVars
  PROVE  IInv'
<1>0. faults \in Nat /\ heard \in Nat /\ flags_changed \in Seq(Environments)
  BY DEF IInv, TypeOK, TableTypeOK
<1>1. CASE \E l \in Loaders : LoadStep(l)
  BY <1>1, LoadStepKeepsIInv
<1>2. CASE \E l \in Loaders : QueryError(l)
  BY <1>0, <1>2, FailKeepsIInv DEF QueryError
<1>3. CASE Listen
  BY <1>0, <1>3 DEF Listen, IInv, TypeOK, TableTypeOK, RowsSane, HeldRowsBehind,
                    LastIsPut, Behind, tableVars
<1>4. CASE ListenerDies
  BY <1>0, <1>4 DEF ListenerDies, IInv, TypeOK, TableTypeOK, RowsSane, HeldRowsBehind,
                    LastIsPut, Behind, tableVars
<1>5. CASE \E c \in Clients, e \in Environments : Connect(c, e)
  BY <1>5, ConnectKeepsIInv
<1>6. CASE \E c \in Clients : Tick(c)
  BY <1>6, TickKeepsIInv
<1>7. CASE \E c \in Clients : Disconnect(c)
  BY <1>7, DisconnectKeepsIInv
<1>8. CASE Crash
  BY <1>0, <1>8, RestartKeepsIInv DEF Crash
<1>. QED BY <1>1, <1>2, <1>3, <1>4, <1>5, <1>6, <1>7, <1>8 DEF DataPlaneNext

-----------------------------------------------------------------------------
(* Theorems *)

LEMMA NextIInv == IInv /\ [Next]_vars => IInv'
<1>1. ASSUME IInv, TableNext, UNCHANGED dataPlaneVars PROVE IInv'
  BY <1>1, TableKeepsIInv
<1>2. ASSUME IInv, DataPlaneNext, UNCHANGED tableVars PROVE IInv'
  BY <1>2, DataPlaneKeepsIInv
<1>3. ASSUME IInv, UNCHANGED vars PROVE IInv'
  BY <1>3 DEF vars, tableVars, dataPlaneVars, IInv, TypeOK, TableTypeOK, RowsSane,
              HeldRowsBehind, LastIsPut, Behind
<1>. QED BY <1>1, <1>2, <1>3 DEF Next

(* A held or pushed ruleset of the tables' version is the tables' ruleset. *)
LEMMA VersionsIdentify == IInv => VersionIdentifiesRuleset
<1>. SUFFICES ASSUME IInv PROVE VersionIdentifiesRuleset
  OBVIOUS
<1>0. TableTypeOK /\ RowsSane
  BY DEF IInv, TypeOK
<1>1. ASSUME NEW e \in Environments, store[e] # None,
             AggregateVersion(store[e]) = AggregateVersion(Current(e))
      PROVE  store[e] = Current(e)
  <2>1. store[e] \in Rulesets /\ Behind(store[e], e)
    BY <1>1 DEF IInv, TypeOK, HeldRowsBehind
  <2>. QED BY <1>0, <1>1, <2>1, SameVersionSameRuleset
<1>2. ASSUME NEW c \in Clients, stream[c].env # None,
             stream[c].last = AggregateVersion(Current(stream[c].env))
      PROVE  stream[c].put = Current(stream[c].env)
  <2>. DEFINE e == stream[c].env
              put == stream[c].put
  <2>1. e \in Environments /\ put \in Rulesets /\ Behind(put, e)
    BY <1>2 DEF IInv, TypeOK, StreamState, HeldRowsBehind
  <2>2. Current(e) \in Rulesets /\ Behind(Current(e), e)
    BY <1>0, <2>1, CommittedType, CommittedBehind DEF Current
  <2>3. AggregateVersion(Current(e)) \in Nat
    BY <2>2, VersionIsNat
  <2>4. stream[c].last = AggregateVersion(put)
    BY <1>2, <2>3 DEF IInv, LastIsPut
  <2>. QED BY <1>0, <1>2, <2>1, <2>4, SameVersionSameRuleset
<1>. QED BY <1>1, <1>2 DEF VersionIdentifiesRuleset

(* The inductive invariant *)
THEOREM Invariance == Spec => []IInv
<1>1. Init => IInv
  BY InitIInv
<1>2. IInv /\ [Next]_vars => IInv'
  BY NextIInv
<1>. QED BY <1>1, <1>2, PTL DEF Spec

(* Every variable keeps its type. *)
THEOREM TypeCorrect == Spec => []TypeOK
<1>1. IInv => TypeOK
  BY DEF IInv
<1>. QED BY <1>1, Invariance, PTL

(***************************************************************************)
(* Whatever the threads interleave, whatever fails: a held, assembled or   *)
(* pushed ruleset lags the tables of its environment, row by row.          *)
(***************************************************************************)
THEOREM RulesetsLag == Spec => []HeldRowsBehind
<1>1. IInv => HeldRowsBehind
  BY DEF IInv
<1>. QED BY <1>1, Invariance, PTL

(***************************************************************************)
(* Skipping a ruleset because its aggregate version is the held one        *)
(* (store.go:73, server.go:93) never hides the tables' ruleset.            *)
(***************************************************************************)
THEOREM EqualVersionsMayBeSkipped == Spec => []VersionIdentifiesRuleset
BY VersionsIdentify, Invariance, PTL
=============================================================================
