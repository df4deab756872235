-------------------------- MODULE RulesetCacheProofs --------------------------
(***************************************************************************)
(* Proofs that the data plane keeps RulesetCache's promise and that a load *)
(* nothing interferes with brings the store up to date, for any sets of    *)
(* flags, segments, environments, contents and clients, and any bounds.    *)
(***************************************************************************)
EXTENDS RulesetHistory, DataPlaneProofs

(* The history ends with the present. *)
PastOK ==
  /\ past \in [Environments -> Seq(Rulesets)]
  /\ \A e \in Environments : past[e] # <<>> /\ past[e][Len(past[e])] = Current(e)

(* A load in state t has read what its queries can have read. *)
Known(t) ==
  /\ t.pc = "segments" =>
       \E i \in 1..Len(past[t.env]) : Cache!Read(Flags, past[t.env][i], t.rows)
  /\ t.pc = "install" => Cache!Readable(t.env, t.rows)

ReadsKnown == PastOK /\ \A l \in Loaders : Known(loader[l])

(* A load in state t has caught up with e, or will before it returns. *)
Covers(t, e) ==
  \/ UpToDate(e)
  \/ e \in t.todo
  \/ e = t.env /\ t.pc \in {"segments", "install"}

CleanCovers ==
  \A l \in clean : /\ l \in Loaders
                   /\ NothingStale
                   /\ \A e \in environments : Covers(loader[l], e)

-----------------------------------------------------------------------------
(* The history *)

(* It adds nothing to what the process does. *)
LEMMA HistoryOnly == HistorySpec => Spec
<1>1. HistoryInit => Init
  BY DEF HistoryInit
<1>2. [HistoryNext]_historyVars => [Next]_vars
  BY DEF HistoryNext, historyVars
<1>. QED BY <1>1, <1>2, PTL DEF HistorySpec, Spec

(* What has been stays, the present is added. *)
LEMMA PastGrows ==
  ASSUME TypeOK', PastOK, Remember
  PROVE  /\ PastOK'
         /\ \A e \in Environments :
              /\ Len(past[e]) \in Nat /\ Len(past[e]) >= 1 /\ Len(past[e]) <= Len(past'[e])
              /\ \A i \in 1..Len(past[e]) : past'[e][i] = past[e][i]
              /\ past'[e] = past[e] \/ past'[e] = Append(past[e], past'[e][Len(past'[e])])
<1>1. ASSUME NEW e \in Environments
      PROVE  /\ past'[e] \in Seq(Rulesets)
             /\ past'[e] # <<>> /\ past'[e][Len(past'[e])] = Current(e)'
             /\ Len(past[e]) \in Nat /\ Len(past[e]) >= 1 /\ Len(past[e]) <= Len(past'[e])
             /\ \A i \in 1..Len(past[e]) : past'[e][i] = past[e][i]
             /\ past'[e] = past[e] \/ past'[e] = Append(past[e], past'[e][Len(past'[e])])
  <2>1. past[e] \in Seq(Rulesets) /\ past[e] # <<>> /\ past[e][Len(past[e])] = Current(e)
    BY DEF PastOK
  <2>2. Current(e)' \in Rulesets
    BY NoRowIsRow DEF TypeOK, TableTypeOK, Keys, Current, Committed, Rulesets
  <2>3. CASE Current(e)' = Current(e)
    <3>1. past'[e] = past[e]
      BY <2>3 DEF Remember
    <3>. QED BY <2>1, <2>3, <3>1
  <2>4. CASE Current(e)' # Current(e)
    <3>1. past'[e] = Append(past[e], Current(e)')
      BY <2>4 DEF Remember
    <3>. QED BY <2>1, <2>2, <3>1
  <2>. QED BY <2>3, <2>4
<1>2. past' \in [Environments -> Seq(Rulesets)]
  BY <1>1 DEF Remember
<1>. QED BY <1>1, <1>2 DEF PastOK

(* A step that leaves the tables alone adds nothing to it. *)
LEMMA PastStays ==
  ASSUME PastOK, Remember, UNCHANGED tableVars
  PROVE  past' = past
<1>1. \A e \in Environments : Current(e)' = Current(e)
  BY DEF Current, Committed, tableVars
<1>. QED BY <1>1 DEF PastOK, Remember

-----------------------------------------------------------------------------
(* What has been read *)

FaultsGrow == faults' \in {faults, faults + 1}

(* The reads of a query stay what they were. *)
LEMMA ReadStays ==
  ASSUME faults \in Nat, FaultsGrow, NEW R, NEW state, NEW rs, Cache!Read(R, state, rs)
  PROVE  Cache!Read(R, state, rs)'
BY DEF Cache!Read, FaultsGrow

LEMMA KnownStays ==
  ASSUME TypeOK, TypeOK', PastOK, Remember, FaultsGrow, NEW t \in LoaderState, Known(t),
         t.pc \in {"segments", "install"} => t.env # None
  PROVE  Known(t)'
<1>0. faults \in Nat
  BY DEF TypeOK
<1>1. ASSUME t.pc = "segments"
      PROVE  \E i \in 1..Len(past'[t.env]) : Cache!Read(Flags, past[t.env][i], t.rows)'
  <2>1. t.env \in Environments
    BY <1>1 DEF LoaderState
  <2>2. PICK i \in 1..Len(past[t.env]) : Cache!Read(Flags, past[t.env][i], t.rows)
    BY <1>1 DEF Known
  <2>3. i \in 1..Len(past'[t.env]) /\ past'[t.env][i] = past[t.env][i]
    BY <2>1, PastGrows
  <2>. QED BY <1>0, <2>2, <2>3 DEF Cache!Read, FaultsGrow
<1>2. ASSUME t.pc = "install"
      PROVE  Cache!Readable(t.env, t.rows)'
  <2>1. t.env \in Environments
    BY <1>2 DEF LoaderState
  <2>2. PICK i \in 1..Len(past[t.env]), j \in 1..Len(past[t.env]) :
          /\ i <= j
          /\ Cache!Read(Flags, past[t.env][i], t.rows)
          /\ Cache!Read(Segments, past[t.env][j], t.rows)
    BY <1>2 DEF Known, Cache!Readable
  <2>3. /\ i \in 1..Len(past'[t.env]) /\ past'[t.env][i] = past[t.env][i]
        /\ j \in 1..Len(past'[t.env]) /\ past'[t.env][j] = past[t.env][j]
    BY <2>1, PastGrows
  <2>4. /\ Cache!Read(Flags, past[t.env][i], t.rows)'
        /\ Cache!Read(Segments, past[t.env][j], t.rows)'
    BY <1>0, <2>2, <2>3 DEF Cache!Read, FaultsGrow
  <2>. QED BY <2>2, <2>3, <2>4 DEF Cache!Readable
<1>. QED BY <1>1, <1>2 DEF Known

(* A query for the rows R of environment e reads the present state. *)
LEMMA QueryReads ==
  ASSUME TypeOK, PastOK, past' = past, UNCHANGED tableVars, NEW e \in Environments,
         NEW all \in SUBSET Resources, NEW R \in SUBSET all,
         Fetched(Committed(R, e), Committed(all, e))
  PROVE  Cache!Read(all, past[e][Len(past[e])], Committed(R, e))'
<1>1. past'[e][Len(past'[e])] = Current(e)
  BY DEF PastOK
<1>2. faults \in Nat
  BY DEF TypeOK
<1>3. ASSUME NEW r \in all
      PROVE  /\ Committed(R, e)[r] = Current(e)[r] \/ Committed(R, e)[r] = NoRow
             /\ Committed(all, e)[r] = Current(e)[r]
  BY DEF Committed, Current
<1>4. Committed(R, e)' = Committed(R, e)
  BY DEF Committed, tableVars
<1>. QED BY <1>1, <1>2, <1>3, <1>4 DEF Fetched, Cache!Read

-----------------------------------------------------------------------------
(* The steps of the data plane as steps of the cache *)

(* The load of l goes on in a state in which it knows what it has read. *)
LEMMA LoaderKnown ==
  ASSUME TypeOK, TypeOK', ReadsKnown, Remember, UNCHANGED tableVars, FaultsGrow,
         NEW l \in Loaders, NEW state,
         loader' = [loader EXCEPT ![l] = state], Known(state)'
  PROVE  ReadsKnown'
<1>1. PastOK'
  BY PastGrows DEF ReadsKnown
<1>2. ASSUME NEW m \in Loaders
      PROVE  Known(loader[m])'
  <2>1. CASE m = l
    <3>1. loader'[m] = state
      BY <2>1 DEF TypeOK
    <3>. QED BY <3>1 DEF Known
  <2>2. CASE m # l
    <3>1. PICK t \in LoaderState : t = loader[m]
      BY DEF TypeOK
    <3>2. Known(t) /\ (t.pc \in {"segments", "install"} => t.env # None)
      BY <3>1 DEF ReadsKnown, TypeOK
    <3>3. Known(t)'
      BY <3>2, KnownStays DEF ReadsKnown
    <3>4. loader'[m] = t
      BY <2>2, <3>1 DEF TypeOK
    <3>. QED BY <3>3, <3>4 DEF Known
  <2>. QED BY <2>1, <2>2
<1>. QED BY <1>1, <1>2 DEF ReadsKnown

(* What neither stores nor sends is no step of the cache, or its Fault. *)
LEMMA Unseen ==
  ASSUME UNCHANGED <<past, store, stream>>, FaultsGrow
  PROVE  [Cache!CacheNext]_Cache!cacheVars
<1>1. Deliveries' = Deliveries
  BY DEF Deliveries
<1>. QED BY <1>1 DEF FaultsGrow, Cache!cacheVars, Cache!CacheNext, Cache!Fault

LEMMA IdleKnown == Known(IdleLoader)'
BY DEF Known, IdleLoader

LEMMA RestartLoses ==
  ASSUME TypeOK', ReadsKnown, Remember, UNCHANGED past, Restart, FaultsGrow
  PROVE  ReadsKnown' /\ [Cache!CacheNext]_Cache!cacheVars
<1>1. Deliveries' = Cache!NobodyThere /\ store' = Cache!NotLoaded
  BY DEF Restart, Deliveries, Closed, Cache!NobodyThere, Cache!NotLoaded
<1>2. [Cache!CacheNext]_Cache!cacheVars
  BY <1>1 DEF FaultsGrow, Cache!CacheNext, Cache!Lose
<1>3. PastOK'
  BY PastGrows DEF ReadsKnown
<1>4. \A l \in Loaders : loader'[l] = IdleLoader
  BY DEF Restart
<1>5. \A l \in Loaders : Known(loader[l])'
  BY <1>4 DEF Known, IdleLoader
<1>. QED BY <1>2, <1>3, <1>5 DEF ReadsKnown

LEMMA FailSeen ==
  ASSUME TypeOK, TypeOK', ReadsKnown, Remember, UNCHANGED <<past, tableVars>>, FaultsGrow,
         NEW l \in Loaders, Fail(l)
  PROVE  ReadsKnown' /\ [Cache!CacheNext]_Cache!cacheVars
<1>1. CASE l = "main"
  BY <1>1, RestartLoses DEF Fail
<1>2. CASE l # "main"
  <2>1. /\ loader' = [loader EXCEPT ![l] = IdleLoader]
        /\ UNCHANGED <<store, stream>>
    BY <1>2 DEF Fail
  <2>. QED BY <2>1, IdleKnown, LoaderKnown, Unseen
<1>. QED BY <1>1, <1>2

LEMMA GotoSeen ==
  ASSUME TypeOK, TypeOK', ReadsKnown, Remember, UNCHANGED <<past, tableVars>>, FaultsGrow,
         NEW l \in Loaders, NEW state, Goto(l, state), Known(state)'
  PROVE  ReadsKnown' /\ [Cache!CacheNext]_Cache!cacheVars
<1>1. /\ loader' = [loader EXCEPT ![l] = state]
      /\ UNCHANGED <<store, stream>>
  BY DEF Goto
<1>. QED BY <1>1, LoaderKnown, Unseen

LEMMA FetchedGrows ==
  ASSUME NEW R, NEW all, Fetched(R, all)
  PROVE  FaultsGrow
BY DEF Fetched, FaultsGrow

LEMMA QueryFlagsSeen ==
  ASSUME TypeOK, TypeOK', ReadsKnown, Remember, UNCHANGED <<past, tableVars>>,
         NEW l \in Loaders, QueryFlags(l)
  PROVE  ReadsKnown' /\ [Cache!CacheNext]_Cache!cacheVars
<1>1. PICK e \in loader[l].todo, R \in SUBSET Flags :
        /\ Fetched(Committed(R, e), Committed(Flags, e))
        /\ IF Decodes(Committed(R, e))
           THEN Goto(l, [pc |-> "segments", todo |-> loader[l].todo \ {e},
                         env |-> e, rows |-> Committed(R, e)])
           ELSE Fail(l)
  BY DEF QueryFlags
<1>2. FaultsGrow
  BY <1>1, FetchedGrows
<1>3. CASE ~Decodes(Committed(R, e))
  BY <1>1, <1>2, <1>3, FailSeen
<1>4. CASE Decodes(Committed(R, e))
  <2>1. e \in Environments /\ Flags \in SUBSET Resources
    BY DEF TypeOK, LoaderState, Resources
  <2>2. PICK rows : rows = Committed(R, e)
    OBVIOUS
  <2>3. PICK t : t = [pc |-> "segments", todo |-> loader[l].todo \ {e}, env |-> e,
                      rows |-> rows]
    OBVIOUS
  <2>4. Cache!Read(Flags, past[e][Len(past[e])], Committed(R, e))'
    BY <1>1, <2>1, QueryReads DEF ReadsKnown
  <2>5. Committed(R, e)' = rows
    BY <2>2 DEF Committed, tableVars
  <2>6. Len(past'[e]) \in 1..Len(past'[e])
    BY <2>1, PastGrows DEF ReadsKnown
  <2>7. Known(t)'
    BY <2>3, <2>4, <2>5, <2>6 DEF Known, Cache!Read
  <2>. QED BY <1>1, <1>2, <1>4, <2>2, <2>3, <2>7, GotoSeen
<1>. QED BY <1>3, <1>4

LEMMA QuerySegmentsSeen ==
  ASSUME TypeOK, TypeOK', ReadsKnown, Remember, UNCHANGED <<past, tableVars>>,
         NEW l \in Loaders, QuerySegments(l)
  PROVE  ReadsKnown' /\ [Cache!CacheNext]_Cache!cacheVars
<1>0. PICK e, old : e = loader[l].env /\ old = loader[l].rows
  OBVIOUS
<1>1. PICK R \in SUBSET Segments :
        /\ Fetched(Committed(R, e), Committed(Segments, e))
        /\ IF Decodes(Committed(R, e))
           THEN Goto(l, [loader[l] EXCEPT
                           !.pc = "install",
                           !.rows = [r \in Resources |->
                                       IF r \in Segments THEN Committed(R, e)[r] ELSE old[r]]])
           ELSE Fail(l)
  BY <1>0 DEF QuerySegments
<1>2. FaultsGrow
  BY <1>1, FetchedGrows
<1>3. CASE ~Decodes(Committed(R, e))
  BY <1>1, <1>2, <1>3, FailSeen
<1>4. CASE Decodes(Committed(R, e))
  <2>1. /\ e \in Environments /\ old \in Rulesets /\ loader[l] \in LoaderState
        /\ Segments \in SUBSET Resources /\ faults \in Nat
    BY <1>0 DEF TypeOK, LoaderState, Resources, QuerySegments
  <2>2. PICK rows : rows = Committed(R, e)
    OBVIOUS
  <2>3. PICK all : all = [r \in Resources |-> IF r \in Segments THEN rows[r] ELSE old[r]]
    OBVIOUS
  <2>4. PICK t : t = [loader[l] EXCEPT !.pc = "install", !.rows = all]
    OBVIOUS
  <2>5. t.pc = "install" /\ t.env = e /\ t.rows = all
    BY <1>0, <2>1, <2>4 DEF LoaderState
  <2>6. PICK i \in 1..Len(past[e]) : Cache!Read(Flags, past[e][i], old)
    BY <1>0 DEF ReadsKnown, Known, QuerySegments
  <2>7. Cache!Read(Flags, past[e][i], all)'
    <3>1. \A r \in Flags : all[r] = old[r]
      BY <2>3, TableAssumption DEF Resources
    <3>. QED BY <1>2, <2>1, <2>6, <3>1 DEF Cache!Read, FaultsGrow
  <2>8. Cache!Read(Segments, past[e][Len(past[e])], all)'
    <3>1. Cache!Read(Segments, past[e][Len(past[e])], Committed(R, e))'
      BY <1>1, <2>1, QueryReads DEF ReadsKnown
    <3>2. Committed(R, e)' = rows
      BY <2>2 DEF Committed, tableVars
    <3>3. \A r \in Segments : all[r] = rows[r]
      BY <2>3 DEF Resources
    <3>. QED BY <3>1, <3>2, <3>3 DEF Cache!Read
  <2>9. /\ Len(past[e]) \in 1..Len(past[e]) /\ i <= Len(past[e])
    BY <2>1, <2>6, PastGrows DEF ReadsKnown
  <2>10. Cache!Readable(e, all)'
    BY <2>6, <2>7, <2>8, <2>9 DEF Cache!Readable
  <2>11. Known(t)'
    BY <2>5, <2>10 DEF Known
  <2>. QED BY <1>1, <1>2, <1>4, <2>2, <2>3, <2>4, <2>11, GotoSeen
<1>. QED BY <1>3, <1>4

LEMMA InstallSeen ==
  ASSUME TypeOK, TypeOK', ReadsKnown, Remember, UNCHANGED <<past, tableVars>>,
         NEW l \in Loaders, Install(l)
  PROVE  ReadsKnown' /\ [Cache!CacheNext]_Cache!cacheVars
<1>1. PICK e, rs : e = loader[l].env /\ rs = loader[l].rows
  OBVIOUS
<1>2. e \in Environments /\ rs \in Rulesets /\ rs # None /\ loader[l] \in LoaderState
  BY <1>1, DataPlaneAssumption DEF TypeOK, LoaderState, Install
<1>3. FaultsGrow /\ Cache!Readable(e, rs) /\ Deliveries' = Deliveries
  BY <1>1 DEF FaultsGrow, ReadsKnown, Known, Install, Deliveries
<1>4. [Cache!CacheNext]_Cache!cacheVars
  <2>1. CASE ~IsNew(e, rs)
    BY <1>1, <1>3, <2>1 DEF Install, Cache!cacheVars
  <2>2. CASE IsNew(e, rs)
    <3>1. store' = [store EXCEPT ![e] = rs]
      BY <1>1, <2>2 DEF Install
    <3>2. store'[e] = rs
      BY <1>2, <3>1 DEF TypeOK
    <3>3. Cache!Hold(e)
      BY <1>2, <1>3, <3>1, <3>2 DEF Cache!Hold, Install
    <3>. QED BY <1>2, <3>3 DEF Cache!CacheNext
  <2>. QED BY <2>1, <2>2
<1>5. ReadsKnown'
  <2>1. PICK t : t = [loader[l] EXCEPT !.pc = "next", !.rows = NoRows]
    OBVIOUS
  <2>2. t.pc = "next"
    BY <1>2, <2>1 DEF LoaderState
  <2>3. loader' = [loader EXCEPT ![l] = t]
    BY <2>1 DEF Install, TypeOK
  <2>4. Known(t)'
    BY <2>2 DEF Known
  <2>. QED BY <1>3, <2>3, <2>4, LoaderKnown
<1>. QED BY <1>4, <1>5

(* LoadAll begins, by a tick or a notification, or returns. *)
LEMMA BeginsAndReturnsSeen ==
  ASSUME TypeOK, TypeOK', ReadsKnown, Remember, UNCHANGED <<past, tableVars>>,
         NEW l \in Loaders, ListEnvironments(l) \/ (l = "listen" /\ Notified) \/ Return(l)
  PROVE  ReadsKnown' /\ [Cache!CacheNext]_Cache!cacheVars
<1>0. ASSUME NEW envs
      PROVE  Known([IdleLoader EXCEPT !.pc = "next", !.todo = envs])'
  BY DEF Known, IdleLoader
<1>1. CASE ListEnvironments(l)
  <2>1. PICK envs \in SUBSET environments :
          /\ Fetched(envs, environments)
          /\ Goto(l, [IdleLoader EXCEPT !.pc = "next", !.todo = envs])
    BY <1>1 DEF ListEnvironments
  <2>. QED BY <1>0, <2>1, FetchedGrows, GotoSeen
<1>2. CASE l = "listen" /\ Notified
  <2>1. PICK envs \in SUBSET environments :
          /\ Fetched(envs, environments)
          /\ loader' = [loader EXCEPT !["listen"] =
                          [IdleLoader EXCEPT !.pc = "next", !.todo = envs]]
    BY <1>2 DEF Notified
  <2>2. FaultsGrow /\ UNCHANGED <<store, stream>>
    BY <1>2, <2>1, FetchedGrows DEF Notified
  <2>. QED BY <1>0, <1>2, <2>1, <2>2, LoaderKnown, Unseen
<1>3. CASE Return(l)
  <2>1. /\ loader' = [loader EXCEPT ![l] = IdleLoader]
        /\ FaultsGrow /\ UNCHANGED <<store, stream>>
    BY <1>3 DEF Return, FaultsGrow
  <2>. QED BY <2>1, IdleKnown, LoaderKnown, Unseen
<1>. QED BY <1>1, <1>2, <1>3

(* What moves no load *)
LEMMA LoadersStay ==
  ASSUME TypeOK, TypeOK', ReadsKnown, Remember, UNCHANGED loader, FaultsGrow
  PROVE  ReadsKnown'
<1>1. PastOK'
  BY PastGrows DEF ReadsKnown
<1>2. ASSUME NEW m \in Loaders
      PROVE  Known(loader[m])'
  <2>1. PICK t \in LoaderState : t = loader[m]
    BY DEF TypeOK
  <2>2. Known(t) /\ (t.pc \in {"segments", "install"} => t.env # None)
    BY <2>1 DEF ReadsKnown, TypeOK
  <2>3. Known(t)'
    BY <2>2, KnownStays DEF ReadsKnown
  <2>. QED BY <2>1, <2>3 DEF Known
<1>. QED BY <1>1, <1>2 DEF ReadsKnown

(* What the stream of a client in state s has delivered *)
Delivered(s) == [env |-> s.env, put |-> IF s.last = -1 THEN None ELSE s.put]

LEMMA StreamMoves ==
  ASSUME TypeOK, NEW c \in Clients, NEW s, stream' = [stream EXCEPT ![c] = s]
  PROVE  Deliveries' = [Deliveries EXCEPT ![c] = Delivered(s)]
<1>1. \A d \in Clients : stream'[d] = IF d = c THEN s ELSE stream[d]
  BY DEF TypeOK
<1>2. \A d \in Clients : Deliveries'[d] = IF d = c THEN Delivered(s) ELSE Deliveries[d]
  BY <1>1 DEF Deliveries, Delivered
<1>. QED BY <1>2 DEF Deliveries

LEMMA StreamsSeen ==
  ASSUME TypeOK, TypeOK', ReadsKnown, Remember, UNCHANGED <<past, tableVars>>, NEW c \in Clients,
         (\E e \in Environments : Connect(c, e)) \/ Tick(c) \/ Disconnect(c)
  PROVE  ReadsKnown' /\ [Cache!CacheNext]_Cache!cacheVars
<1>0. /\ UNCHANGED <<past, store, faults, loader>>
      /\ FaultsGrow
  BY DEF Connect, Tick, Disconnect, FaultsGrow
<1>1. ReadsKnown'
  BY <1>0, LoadersStay
<1>2. Deliveries[c] = Delivered(stream[c])
  BY DEF Deliveries, Delivered
<1>3. ASSUME NEW e \in Environments, store[e] # None
      PROVE  AggregateVersion(store[e]) \in Nat
  BY <1>3, VersionIsNat DEF TypeOK
<1>4. ASSUME NEW e \in Environments, Connect(c, e)
      PROVE  Cache!Attach(c, e)
  <2>1. PICK s : s = [Closed EXCEPT !.env = e]
    OBVIOUS
  <2>2. s.env = e /\ s.last = -1
    BY <2>1 DEF Closed
  <2>3. Delivered(Sent(s)) = [env |-> e, put |-> store[e]]
    BY <1>3, <2>1, <2>2 DEF Delivered, Sent, Closed
  <2>4. Deliveries' = [Deliveries EXCEPT ![c] = Delivered(Sent(s))]
    BY <1>4, <2>1, StreamMoves DEF Connect
  <2>5. Deliveries[c].env = None
    BY <1>2, <1>4 DEF Connect, Delivered
  <2>. QED BY <1>0, <2>3, <2>4, <2>5 DEF Cache!Attach
<1>5. ASSUME Tick(c)
      PROVE  Cache!Push(c) \/ UNCHANGED Cache!cacheVars
  <2>1. PICK s : s = stream[c]
    OBVIOUS
  <2>2. s.env \in Environments /\ s \in StreamState
    BY <1>5, <2>1 DEF Tick, TypeOK, StreamState
  <2>3. Deliveries' = [Deliveries EXCEPT ![c] = Delivered(Sent(s))]
    BY <1>5, <2>1, StreamMoves DEF Tick
  <2>4. CASE Sent(s) = s
    BY <1>0, <1>2, <2>1, <2>3, <2>4 DEF Deliveries, Cache!cacheVars
  <2>5. CASE store[s.env] # None /\ Sent(s) # s
    <3>1. PICK rs : rs = store[s.env]
      OBVIOUS
    <3>2. Sent(s) = [s EXCEPT !.last = AggregateVersion(rs), !.put = rs]
      BY <2>5, <3>1 DEF Sent
    <3>3. AggregateVersion(rs) # -1
      BY <1>3, <2>2, <2>5, <3>1
    <3>4. Delivered(Sent(s)) = [env |-> s.env, put |-> rs]
      BY <2>2, <3>2, <3>3 DEF Delivered, StreamState
    <3>5. /\ Deliveries[c].env = s.env
          /\ [Deliveries[c] EXCEPT !.put = rs] = [env |-> s.env, put |-> rs]
      BY <1>2, <2>1 DEF Delivered
    <3>6. Deliveries' = [Deliveries EXCEPT ![c].put = rs]
      BY <2>3, <3>4, <3>5 DEF Deliveries
    <3>. QED BY <1>0, <2>2, <3>1, <3>5, <3>6, DataPlaneAssumption DEF Cache!Push
  <2>. QED BY <2>4, <2>5 DEF Sent
<1>6. ASSUME Disconnect(c)
      PROVE  Cache!Detach(c)
  <2>1. Deliveries' = [Deliveries EXCEPT ![c] = Delivered(Closed)]
    BY <1>6, StreamMoves DEF Disconnect
  <2>. QED BY <1>0, <2>1 DEF Cache!Detach, Delivered, Closed
<1>. QED BY <1>1, <1>4, <1>5, <1>6 DEF Cache!CacheNext

LEMMA DataPlaneSeen ==
  ASSUME TypeOK, TypeOK', ReadsKnown, Remember, DataPlaneNext, UNCHANGED tableVars
  PROVE  ReadsKnown' /\ [Cache!CacheNext]_Cache!cacheVars
<1>0. UNCHANGED past
  BY PastStays DEF ReadsKnown
<1>1. ASSUME NEW l \in Loaders, LoadStep(l)
      PROVE  ReadsKnown' /\ [Cache!CacheNext]_Cache!cacheVars
  BY <1>0, <1>1, QueryFlagsSeen, QuerySegmentsSeen, InstallSeen, BeginsAndReturnsSeen
     DEF LoadStep
<1>2. ASSUME NEW l \in Loaders, QueryError(l)
      PROVE  ReadsKnown' /\ [Cache!CacheNext]_Cache!cacheVars
  BY <1>0, <1>2, FailSeen DEF QueryError, FaultsGrow
<1>3. CASE Listen \/ ListenerDies
  <2>1. FaultsGrow /\ UNCHANGED <<loader, store, stream>>
    BY <1>3 DEF Listen, ListenerDies, FaultsGrow
  <2>. QED BY <1>0, <2>1, LoadersStay, Unseen
<1>4. CASE \E c \in Clients : \/ \E e \in Environments : Connect(c, e)
                              \/ Tick(c) \/ Disconnect(c)
  BY <1>0, <1>4, StreamsSeen
<1>5. CASE Crash
  BY <1>0, <1>5, RestartLoses DEF Crash, FaultsGrow
<1>. QED BY <1>1, <1>2, <1>3, <1>4, <1>5 DEF DataPlaneNext

LEMMA TablesSeen ==
  ASSUME TypeOK, TypeOK', ReadsKnown, Remember, UNCHANGED dataPlaneVars
  PROVE  ReadsKnown' /\ [Cache!CacheNext]_Cache!cacheVars
<1>1. FaultsGrow /\ UNCHANGED <<loader, store, stream, faults>> /\ Deliveries' = Deliveries
  BY DEF dataPlaneVars, FaultsGrow, Deliveries
<1>2. ReadsKnown'
  BY <1>1, LoadersStay
<1>3. Cache!TablesChange
  BY <1>1, PastGrows DEF ReadsKnown, Remember, Cache!TablesChange
<1>. QED BY <1>2, <1>3 DEF Cache!CacheNext

(* Every step of the process is one of the cache, or none. *)
LEMMA HistoryStep ==
  ASSUME IInv, ReadsKnown, [HistoryNext]_historyVars
  PROVE  IInv' /\ ReadsKnown' /\ [Cache!CacheNext]_Cache!cacheVars
<1>1. [Next]_vars
  BY DEF HistoryNext, historyVars
<1>2. IInv' /\ TypeOK /\ TypeOK'
  BY <1>1, NextIInv DEF IInv
<1>3. CASE HistoryNext
  BY <1>2, <1>3, DataPlaneSeen, TablesSeen DEF HistoryNext, Next
<1>4. CASE UNCHANGED historyVars
  <2>1. UNCHANGED <<configs, past, store, stream, loader, faults>>
    BY <1>4 DEF historyVars, vars, tableVars, dataPlaneVars
  <2>. QED BY <1>2, <2>1
           DEF ReadsKnown, PastOK, Known, Current, Committed, Cache!Readable, Cache!Read,
               Cache!cacheVars, Deliveries
<1>. QED BY <1>2, <1>3, <1>4

LEMMA HistoryStart ==
  HistoryInit => IInv /\ ReadsKnown /\ Cache!CacheInit
<1>. SUFFICES ASSUME HistoryInit PROVE IInv /\ ReadsKnown /\ Cache!CacheInit
  OBVIOUS
<1>1. IInv
  BY InitIInv DEF HistoryInit
<1>2. \A e \in Environments : Current(e) = [r \in Flags \cup Segments |-> NoRow]
  BY DEF HistoryInit, Init, TableInit, Current, Committed, Resources, Keys
<1>3. Deliveries = Cache!NobodyThere
  BY DEF HistoryInit, Init, Deliveries, Closed, Cache!NobodyThere
<1>4. Cache!CacheInit
  BY <1>2, <1>3 DEF HistoryInit, Init, Cache!CacheInit, Cache!NotLoaded
<1>5. PastOK
  <2>1. \A e \in Environments : Current(e) \in Rulesets
    BY <1>1, CommittedType DEF IInv, TypeOK, Current
  <2>. QED BY <2>1 DEF HistoryInit, PastOK
<1>6. \A l \in Loaders : Known(loader[l])
  BY DEF HistoryInit, Init, Known, IdleLoader
<1>. QED BY <1>1, <1>4, <1>5, <1>6 DEF ReadsKnown

(***************************************************************************)
(* Whatever the three loading threads, the streams, the handlers' commits  *)
(* and the faults interleave, what the process holds joins two states its  *)
(* tables were in, in the order of its two queries, with rows missing only *)
(* after a fault, and what it sends is what it holds (store.go:71-77,      *)
(* 82-170, server.go:91-108).                                              *)
(***************************************************************************)
THEOREM ImplementsCache == HistorySpec => KeepsCachePromise
<1>1. IInv /\ ReadsKnown /\ [HistoryNext]_historyVars
        => IInv' /\ ReadsKnown' /\ [Cache!CacheNext]_Cache!cacheVars
  BY HistoryStep
<1>. QED BY <1>1, HistoryStart, PTL DEF HistorySpec, KeepsCachePromise, Cache!CacheSpec

-----------------------------------------------------------------------------
(* A load that nothing interferes with *)

(* l's load goes on from state t while nothing changes or fails: then the  *)
(* other loads, and what they cover, stay as they are.                     *)
LEMMA CalmLoad ==
  ASSUME TypeOK, UNCHANGED <<environments, configs>>, NothingStale, CleanCovers, Follow,
         NEW l \in Loaders, NEW t, loader' = [loader EXCEPT ![l] = t],
         InFlightCurrent(t),
         \A e \in Environments : UpToDate(e) => UpToDate(e)',
         (t.pc # "idle" /\ (l \in clean \/ loader[l].pc = "idle"))
           => \A e \in environments : Covers(t, e)'
  PROVE  CleanCovers'
<1>1. \A m \in Loaders : loader'[m] = IF m = l THEN t ELSE loader[m]
  BY DEF TypeOK
<1>2. \A e : Current(e)' = Current(e) /\ Committed(Flags, e)' = Committed(Flags, e)
  BY DEF Current, Committed
<1>3. NothingStale'
  BY <1>1, <1>2 DEF NothingStale, InFlightCurrent
<1>4. ASSUME NEW m \in clean', NEW e \in environments
      PROVE  Covers(loader[m], e)'
  <2>1. /\ m \in Loaders /\ loader'[m].pc # "idle"
        /\ m \in clean \/ loader[m].pc = "idle"
        /\ e \in Environments
    BY <1>4 DEF Follow, TypeOK, TableTypeOK
  <2>2. CASE m = l
    BY <1>1, <2>1, <2>2 DEF Covers
  <2>3. CASE m # l
    <3>1. loader'[m] = loader[m] /\ m \in clean
      BY <1>1, <2>1, <2>3
    <3>2. Covers(loader[m], e)
      BY <3>1 DEF CleanCovers
    <3>. QED BY <2>1, <3>1, <3>2 DEF Covers
  <2>. QED BY <2>2, <2>3
<1>5. clean' \subseteq Loaders
  BY DEF Follow
<1>. QED BY <1>3, <1>4, <1>5 DEF CleanCovers

(* ... nor do they when the step is no load's. *)
LEMMA CalmElsewhere ==
  ASSUME TypeOK, UNCHANGED <<environments, configs, store, loader>>, CleanCovers, Follow
  PROVE  CleanCovers'
<1>1. clean' \subseteq clean
  BY DEF Follow
<1>. QED BY <1>1 DEF CleanCovers, Covers, UpToDate, Current, Committed, NothingStale,
                     InFlightCurrent

(* When nothing fails, a query yields all there is. *)
LEMMA NothingMissing ==
  ASSUME TypeOK, UNCHANGED faults, NEW R, NEW all, Fetched(R, all)
  PROVE  R = all
BY DEF TypeOK, Fetched

LEMMA CalmStays ==
  ASSUME UNCHANGED <<environments, configs, store>>
  PROVE  /\ \A e \in Environments : UpToDate(e) => UpToDate(e)'
         /\ \A e, t : Covers(t, e) => Covers(t, e)'
BY DEF UpToDate, Covers, Current, Committed

(* A load that gives up is not clean any more, and if it takes the process *)
(* with it, none is.                                                       *)
LEMMA CalmFail ==
  ASSUME TypeOK, Undisturbed, NothingStale, CleanCovers, Follow,
         NEW l \in Loaders, Fail(l)
  PROVE  CleanCovers'
<1>1. CASE l = "main"
  <2>1. \A m \in Loaders : loader'[m].pc = "idle"
    BY <1>1 DEF Fail, Restart, IdleLoader
  <2>2. clean' = {}
    BY <2>1 DEF Follow
  <2>. QED BY <2>2 DEF CleanCovers
<1>2. CASE l # "main"
  <2>1. /\ loader' = [loader EXCEPT ![l] = IdleLoader]
        /\ UNCHANGED <<environments, configs, store>>
    BY <1>2 DEF Fail, Undisturbed
  <2>2. IdleLoader.pc = "idle" /\ InFlightCurrent(IdleLoader)
    BY DEF IdleLoader, InFlightCurrent
  <2>. QED BY <2>1, <2>2, CalmStays, CalmLoad
<1>. QED BY <1>1, <1>2

(* LoadAll goes on. *)
LEMMA CalmGoto ==
  ASSUME TypeOK, Undisturbed, NothingStale, CleanCovers, Follow,
         NEW l \in Loaders, NEW t, loader' = [loader EXCEPT ![l] = t],
         UNCHANGED store, InFlightCurrent(t),
         (l \in clean \/ loader[l].pc = "idle") => \A e \in environments : Covers(t, e)
  PROVE  CleanCovers'
BY CalmStays, CalmLoad DEF Undisturbed

LEMMA CalmBegin ==
  ASSUME TypeOK, Undisturbed, NothingStale, CleanCovers, Follow,
         NEW l \in Loaders, ListEnvironments(l) \/ (l = "listen" /\ Notified)
  PROVE  CleanCovers'
<1>1. PICK envs \in SUBSET environments :
        /\ Fetched(envs, environments)
        /\ loader' = [loader EXCEPT ![l] = [IdleLoader EXCEPT !.pc = "next", !.todo = envs]]
        /\ UNCHANGED store
  BY DEF ListEnvironments, Notified, Goto
<1>2. PICK t : t = [IdleLoader EXCEPT !.pc = "next", !.todo = envs]
  OBVIOUS
<1>3. envs = environments
  BY <1>1, NothingMissing DEF Undisturbed
<1>4. t.pc = "next" /\ t.todo = environments
  BY <1>2, <1>3 DEF IdleLoader
<1>5. InFlightCurrent(t) /\ \A e \in environments : Covers(t, e)
  BY <1>4 DEF InFlightCurrent, Covers
<1>. QED BY <1>1, <1>2, <1>5, CalmGoto

LEMMA CalmQueryFlags ==
  ASSUME TypeOK, Undisturbed, NothingStale, CleanCovers, Follow,
         NEW l \in Loaders, QueryFlags(l)
  PROVE  CleanCovers'
<1>1. PICK e \in loader[l].todo, R \in SUBSET Flags :
        /\ Fetched(Committed(R, e), Committed(Flags, e))
        /\ IF Decodes(Committed(R, e))
           THEN Goto(l, [pc |-> "segments", todo |-> loader[l].todo \ {e},
                         env |-> e, rows |-> Committed(R, e)])
           ELSE Fail(l)
  BY DEF QueryFlags
<1>2. CASE ~Decodes(Committed(R, e))
  BY <1>1, <1>2, CalmFail
<1>3. CASE Decodes(Committed(R, e))
  <2>1. PICK t : t = [pc |-> "segments", todo |-> loader[l].todo \ {e}, env |-> e,
                      rows |-> Committed(R, e)]
    OBVIOUS
  <2>2. Committed(R, e) = Committed(Flags, e)
    BY <1>1, NothingMissing DEF Undisturbed
  <2>3. InFlightCurrent(t)
    BY <2>1, <2>2 DEF InFlightCurrent
  <2>4. loader[l].pc = "next"
    BY DEF QueryFlags
  <2>5. ASSUME l \in clean, NEW x \in environments
        PROVE  Covers(t, x)
    <3>1. Covers(loader[l], x)
      BY <2>5 DEF CleanCovers
    <3>. QED BY <2>1, <2>4, <3>1 DEF Covers
  <2>6. loader' = [loader EXCEPT ![l] = t] /\ UNCHANGED store
    BY <1>1, <1>3, <2>1 DEF Goto
  <2>. QED BY <2>3, <2>4, <2>5, <2>6, CalmGoto
<1>. QED BY <1>2, <1>3

LEMMA CalmQuerySegments ==
  ASSUME TypeOK, Undisturbed, NothingStale, CleanCovers, Follow,
         NEW l \in Loaders, QuerySegments(l)
  PROVE  CleanCovers'
<1>0. PICK e, old : e = loader[l].env /\ old = loader[l].rows
  OBVIOUS
<1>1. PICK R \in SUBSET Segments :
        /\ Fetched(Committed(R, e), Committed(Segments, e))
        /\ IF Decodes(Committed(R, e))
           THEN Goto(l, [loader[l] EXCEPT
                           !.pc = "install",
                           !.rows = [r \in Resources |->
                                       IF r \in Segments THEN Committed(R, e)[r] ELSE old[r]]])
           ELSE Fail(l)
  BY <1>0 DEF QuerySegments
<1>2. CASE ~Decodes(Committed(R, e))
  BY <1>1, <1>2, CalmFail
<1>3. CASE Decodes(Committed(R, e))
  <2>1. PICK all : all = [r \in Resources |->
                            IF r \in Segments THEN Committed(R, e)[r] ELSE old[r]]
    OBVIOUS
  <2>2. PICK t : t = [loader[l] EXCEPT !.pc = "install", !.rows = all]
    OBVIOUS
  <2>3. loader[l].pc = "segments" /\ loader[l] \in LoaderState
    BY DEF QuerySegments, TypeOK
  <2>4. t.pc = "install" /\ t.env = e /\ t.rows = all /\ t.todo = loader[l].todo
    BY <1>0, <2>2, <2>3 DEF LoaderState
  <2>5. all = Current(e)
    <3>1. Committed(R, e) = Committed(Segments, e)
      BY <1>1, NothingMissing DEF Undisturbed
    <3>2. old = Committed(Flags, e)
      BY <1>0, <2>3 DEF NothingStale, InFlightCurrent
    <3>. QED BY <2>1, <3>1, <3>2, TableAssumption DEF Current, Committed, Resources
  <2>6. InFlightCurrent(t)
    BY <2>4, <2>5 DEF InFlightCurrent
  <2>7. ASSUME l \in clean, NEW x \in environments
        PROVE  Covers(t, x)
    <3>1. Covers(loader[l], x)
      BY <2>7 DEF CleanCovers
    <3>. QED BY <1>0, <2>4, <3>1 DEF Covers
  <2>8. loader' = [loader EXCEPT ![l] = t] /\ UNCHANGED store
    BY <1>1, <1>3, <2>1, <2>2 DEF Goto
  <2>. QED BY <2>3, <2>6, <2>7, <2>8, CalmGoto
<1>. QED BY <1>2, <1>3

(* A skipped ruleset is the one the store holds: its version says so. *)
LEMMA CalmInstall ==
  ASSUME IInv, Undisturbed, NothingStale, CleanCovers, Follow,
         NEW l \in Loaders, Install(l)
  PROVE  CleanCovers'
<1>0. TypeOK /\ VersionIdentifiesRuleset
  BY VersionsIdentify DEF IInv
<1>1. PICK e, rs : e = loader[l].env /\ rs = loader[l].rows
  OBVIOUS
<1>2. /\ loader[l].pc = "install" /\ loader[l] \in LoaderState
      /\ e \in Environments /\ rs = Current(e)
  BY <1>0, <1>1 DEF Install, TypeOK, LoaderState, NothingStale, InFlightCurrent
<1>3. \A x \in Environments : Current(x)' = Current(x)
  BY DEF Undisturbed, Current, Committed
<1>4. UpToDate(e)'
  <2>1. CASE IsNew(e, rs)
    <3>1. store' = [store EXCEPT ![e] = rs]
      BY <1>1, <2>1 DEF Install
    <3>2. store'[e] = rs
      BY <1>0, <1>2, <3>1 DEF TypeOK
    <3>. QED BY <1>2, <1>3, <3>2 DEF UpToDate
  <2>2. CASE ~IsNew(e, rs)
    <3>1. store'[e] = store[e]
      BY <1>1, <2>2 DEF Install
    <3>2. store[e] # None /\ AggregateVersion(store[e]) = AggregateVersion(Current(e))
      BY <1>2, <2>2 DEF IsNew
    <3>3. store[e] = Current(e)
      BY <1>0, <1>2, <3>2 DEF VersionIdentifiesRuleset
    <3>. QED BY <1>2, <1>3, <3>1, <3>3 DEF UpToDate
  <2>. QED BY <2>1, <2>2
<1>5. \A x \in Environments : UpToDate(x) => UpToDate(x)'
  <2>1. \A x \in Environments : x # e => store'[x] = store[x]
    BY <1>0, <1>1 DEF Install, TypeOK
  <2>. QED BY <1>3, <1>4, <2>1 DEF UpToDate
<1>6. PICK t : t = [loader[l] EXCEPT !.pc = "next", !.rows = NoRows]
  OBVIOUS
<1>7. t.pc = "next" /\ t.env = e /\ t.todo = loader[l].todo
  BY <1>1, <1>2, <1>6 DEF LoaderState
<1>8. loader' = [loader EXCEPT ![l] = t]
  BY <1>0, <1>6 DEF Install, TypeOK
<1>9. ASSUME l \in clean, NEW x \in environments
      PROVE  Covers(t, x)'
  <2>1. Covers(loader[l], x) /\ x \in Environments
    BY <1>0, <1>9 DEF CleanCovers, TypeOK, TableTypeOK
  <2>. QED BY <1>1, <1>4, <1>5, <1>7, <2>1 DEF Covers
<1>10. InFlightCurrent(t)
  BY <1>7 DEF InFlightCurrent
<1>. QED BY <1>0, <1>2, <1>5, <1>8, <1>9, <1>10, CalmLoad DEF Undisturbed

LEMMA CalmStep ==
  ASSUME IInv, Undisturbed, NothingStale, CleanCovers, Follow, Next
  PROVE  CleanCovers'
<1>0. TypeOK /\ faults' = faults /\ faults \in Nat
  BY DEF IInv, TypeOK, Undisturbed
<1>1. ASSUME UNCHANGED <<store, loader>>
      PROVE  CleanCovers'
  BY <1>0, <1>1, CalmElsewhere DEF Undisturbed
<1>2. CASE TableNext /\ UNCHANGED dataPlaneVars
  BY <1>1, <1>2 DEF dataPlaneVars
<1>3. CASE DataPlaneNext /\ UNCHANGED tableVars
  <2>1. ASSUME NEW l \in Loaders, LoadStep(l)
        PROVE  CleanCovers'
    <3>1. CASE Return(l)
      <4>1. loader' = [loader EXCEPT ![l] = IdleLoader] /\ UNCHANGED store
        BY <3>1 DEF Return
      <4>2. IdleLoader.pc = "idle" /\ InFlightCurrent(IdleLoader)
        BY DEF IdleLoader, InFlightCurrent
      <4>. QED BY <1>0, <4>1, <4>2, CalmStays, CalmLoad DEF Undisturbed
    <3>. QED BY <1>0, <2>1, <3>1, CalmBegin, CalmQueryFlags, CalmQuerySegments, CalmInstall
             DEF LoadStep
  <2>2. /\ \A l \in Loaders : ~QueryError(l)
        /\ ~ListenerDies /\ ~Crash
    BY <1>0 DEF QueryError, ListenerDies, Crash
  <2>3. CASE Listen \/ \E c \in Clients : \/ \E e \in Environments : Connect(c, e)
                                         \/ Tick(c) \/ Disconnect(c)
    BY <1>1, <2>3 DEF Listen, Connect, Tick, Disconnect
  <2>. QED BY <1>3, <2>1, <2>2, <2>3 DEF DataPlaneNext
<1>. QED BY <1>2, <1>3 DEF Next

LEMMA NextCleanCovers ==
  ASSUME IInv, CleanCovers, [HistoryNext]_historyVars
  PROVE  CleanCovers'
<1>1. CASE UNCHANGED historyVars
  BY <1>1 DEF historyVars, vars, tableVars, dataPlaneVars, CleanCovers, Covers, UpToDate,
              Current, Committed, NothingStale, InFlightCurrent
<1>2. CASE HistoryNext
  <2>1. Follow /\ Next
    BY <1>2 DEF HistoryNext
  <2>2. CASE clean' = {}
    BY <2>2 DEF CleanCovers
  <2>3. CASE clean' # {}
    <3>1. Undisturbed /\ NothingStale
      BY <2>1, <2>3 DEF Follow, CleanCovers
    <3>. QED BY <2>1, <3>1, CalmStep
  <2>. QED BY <2>2, <2>3
<1>. QED BY <1>1, <1>2

(***************************************************************************)
(* One load brings every environment up to date, when no query of an       *)
(* earlier state was under way as it began and nothing changed or failed   *)
(* since: whatever was missed before, notifications included, and whatever *)
(* the other threads load beside it (main.go:78, store.go:51-81).          *)
(***************************************************************************)
THEOREM CleanLoadsCatchUp == HistorySpec => []CleanLoadCatchesUp
<1>1. HistoryInit => IInv /\ CleanCovers
  BY HistoryStart DEF HistoryInit, CleanCovers
<1>2. IInv /\ CleanCovers /\ [HistoryNext]_historyVars => IInv' /\ CleanCovers'
  <2>1. [HistoryNext]_historyVars => [Next]_vars
    BY DEF HistoryNext, historyVars
  <2>. QED BY <2>1, NextIInv, NextCleanCovers
<1>3. CleanCovers => CleanLoadCatchesUp
  BY DEF CleanCovers, CleanLoadCatchesUp, Covers
<1>. QED BY <1>1, <1>2, <1>3, PTL DEF HistorySpec
=============================================================================
