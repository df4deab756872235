SPECIFICATION HistorySpec
CONSTANTS
  Flags = {f1}
  Segments = {s1}
  Environments = {e1}
  Contents = {off, on}
  DefaultContent = off
  MaxChanges = 2
  Clients = {c1}
  Undecodable = {}
  None = None
  MaxFaults = 1
INVARIANTS
  TypeOK
  HeldRowsBehind
  VersionIdentifiesRuleset
  CleanLoadCatchesUp
PROPERTIES
  StoreConverges
  StreamsConverge
  KeepsCachePromise
