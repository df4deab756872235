SPECIFICATION Spec
CONSTANTS
  Workers = {w1}
  Project = p1
  Flags = {f1}
  Segments = {s1}
  Environments = {e1, e2}
  Columns = {enabled}
  Values = {0, 1}
  DefaultValue = 0
  NotifyBackend = "postgres"
  MaxCommits = 5
  Clients = {c1}
  Undecodable = {}
  MaxFaults = 0
  None = None
INVARIANTS
  TypeOK
  HeldRowsBehind
  VersionIdentifiesRuleset
PROPERTIES
  KeepsTablePromise
  EditsReachStore
  EditsReachStreams
