SPECIFICATION Spec
CONSTANTS
  Workers = {w1, w2}
  Project = p1
  Flags = {f1}
  Segments = {}
  Environments = {e1}
  Columns = {enabled}
  Values = {0, 1}
  DefaultValue = 0
  NotifyBackend = "postgres"
  MaxCommits = 5
  Clients = {}
  Undecodable = {}
  MaxFaults = 0
  None = None
PROPERTY EditsReachStore
