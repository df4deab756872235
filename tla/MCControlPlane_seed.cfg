SPECIFICATION Spec
CONSTANTS
  Workers = {w1, w2}
  Project = p1
  Flags = {f1}
  Segments = {s1}
  Environments = {e1}
  Columns = {enabled, rules}
  Values = {0, 1}
  DefaultValue = 0
  None = None
  NotifyBackend = "postgres"
  MaxCommits = 5
INVARIANT OneRowPerFlagAndEnvironment
