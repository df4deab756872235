SPECIFICATION Spec
CONSTANTS
  Keys = {k1, k2}
  Environments = {e1, e2}
  Kinds = {"server", "client"}
  Workers = {w1, w2}
  Clients = {c1}
  None = None
  MaxChanges = 4
INVARIANTS
  TypeOK
  AuditCountsKeys
  RevocationsOverlap
  ToldIsCommitted
PROPERTY KeepsRegistry
