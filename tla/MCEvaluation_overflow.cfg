SPECIFICATION Spec
CONSTANTS
  f1 = f1
  f2 = f2
  f3 = f3
  s1 = s1
  s2 = s2
  user = user
  device = device
  n1 = n1
  n2 = n2
  None = None
  FlagKeys = {f1, f2, f3}
  SegmentKeys = {s1, s2}
  Kinds = {user, device}
  Names = {n1, n2}
  Whole = 4
  Unit = 13
  Slack = 1
  MaxEntries = 3
  Round <- MCRound
  VariationCount <- MCVariationCount
  FlagBodies <- MCFlagBodies
  SegmentBodies <- MCSegmentBodies
  Hash <- MCHash
INVARIANT EvaluationReturns
