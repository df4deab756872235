SPECIFICATION HistorySpec
CONSTANTS
  Flags = {f1}
  Segments = {}
  Environments = {e1, e2}
  Contents = {off, bad}
  DefaultContent = off
  MaxChanges = 1
  Clients = {c1}
  Undecodable = {bad}
  None = None
  MaxFaults = 0
PROPERTY PollCoversDecodable
