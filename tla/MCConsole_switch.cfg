SPECIFICATION Spec
CONSTANTS
  Pages = {p1}
  Flags = {f1}
  Segments = {s1}
  Environments = {e1, e2}
  Values = {0, 1}
  DefaultValue = 0
  Bucketings = {0, 1}
  DefaultBucketing = 0
  SeedContents <- PlainOrRuled
  ApiBodies <- RuledOrDealt
  None = None
  MaxVersions = 5
  MaxInFlight = 1
  MaxOpen = 2
PROPERTY PreservesUntouched
