CONSTANTS
  Holders = {h1, h2}
  HolderKeys = {k1, k2}
  IssuerKey = IssuerKey
  AuditorKey = AuditorKey
  Absent = Absent
  Garbled = Garbled
  MaxAmount = 3
  VersionLimit = 4
  StartVersions = {3}
  MinOperations = 2
  MaxOperations = 3
SPECIFICATION Spec
SYMMETRY Symmetry
INVARIANTS MirrorsAgree RejectsOnlyInvalid FreshVersions
PROPERTIES ImplementsToken
CHECK_DEADLOCK FALSE
