CONSTANTS
  Accounts = {a1, a2}
  FirstSequence = 2
  MaxSequence = 3
  MaxInners = 3
  MaxCreated = 1
  MaxLedger = 2
  Chains = {main, other}
  Holders = {h1, h2}
  MaxWork = 2
SPECIFICATION BuildSpec
SYMMETRY Symmetry
INVARIANTS OneLedger BuiltIsAccepted RefusedIsRejected RefusalsJustified
PROPERTIES ImplementsNonces
CHECK_DEADLOCK FALSE
