CONSTANTS
  Callers = {c1, c2, c3}
  None = None
  Networks = {main, test}
  Unknown = Unknown
SPECIFICATION FairSpec
INVARIANTS AnswersAgree NoInheritedCancellation
PROPERTIES CallsReturn
CHECK_DEADLOCK FALSE
