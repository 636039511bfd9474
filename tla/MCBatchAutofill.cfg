CONSTANTS
  Accounts = {a1, a2}
  FirstSequence = 2
  MaxInners = 2
SPECIFICATION AutofillSpec
INVARIANTS FollowsPrevious
CHECK_DEADLOCK FALSE
