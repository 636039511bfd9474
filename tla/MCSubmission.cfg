CONSTANTS
  MaxLedger = 6
  LastLedgerSequence = 4
  MaxAttempts = 3
  LedgerLag = 1
  LookupLag = 1
  MaxSends = 4
SPECIFICATION FairSubmissionSpec
INVARIANTS ExpiredNeverValidated RejectedNeverValidated
PROPERTIES SentIsMonitorable ImplementsFinality CancellationReported CallReturns
CHECK_DEADLOCK FALSE
