SPECIFICATION Spec
CONSTANTS
  N = 2
  Size <- TwoFiles
  MaxRetries = 2
  Overlap = FALSE
  SourceChanges = TRUE
  MaxFaults = 2
  MaxCrashes = 1
INVARIANT AckedIsDelivered
INVARIANT ExposedIsVerified
INVARIANT DeliveredOncePerRun
INVARIANT ResumedIsIntact
INVARIANT RejectedIsUndelivered
INVARIANT DoneIsTerminal
