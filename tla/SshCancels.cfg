\* One call and up to three cancellations.
CONSTANT MaxCancels = 3
SPECIFICATION FairSpec
INVARIANTS OneStopReaps ReportedMeansReaped CancelNotSwallowed
PROPERTIES KeepsPromise StoppedCallEnds
CHECK_DEADLOCK FALSE
