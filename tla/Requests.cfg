\* Two jobs on one slot across a restart that reads the newest record only; of
\* no machine an answer is owed, and the request for the second has a timeout.
CONSTANTS
  j1 = j1
  j2 = j2
  Jobs <- TwoJobs
  SudoJobs = {}
  Mortal = {}
  Slots = 1
  RecoverLimit = 1
  MaxStarts = 2
  Faults = {"spawn", "force", "crash"}
  Timed = {j2}
SPECIFICATION FairRequests
INVARIANTS AnswersStand NobodyForgotten NoOrphanRecord
PROPERTIES AnswersForward CallersAside TimedAnswered
CHECK_DEADLOCK FALSE
