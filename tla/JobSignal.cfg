CONSTANTS
  j1 = j1
  j2 = j2
  j3 = j3
  Jobs = {j1}
  SudoJobs = {}
  Mortal = {}
  Slots = 1
  RecoverLimit = 2
  MaxStarts = 2
  Faults = {"signal"}
SPECIFICATION Spec
INVARIANTS FailedNeverRan
CHECK_DEADLOCK FALSE
