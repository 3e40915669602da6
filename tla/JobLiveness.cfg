\* Two jobs contend for one slot across a restart.
CONSTANTS
  j1 = j1
  j2 = j2
  j3 = j3
  Jobs = {j1, j2}
  SudoJobs = {j2}
  Mortal = {}
  Slots = 1
  RecoverLimit = 2
  MaxStarts = 2
  Faults = {"disconnect", "signal", "crash"}
SPECIFICATION FairSpec
PROPERTIES EveryJobSettles
CHECK_DEADLOCK FALSE
