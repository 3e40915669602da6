\* Three jobs on two slots, one of which a dead session may hold for good.
CONSTANTS
  j1 = j1
  j2 = j2
  j3 = j3
  Jobs = {j1, j2, j3}
  SudoJobs = {}
  Mortal = {j1}
  Slots = 2
  RecoverLimit = 3
  MaxStarts = 1
  Faults = {}
SPECIFICATION FairSpec
PROPERTIES EveryJobSettles
CHECK_DEADLOCK FALSE
