\* Two jobs, one slot, two broker processes, every failure but a killed client.
CONSTANTS
  j1 = j1
  j2 = j2
  j3 = j3
  Jobs = {j1, j2}
  SudoJobs = {j2}
  Mortal = {j1}
  Slots = 1
  RecoverLimit = 2
  MaxStarts = 2
  Faults = {"disconnect", "refuse", "crash", "spawn", "disk", "alias", "moved", "force"}
SPECIFICATION Spec
INVARIANTS AtMostOneRun ResultNeverLost FailedNeverRan SlotsConserved NoOrphanRecord
CHECK_DEADLOCK FALSE
PROPERTIES ImplementsContract
