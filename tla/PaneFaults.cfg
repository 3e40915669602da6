\* Two calls to one pane, jobs that hold the slot in their way, one respawn, two
\* hits each.
CONSTANTS
  r1 = r1
  r2 = r2
  p1 = p1
  Requests <- TwoRequests
  Panes <- OnePane
  Target <- SamePane
  CONCURRENCY = 1
  MaxRespawns = 1
  MaxHits = 2
SPECIFICATION FairSpec
INVARIANTS OneWriter SlotsKept ScopeCoversChild
PROPERTIES ReceiptsAreTrue SshAsPromised EveryCallEnds
CHECK_DEADLOCK FALSE
