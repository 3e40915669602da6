\* One call, and jobs that hold the slot in its way: calls meet only in
\* the queue for it.  Screens lower and higher than the rows asked for,
\* and a restart of the server.
CONSTANTS
  c1 = c1
  Calls <- OneCall
  Lines = 2
  CONCURRENCY = 1
  MaxHeight = 3
  MaxHistory = 2
  MaxServers = 1
SPECIFICATION FairSpec
INVARIANTS LastLines
PROPERTIES ViewsAreTrue EveryCallEnds
CHECK_DEADLOCK FALSE
