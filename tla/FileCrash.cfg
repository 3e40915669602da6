\* Four calls on a path, in a directory that is there or that a job made.
CONSTANTS
  MaxWrites = 4
SPECIFICATION Spec
INVARIANTS NeverTorn AckedDurable UpdatesReadable
PROPERTIES ImplementsDurable
CHECK_DEADLOCK FALSE
