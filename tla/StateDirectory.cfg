\* Two brokers, two commands and two passwords that the machine may change between.
CONSTANTS
  b1 = b1
  b2 = b2
  c1 = c1
  c2 = c2
  p1 = p1
  p2 = p2
  Brokers = {b1, b2}
  Commands = {c1, c2}
  Passwords = {p1, p2}
  None = None
SPECIFICATION Spec
SYMMETRY Symmetry
INVARIANTS TasksUnderLock StoredWasAccepted
PROPERTIES OneBrokerContract CommandsReport
