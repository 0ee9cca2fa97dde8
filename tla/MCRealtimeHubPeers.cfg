CONSTANTS
  c1 = c1
  c2 = c2
  Clients = {c1, c2}
  Here = {TRUE, FALSE}
  MaxCommits = 2
  MaxReplies = 0
  MaxTrouble = 0
  MaxPending = 4
SPECIFICATION Spec
SYMMETRY Symmetry
INVARIANTS AcknowledgedIsOwed QuietMeansCurrent
CHECK_DEADLOCK FALSE
