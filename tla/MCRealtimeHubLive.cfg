CONSTANTS
  c1 = c1
  Clients = {c1}
  Here = {FALSE}
  MaxCommits = 2
  MaxReplies = 1
  MaxTrouble = 1
  MaxPending = 1
SPECIFICATION Spec
INVARIANTS HubTypeOK ShowsARealRoom
PROPERTIES MirrorsTheRoom
CHECK_DEADLOCK FALSE
