CONSTANTS
  Ids = {i1, i2}
  Prompts = {"short", "long"}
  Bytes <- MCBytes
  ClaimIds = {k1, k2, k3}
  Tokens = {t1, t2, t3, t4}
  Texts = {x1, x2}
  ClaimBytes = 1
  ReplyBytes = 1
  IncomingBytes = 5
  RetainedBytes = 7
  RetainedCount = 2
  PageLimit = 1
  Lease = 1
  Drift = 0
  Panel = panel
  Agents = {a1, a2}
  Tags = {q1, q2, q3}
  MaxAsks = 2
  MaxFaults = 1
SPECIFICATION Spec
INVARIANTS InboxTypeOK WorkIsExclusive CursorMissesNothing
PROPERTIES AskBoxSpec AsksAreAnswered
CHECK_DEADLOCK FALSE
