CONSTANTS
  a = a  b = b  c = c
  ann = ann  bo = bo  box = box
  k1 = k1  r1 = r1  r2 = r2
  Members = {ann, bo}
  Objects = {box}
  Calls = {a, b, c}
  Readers = {}
  Nobody = Nobody
  Keys = {k1}
  NoKey = NoKey
  Requests = {r1, r2}
  NoReceipt = NoReceipt
  AwayMs = 1
  LeaseMs = 1
  Op <- RetryOps
  ActorOf <- RetryActors
  TargetOf <- OneTarget
  KeyOf <- RetryKeys
  RequestOf <- RetryRequests
  Created <- Either
  MaxTime = 0
  MaxAttempts = 2
  MaxReads = 2
  MaxRevision = 0
SPECIFICATION Spec
INVARIANTS TypeOK AtMostOnce NoLostEdit
PROPERTIES RevisionsAdvance LedgerSpec
CHECK_DEADLOCK FALSE
