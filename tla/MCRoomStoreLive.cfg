CONSTANTS
  a = a  b = b  c = c
  ann = ann  bo = bo  box = box
  k1 = k1  r1 = r1  r2 = r2
  Members = {ann, bo}
  Objects = {box}
  Calls = {a, b}
  Readers = {reader}
  Nobody = Nobody
  Keys = {k1}
  NoKey = NoKey
  Requests = {r1, r2}
  NoReceipt = NoReceipt
  AwayMs = 1
  LeaseMs = 1
  Op <- LiveOps
  ActorOf <- LiveActors
  TargetOf <- OneTarget
  KeyOf <- LiveKeys
  RequestOf <- LiveRequests
  Created <- Leased
  MaxTime = 1
  MaxAttempts = 2
  MaxReads = 2
  MaxRevision = 2
SPECIFICATION Spec
INVARIANTS HotPathReady OutcomeIsTrue HeadIsCurrent ReadsAreVersions RevisionNamesVersion
PROPERTIES HeartbeatsAreKept
CHECK_DEADLOCK FALSE
