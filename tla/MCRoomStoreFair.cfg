CONSTANTS
  a = a  b = b  c = c
  ann = ann  bo = bo  box = box
  k1 = k1  r1 = r1  r2 = r2
  Members = {ann, bo}
  Objects = {box}
  Calls = {a}
  Readers = {reader}
  Nobody = Nobody
  Keys = {k1}
  NoKey = NoKey
  Requests = {r1, r2}
  NoReceipt = NoReceipt
  AwayMs = 1
  LeaseMs = 1
  Op <- FairOps
  ActorOf <- FairActors
  TargetOf <- OneTarget
  KeyOf <- FairKeys
  RequestOf <- FairRequests
  Created <- Reviewing
  MaxTime = 1
  MaxAttempts = 2
  MaxReads = 2
  MaxRevision = 2
SPECIFICATION FairSpec
PROPERTIES EveryCallReturns
CHECK_DEADLOCK FALSE
