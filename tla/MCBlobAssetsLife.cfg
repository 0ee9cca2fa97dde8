CONSTANTS
  p1 = p1
  p2 = p2
  c1 = c1
  Client = Client
  Paths = {p1, p2}
  Participants = {Client}
  OwnerOf <- MCOwnerOf
  Cleaners = {c1}
  ReservationBytes = 2
  Limits <- MCLimits
  Sizes = {1}
  MaxStamp <- MCMaxStamp
  MaxRequests = 1
  MaxFaults = 2
SPECIFICATION Spec
INVARIANTS AssetsTypeOK CapacityIsAccounted EligibleIsStored ReferencedIsKept
PROPERTIES UnusedIsDeleted
CHECK_DEADLOCK FALSE
