CONSTANTS
  d1 = d1  ann = ann  e1 = e1  e2 = e2  c1 = c1  c2 = c2  c3 = c3  m1 = m1  m2 = m2
  Drafts = {d1}
  Owners = {ann}
  OwnerOf <- OneOwner
  Edits = {}
  EditedBy <- AllEditTheDraft
  Patches = {}
  Commits = {c1, c2}
  DraftOf <- AllCommitTheDraft
  Mutations = {m1}
  MutationOf <- Retried
  Keyed = {m1}
  Readers = {r1}
  NoDraft = NoDraft
  Nothing = Nothing
  SlidingTtl = 1
  HardTtl = 2
  MaxTime = 1
  MaxLag = 0
  MaxRoomRevision = 1
SPECIFICATION Spec
PROPERTIES CommittingDraftsStay
CHECK_DEADLOCK FALSE
