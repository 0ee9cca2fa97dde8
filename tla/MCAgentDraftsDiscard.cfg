CONSTANTS
  d1 = d1  ann = ann  e1 = e1  e2 = e2  c1 = c1  c2 = c2  c3 = c3  m1 = m1  m2 = m2
  Drafts = {d1}
  Owners = {ann}
  OwnerOf <- OneOwner
  Edits = {}
  EditedBy <- AllEditTheDraft
  Patches = {}
  Commits = {c3}
  DraftOf <- AllCommitTheDraft
  Mutations = {m2}
  MutationOf <- Unkeyed
  Keyed = {}
  Readers = {}
  NoDraft = NoDraft
  Nothing = Nothing
  SlidingTtl = 1
  HardTtl = 1
  MaxTime = 0
  MaxLag = 0
  MaxRoomRevision = 1
SPECIFICATION Spec
PROPERTIES ReviewedDraftsStay
CHECK_DEADLOCK FALSE
