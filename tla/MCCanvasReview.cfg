CONSTANTS
  a = a  b = b  c = c  d = d
  ann = ann  bot = bot
  p1 = p1  p2 = p2  p3 = p3  left = left  right = right  t1 = t1  t2 = t2
  Ids = {a, b, c, d}
  Places = {p1, p2, p3}
  Points = {left, right}
  Outline <- MCOutline
  Texts = {t1, t2}
  Actors = {ann, bot}
  Humans = {ann}
  Agents = {bot}
  Transactions <- MCTransactions
  Proposals <- MCProposals
  LeaseTargets <- MCLeaseTargets
  Created <- MCCreated
  MaxActivities = 3
  MaxProposals = 1
  MaxAsked = 2
SPECIFICATION Spec
INVARIANTS CanvasTypeOK ReferencesResolve RevisionsNameVersions
PROPERTIES LastChangeCanBeTakenBack LeaseHolds DependentsFollow ReviewGatesAgents
