--------------------------- MODULE MCAgentDrafts ---------------------------
(***************************************************************************)
(* Small instances of AgentDrafts.  Each cfg picks the requests that race. *)
(***************************************************************************)
EXTENDS AgentDrafts, TLC

CONSTANTS
  d1,           \* a draft
  ann,          \* its owner
  e1, e2,       \* edits
  c1, c2, c3,   \* commits
  m1, m2        \* mutations

OneOwner == d1 :> ann
AllEditTheDraft == [e \in Edits |-> d1]
AllCommitTheDraft == [c \in Commits |-> d1]

\* A commit and its retry under one key, which are alike to the module.
Retried == c1 :> m1 @@ c2 :> m1
Alike == Permutations({c1, c2}) \cup Permutations({e1, e2})

\* Two commits of one draft, the second without a key.
Twice == c1 :> m1 @@ c3 :> m2

\* A commit without a key.
Unkeyed == c3 :> m2
=============================================================================
