------------------------- MODULE AgentDraftsProofs -------------------------
(***************************************************************************)
(* AgentDrafts keeps its promises for any drafts, requests, readers, times *)
(* and bounds.  The argument: a mutation makes a draft committing at most  *)
(* once, because that takes the revision it names, so all its retries hold *)
(* one transaction on one baseline.  The room leaves a baseline when it    *)
(* takes effect there, so no two commits do, and a commit whose baseline   *)
(* the room has left never will.  A draft is given back only then, unless  *)
(* an attempt ended with an error that names no outcome.                   *)
(***************************************************************************)
EXTENDS AgentDrafts, TLAPS

Tx(x) == [content |-> x.content, baseline |-> x.baseline]
Entry(d, n, content) == [draft |-> d, revision |-> n, content |-> content]

\* Commit c has taken a transaction from its draft.
Began(c) == held[c].baseline # 0

\* It has had its effect on the room.
Taken(c) == landedAt[c] # 0 \/ room.proposals[c] # "none"

\* The room has moved past what c holds.
Dead(c) == \/ room.revision # held[c].baseline
           \/ ~room.reviewing /\ DraftOf[c] \in room.present

\* It had no effect and never will.
Lost(c) == ~Taken(c) /\ Dead(c)

Unborn == {"idle", "check", "begin"}

-----------------------------------------------------------------------------
(* The inductive invariant, in parts.                                      *)

\* Revisions only grow, and a draft that is gone is not staged again.
HistoryInv ==
  /\ \A h \in history : h.revision # 0
  /\ \A h \in history : drafts[h.draft] # NoDraft => h.revision <= drafts[h.draft].revision
  /\ \A h \in history : drafts[h.draft] = NoDraft => ended[h.draft].reason # "none"
  /\ \A d \in Drafts : drafts[d] # NoDraft =>
       /\ ended[d].reason = "none"
       /\ Entry(d, drafts[d].revision, drafts[d].content) \in history

\* Baselines are revisions the room has had.
BaselineInv ==
  /\ room.revision # 0
  /\ \A d \in Drafts : drafts[d] # NoDraft => drafts[d].baseline \in 1 .. room.revision
  /\ \A e \in Edits : replacing[e] # Nothing => replacing[e].baseline \in 1 .. room.revision
  /\ \A c \in Commits : held[c].baseline <= room.revision

\* While the revision that a patch names is current, its content is too.
EditInv ==
  \A e \in Edits : replacing[e] # Nothing =>
    /\ replacing[e].named \in SeenRevisions(EditedBy[e])
    /\ e \in Patches /\ drafts[EditedBy[e]] # NoDraft
       /\ drafts[EditedBy[e]].revision = replacing[e].named =>
         replacing[e].content = drafts[EditedBy[e]].content \cup {e}

\* How far each commit is.
CommitInv ==
  \A c \in Commits :
    /\ pc[c] # "idle" => named[MutationOf[c]] \in SeenRevisions(DraftOf[c])
    /\ pc[c] \in Unborn => ~Began(c)
    /\ pc[c] = "submit" => Began(c) /\ ~Taken(c) /\ c \notin inflight
    /\ c \in inflight => Began(c) /\ ~Taken(c)
    /\ pc[c] \in {"mark", "cleanup"} => landedAt[c] # 0 /\ room.proposals[c] = "none"
    /\ pc[c] = "review" => room.proposals[c] # "none"

\* What it holds is the transaction at the revision it names.
HeldInv ==
  \A c \in Commits : Began(c) =>
    /\ Entry(DraftOf[c], named[MutationOf[c]], held[c].content) \in history
    /\ drafts[DraftOf[c]] # NoDraft => drafts[DraftOf[c]].revision > named[MutationOf[c]]

\* A mutation holds one transaction, and two commits that took effect never
\* the same.
TwinInv ==
  /\ \A c, e \in Commits :
       MutationOf[c] = MutationOf[e] /\ Began(c) /\ Began(e) => held[c] = held[e]
  /\ \A c, e \in Commits :
       Taken(c) /\ Taken(e) /\ c # e => held[c].baseline # held[e].baseline

RoomInv ==
  \A c \in Commits :
    /\ Taken(c) => /\ Began(c) /\ held[c].baseline < room.revision
                   /\ MutationOf[c] \in Keyed => replayed(c)
    /\ landedAt[c] <= room.revision
    /\ room.proposals[c] \in {"pending", "rejected"} => landedAt[c] = 0
    /\ room.proposals[c] = "applied" => landedAt[c] # 0

Landed(d, fence) ==
  fence <= room.revision /\ \E c \in CommitsOf(d) : landedAt[c] \in 1 .. fence

\* What a record of d says of its commits, whether it is still stored or not.
Truthful(d, x) ==
  /\ x.status = "committing" <=> x.committing # Nothing
  /\ x.status = "awaiting_review" <=> x.proposal # Nothing
  /\ x.committing # Nothing =>
       \E c \in CommitsOf(d) : MutationOf[c] = x.committing /\ Began(c) /\ held[c] = Tx(x)
  /\ x.evidence # Nothing =>
       \E c \in CommitsOf(d) : /\ MutationOf[c] = x.committing /\ room.proposals[c] = "none"
                               /\ landedAt[c] = x.evidence /\ x.evidence # 0
  /\ x.proposal # Nothing => x.proposal \in CommitsOf(d) /\ room.proposals[x.proposal] # "none"

DraftInv == \A d \in Drafts : drafts[d] # NoDraft => Truthful(d, drafts[d])

\* What was rejected can be given back: no retry of it takes effect.
RestoreInv ==
  \A c \in Commits : pc[c] = "restore" /\ c \notin gaveUp =>
    /\ Began(c) /\ Dead(c)
    /\ \A e \in Commits : MutationOf[c] = MutationOf[e] => ~Taken(e)

\* A draft that has gone on from a commit has lost it, and of two mutations
\* of a draft one is lost.
LostInv ==
  /\ \A d \in Drafts : drafts[d] # NoDraft /\ drafts[d].proposal = Nothing /\ Certain(d) =>
       \A c \in CommitsOf(d) : Began(c) /\ MutationOf[c] # drafts[d].committing => Lost(c)
  /\ \A d \in Drafts : Certain(d) =>
       \A c, e \in CommitsOf(d) :
         Began(c) /\ Began(e) /\ MutationOf[c] # MutationOf[e] => Lost(c) \/ Lost(e)

EndInv ==
  \A d \in Drafts :
    /\ ended[d].reason = "committed" => Landed(d, ended[d].fence)
    /\ ended[d].reason = "discarded" /\ Certain(d) =>
         \A c \in CommitsOf(d) :
           /\ Began(c) => Dead(c)
           /\ landedAt[c] = 0 /\ room.proposals[c] \in {"none", "rejected"}

ReadInv ==
  \A r \in Readers : reads[r] # Nothing =>
    /\ reads[r].revision <= room.revision
    /\ \A c \in Commits :
         /\ reads[r].proposals[c] = "applied" => landedAt[c] \in 1 .. reads[r].revision
         /\ reads[r].proposals[c] = "rejected" => room.proposals[c] = "rejected"
         /\ reads[r].proposals[c] # "none" => room.proposals[c] # "none"
    /\ reads[r].found # NoDraft => Truthful(reads[r].draft, reads[r].found)

\* The types, the phases of the drafts apart.
Typed ==
  /\ now \in 0 .. MaxTime
  /\ drafts \in [Drafts -> Draft \cup {NoDraft}]
  /\ hdels \subseteq Drafts
  /\ ended \in [Drafts -> Ending]
  /\ history \subseteq [draft : Drafts, revision : Nat, content : SUBSET Edits]
  /\ room \in Room
  /\ inflight \subseteq Commits
  /\ landedAt \in [Commits -> Nat] /\ proposedAt \in [Commits -> Nat]
  /\ pc \in [Commits -> Phases] /\ cnow \in [Commits -> Nat]
  /\ named \in [Mutations -> Nat] /\ held \in [Commits -> Transaction]
  /\ gaveUp \subseteq Commits
  /\ replaced \subseteq Edits
  /\ replacing \in [Edits -> Replacement \cup {Nothing}]
  /\ reads \in [Readers -> Read \cup {Nothing}]

DraftsInv ==
  /\ Typed /\ PhasesOK /\ HistoryInv /\ BaselineInv /\ EditInv /\ CommitInv /\ HeldInv /\ TwinInv
  /\ RoomInv /\ DraftInv /\ RestoreInv /\ LostInv /\ EndInv /\ ReadInv

-----------------------------------------------------------------------------
(* Types.                                                                  *)

\* What an absent, a written and a removed draft are.
LEMMA DraftKinds ==
  ASSUME Typed, NEW d \in Drafts, drafts[d] # NoDraft
  PROVE  drafts[d] \in Draft
BY DEF Typed

\* A record that is written, and one that is removed, leave the store typed.
LEMMA WriteTyped ==
  ASSUME Typed, NEW d \in Drafts, NEW x \in Draft, Write(d, x)
  PROVE  /\ drafts' \in [Drafts -> Draft \cup {NoDraft}]
         /\ ended' \in [Drafts -> Ending]
         /\ history' \subseteq [draft : Drafts, revision : Nat, content : SUBSET Edits]
<1>1. x.revision \in Nat /\ x.content \in SUBSET Edits
  BY DEF Draft
<1>2. drafts' = [drafts EXCEPT ![d] = x] /\ ended' = ended
      /\ history' = history \cup {[draft |-> d, revision |-> x.revision, content |-> x.content]}
  BY DEF Write
<1>3. [draft |-> d, revision |-> x.revision, content |-> x.content]
        \in [draft : Drafts, revision : Nat, content : SUBSET Edits]
  BY <1>1
<1> QED BY <1>2, <1>3 DEF Typed

\* A record that is removed leaves a reason of its kind.
LEMMA RemoveTyped ==
  ASSUME Typed, NEW d \in Drafts, NEW reason \in {"committed", "discarded", "expired"},
         NEW fence \in Nat, Remove(d, reason, fence)
  PROVE  /\ drafts' \in [Drafts -> Draft \cup {NoDraft}]
         /\ ended' \in [Drafts -> Ending]
         /\ history' \subseteq [draft : Drafts, revision : Nat, content : SUBSET Edits]
<1>1. [reason |-> reason, fence |-> fence] \in Ending
  BY DEF Ending
<1> QED BY <1>1 DEF Typed, Remove

\* Clock readings are natural numbers, and so is what is computed from them.
LEMMA Clocks ==
  ASSUME Typed
  PROVE  /\ Recent \subseteq Nat /\ now \in Nat
         /\ \A x \in Draft, t \in Nat : activeUntil(x, t) \in Nat
<1>1. MaxTime \in Nat /\ SlidingTtl \in Nat
  BY DraftsAssumption
<1> QED BY <1>1 DEF Recent, activeUntil, Earlier, Draft, Typed

\* Pruning names drafts.
LEMMA PruneTyped ==
  ASSUME Typed, NEW t, prune(t)
  PROVE  hdels' \subseteq Drafts
BY DEF Typed, prune

-----------------------------------------------------------------------------
(* What an operation makes of a record.                                    *)

SameClaims(x, y) == y.committing = x.committing /\ y.evidence = x.evidence /\ y.proposal = x.proposal

\* A draft as it is staged.
Staged(y, baseline) ==
  /\ y \in Draft
  /\ y.status = "active" /\ y.revision = 1 /\ y.baseline = baseline
  /\ y.committing = Nothing /\ y.evidence = Nothing /\ y.proposal = Nothing

\* An edit: the next revision of what an agent may edit.
Edited(x, y, r) ==
  /\ y \in Draft
  /\ x.status = "active" /\ y.status = "active"
  /\ x.revision = r.named /\ y.revision = r.named + 1
  /\ y.content = r.content /\ y.baseline = r.baseline
  /\ SameClaims(x, y)

\* More time.
Touched(x, y) ==
  /\ y \in Draft
  /\ x.status = "active" /\ y.status = "active" /\ y.revision = x.revision
  /\ Tx(y) = Tx(x) /\ y.content = x.content /\ y.baseline = x.baseline
  /\ SameClaims(x, y)

\* The first phase of a commit.
Begun(x, y, c) ==
  /\ y \in Draft
  /\ x.status = "active" /\ y.status = "committing"
  /\ x.revision = named[MutationOf[c]] /\ y.revision = x.revision + 1
  /\ Tx(y) = Tx(x) /\ y.content = x.content /\ y.baseline = x.baseline
  /\ y.committing = MutationOf[c] /\ y.evidence = Nothing /\ y.proposal = x.proposal
  /\ y.expiresAt = y.hardExpiresAt

\* A rejected commit gives the draft back.
Restored(x, y, c) ==
  /\ y \in Draft
  /\ x.status = "committing" /\ y.status = "active"
  /\ x.committing = MutationOf[c] /\ y.revision = x.revision + 1
  /\ Tx(y) = Tx(x) /\ y.content = x.content /\ y.baseline = x.baseline
  /\ y.committing = Nothing /\ y.evidence = Nothing /\ y.proposal = x.proposal

\* A commit became a proposal.
Queued(x, y, c) ==
  /\ y \in Draft
  /\ x.status = "committing" /\ y.status = "awaiting_review"
  /\ y.revision = x.revision + 1
  /\ Tx(y) = Tx(x) /\ y.content = x.content /\ y.baseline = x.baseline
  /\ y.committing = Nothing /\ y.evidence = x.evidence /\ y.proposal = c
  /\ y.expiresAt = y.hardExpiresAt

\* A commit took effect.
Marked(x, y, c) ==
  /\ y \in Draft
  /\ x.status = "committing" /\ y.status = "committing"
  /\ x.committing = MutationOf[c] /\ y.revision = x.revision
  /\ Tx(y) = Tx(x) /\ y.content = x.content /\ y.baseline = x.baseline
  /\ y.committing = x.committing /\ y.evidence = landedAt[c] /\ y.proposal = x.proposal
  /\ y.expiresAt = x.expiresAt /\ y.hardExpiresAt = x.hardExpiresAt

\* What stage writes.
LEMMA StagedDraft ==
  ASSUME NEW n \in Nat, NEW t \in Nat
  PROVE  Staged([status |-> "active", revision |-> 1, content |-> {},
                 baseline |-> n, committing |-> Nothing, startedAt |-> 0,
                 evidence |-> Nothing, proposal |-> Nothing,
                 expiresAt |-> t + SlidingTtl, hardExpiresAt |-> t + HardTtl], n)
<1> DEFINE slide == t + SlidingTtl
           hard == t + HardTtl
<1>1. slide \in Nat /\ hard \in Nat
  BY DraftsAssumption
<1> HIDE DEF slide, hard
<1>2. [status |-> "active", revision |-> 1, content |-> {},
       baseline |-> n, committing |-> Nothing, startedAt |-> 0,
       evidence |-> Nothing, proposal |-> Nothing,
       expiresAt |-> slide, hardExpiresAt |-> hard] \in Draft
  BY <1>1 DEF Draft
<1> QED BY <1>2 DEF Staged, slide, hard

\* What replace writes.
LEMMA EditedDraft ==
  ASSUME NEW x \in Draft, NEW r \in Replacement, x.status = "active", x.revision = r.named
  PROVE  Edited(x, [x EXCEPT !.revision = r.named + 1, !.content = r.content,
                             !.baseline = r.baseline,
                             !.expiresAt = r.now + SlidingTtl,
                             !.hardExpiresAt = r.now + HardTtl], r)
<1> DEFINE n == r.named + 1
           slide == r.now + SlidingTtl
           hard == r.now + HardTtl
           y == [x EXCEPT !.revision = n, !.content = r.content, !.baseline = r.baseline,
                          !.expiresAt = slide, !.hardExpiresAt = hard]
<1>1. /\ n \in Nat /\ slide \in Nat /\ hard \in Nat
      /\ r.content \in SUBSET Edits /\ r.baseline \in Nat
  BY DraftsAssumption DEF Replacement
<1> HIDE DEF n, slide, hard
<1>2. y \in Draft
  BY <1>1 DEF Draft
<1>3. /\ y.status = x.status /\ y.revision = n /\ y.content = r.content
      /\ y.baseline = r.baseline /\ SameClaims(x, y)
  BY DEF Draft, SameClaims
<1> HIDE DEF y
<1>4. Edited(x, y, r)
  BY <1>2, <1>3 DEF Edited, n
<1> QED BY <1>4 DEF y, n, slide, hard

\* What touch writes.
LEMMA TouchedDraft ==
  ASSUME NEW x \in Draft, x.status = "active", NEW t \in Nat
  PROVE  Touched(x, [x EXCEPT !.expiresAt = t])
<1> DEFINE y == [x EXCEPT !.expiresAt = t]
<1>1. y \in Draft
  BY DEF Draft
<1>2. /\ y.status = x.status /\ y.revision = x.revision /\ y.content = x.content
      /\ y.baseline = x.baseline /\ SameClaims(x, y)
  BY DEF Draft, SameClaims
<1> HIDE DEF y
<1>3. Touched(x, y)
  BY <1>1, <1>2 DEF Touched, Tx
<1> QED BY <1>3 DEF y

\* What beginCommit writes.
LEMMA BegunDraft ==
  ASSUME NEW x \in Draft, NEW c \in Commits, NEW t \in Nat,
         x.status = "active", x.revision = named[MutationOf[c]]
  PROVE  Begun(x, [x EXCEPT !.status = "committing", !.revision = @ + 1,
                            !.committing = MutationOf[c], !.startedAt = t,
                            !.evidence = Nothing, !.expiresAt = x.hardExpiresAt], c)
<1> DEFINE n == x.revision + 1
           m == MutationOf[c]
           hard == x.hardExpiresAt
           y == [x EXCEPT !.status = "committing", !.revision = n, !.committing = m,
                          !.startedAt = t, !.evidence = Nothing, !.expiresAt = hard]
<1>1. n \in Nat /\ m \in Mutations /\ hard \in Nat
  BY DraftsAssumption DEF Draft
<1>2. y = [x EXCEPT !.status = "committing", !.revision = @ + 1, !.committing = MutationOf[c],
                    !.startedAt = t, !.evidence = Nothing, !.expiresAt = x.hardExpiresAt]
  BY DEF Draft
<1> HIDE DEF n, m, hard
<1>3. y \in Draft
  BY <1>1 DEF Draft
<1>4. /\ y.status = "committing" /\ y.revision = n /\ y.content = x.content
      /\ y.baseline = x.baseline /\ y.committing = m /\ y.evidence = Nothing
      /\ y.proposal = x.proposal /\ y.expiresAt = hard /\ y.hardExpiresAt = hard
  BY DEF Draft, hard
<1> HIDE DEF y
<1>5. Begun(x, y, c)
  BY <1>3, <1>4 DEF Begun, Tx, n, m
<1> QED BY <1>2, <1>5

\* What restoreActive writes.
LEMMA RestoredDraft ==
  ASSUME NEW x \in Draft, NEW c \in Commits, NEW t \in Nat,
         x.status = "committing", x.committing = MutationOf[c]
  PROVE  Restored(x, [x EXCEPT !.status = "active", !.revision = @ + 1,
                               !.committing = Nothing, !.evidence = Nothing,
                               !.expiresAt = t], c)
<1> DEFINE n == x.revision + 1
           y == [x EXCEPT !.status = "active", !.revision = n, !.committing = Nothing,
                          !.evidence = Nothing, !.expiresAt = t]
<1>1. n \in Nat
  BY DEF Draft
<1>2. y = [x EXCEPT !.status = "active", !.revision = @ + 1, !.committing = Nothing,
                    !.evidence = Nothing, !.expiresAt = t]
  BY DEF Draft
<1> HIDE DEF n
<1>3. y \in Draft
  BY <1>1 DEF Draft
<1>4. /\ y.status = "active" /\ y.revision = n /\ y.content = x.content
      /\ y.baseline = x.baseline /\ y.committing = Nothing /\ y.evidence = Nothing
      /\ y.proposal = x.proposal
  BY DEF Draft
<1> HIDE DEF y
<1>5. Restored(x, y, c)
  BY <1>3, <1>4 DEF Restored, Tx, n
<1> QED BY <1>2, <1>5

\* What markAwaitingReview writes.
LEMMA QueuedDraft ==
  ASSUME NEW x \in Draft, NEW c \in Commits, x.status = "committing"
  PROVE  Queued(x, awaitingReview(x, c), c)
<1> DEFINE n == x.revision + 1
           hard == x.hardExpiresAt
           y == [x EXCEPT !.status = "awaiting_review", !.revision = n,
                          !.committing = Nothing, !.proposal = c, !.expiresAt = hard]
<1>1. n \in Nat /\ hard \in Nat
  BY DEF Draft
<1>2. y = awaitingReview(x, c)
  BY DEF Draft, awaitingReview
<1> HIDE DEF n, hard
<1>3. y \in Draft
  BY <1>1 DEF Draft
<1>4. /\ y.status = "awaiting_review" /\ y.revision = n /\ y.content = x.content
      /\ y.baseline = x.baseline /\ y.committing = Nothing /\ y.evidence = x.evidence
      /\ y.proposal = c /\ y.expiresAt = hard /\ y.hardExpiresAt = hard
  BY DEF Draft, hard
<1> HIDE DEF y
<1>5. Queued(x, y, c)
  BY <1>3, <1>4 DEF Queued, Tx, n
<1> QED BY <1>2, <1>5

\* What markAuthoritativelyCommitted writes.
LEMMA MarkedDraft ==
  ASSUME NEW x \in Draft, NEW c \in Commits, landedAt[c] \in Nat,
         x.status = "committing", x.committing = MutationOf[c]
  PROVE  Marked(x, [x EXCEPT !.evidence = landedAt[c]], c)
<1> DEFINE n == landedAt[c]
           y == [x EXCEPT !.evidence = n]
<1> HIDE DEF n
<1>1. y \in Draft
  BY DEF Draft, n
<1>2. /\ y.status = x.status /\ y.revision = x.revision /\ y.content = x.content
      /\ y.baseline = x.baseline /\ y.committing = x.committing /\ y.evidence = n
      /\ y.proposal = x.proposal /\ y.expiresAt = x.expiresAt
      /\ y.hardExpiresAt = x.hardExpiresAt
  BY DEF Draft
<1> HIDE DEF y
<1>3. Marked(x, y, c)
  BY <1>1, <1>2 DEF Marked, Tx, n
<1> QED BY <1>3 DEF y, n

-----------------------------------------------------------------------------
(* What a step does to the drafts.                                         *)

\* How a stored draft d goes from x to y.
Rewrites(d, x, y) ==
  \/ \E e \in Edits : EditedBy[e] = d /\ replacing[e] # Nothing /\ Edited(x, y, replacing[e])
  \/ Touched(x, y)
  \/ \E c \in CommitsOf(d) :
       pc[c] = "begin" /\ Begun(x, y, c) /\ held' = [held EXCEPT ![c] = Tx(x)]
  \/ \E c \in CommitsOf(d) : pc[c] = "restore" /\ Restored(x, y, c)
  \/ \E c \in CommitsOf(d) : room.proposals[c] # "none" /\ x.evidence = Nothing /\ Queued(x, y, c)
  \/ \E c \in CommitsOf(d) : pc[c] = "mark" /\ Marked(x, y, c)

\* Why a draft is removed.
Ends(d, x, ending) ==
  \/ ending.reason = "expired"
  \/ ending.reason = "committed" /\ Landed(d, ending.fence)
  \/ /\ ending.reason = "discarded"
     /\ x.status = "active" \/ \E c \in CommitsOf(d) : room.proposals[c] = "rejected"

Evolves(d) ==
  \/ drafts'[d] = drafts[d] /\ ended'[d] = ended[d]
  \/ /\ drafts[d] = NoDraft /\ ended[d].reason = "none"
     /\ Staged(drafts'[d], room.revision) /\ ended'[d] = ended[d]
  \/ /\ drafts[d] # NoDraft /\ ended'[d] = ended[d]
     /\ Rewrites(d, drafts[d], drafts'[d])
  \/ /\ drafts[d] # NoDraft /\ drafts'[d] = NoDraft
     /\ Ends(d, drafts[d], ended'[d])

\* Every revision of a draft is in the history.
Recorded ==
  /\ history \subseteq history'
  /\ \A h \in history' :
       h \in history \/ (drafts'[h.draft] # NoDraft /\ h.revision = drafts'[h.draft].revision)
  /\ \A d \in Drafts : drafts'[d] # NoDraft =>
       \/ drafts'[d] = drafts[d]
       \/ Entry(d, drafts'[d].revision, drafts'[d].content) \in history'

StoreMoves ==
  /\ drafts' \in [Drafts -> Draft \cup {NoDraft}]
  /\ ended' \in [Drafts -> Ending]
  /\ history' \subseteq [draft : Drafts, revision : Nat, content : SUBSET Edits]
  /\ \A d \in Drafts : Evolves(d)
  /\ Recorded

\* A step that leaves the store alone.
LEMMA StoreStays ==
  ASSUME Typed, UNCHANGED storeVars
  PROVE  StoreMoves
BY DEF Typed, StoreMoves, Evolves, Recorded, storeVars

\* A record that is written goes where its operation takes it, and into the history.
LEMMA WriteMoves ==
  ASSUME Typed, NEW d \in Drafts, NEW y \in Draft, Write(d, y),
         \/ drafts[d] = NoDraft /\ ended[d].reason = "none" /\ Staged(y, room.revision)
         \/ drafts[d] # NoDraft /\ Rewrites(d, drafts[d], y)
  PROVE  StoreMoves
<1>1. /\ drafts' = [drafts EXCEPT ![d] = y]
      /\ history' = history \cup {Entry(d, y.revision, y.content)}
      /\ ended' = ended
  BY DEF Write, Entry
<1>2. drafts'[d] = y /\ \A i \in Drafts : i # d => drafts'[i] = drafts[i]
  BY <1>1 DEF Typed
<1>3. \A i \in Drafts : Evolves(i)
  <2> SUFFICES ASSUME NEW i \in Drafts PROVE Evolves(i)
    OBVIOUS
  <2>1. CASE i # d
    BY <1>1, <1>2, <2>1 DEF Evolves
  <2>2. CASE i = d
    <3>1. drafts'[i] = y /\ ended'[i] = ended[i]
      BY <1>1, <1>2, <2>2
    <3> QED BY <2>2, <3>1 DEF Evolves
  <2> QED BY <2>1, <2>2
<1>4. Recorded
  <2>1. y # NoDraft
    BY NoDraftAssumption
  <2>2. history \subseteq history' /\ Entry(d, y.revision, y.content) \in history'
    BY <1>1
  <2>3. \A h \in history' :
          h \in history \/ (drafts'[h.draft] # NoDraft /\ h.revision = drafts'[h.draft].revision)
    <3> SUFFICES ASSUME NEW h \in history', h \notin history
                 PROVE  drafts'[h.draft] # NoDraft /\ h.revision = drafts'[h.draft].revision
      OBVIOUS
    <3>1. h = Entry(d, y.revision, y.content)
      BY <1>1
    <3>2. h.draft = d /\ h.revision = y.revision
      BY <3>1 DEF Entry
    <3> QED BY <1>2, <2>1, <3>2
  <2>4. \A i \in Drafts : \/ drafts'[i] = drafts[i]
                          \/ Entry(i, drafts'[i].revision, drafts'[i].content) \in history'
    BY <1>2, <2>2
  <2> QED BY <2>2, <2>3, <2>4 DEF Recorded
<1> QED BY <1>3, <1>4, WriteTyped DEF StoreMoves

\* A record that is removed leaves an ending, and its history.
LEMMA RemoveMoves ==
  ASSUME Typed, NEW d \in Drafts, drafts[d] # NoDraft,
         NEW reason \in {"committed", "discarded", "expired"}, NEW fence \in Nat,
         Remove(d, reason, fence),
         Ends(d, drafts[d], [reason |-> reason, fence |-> fence])
  PROVE  StoreMoves
<1>1. /\ drafts' = [drafts EXCEPT ![d] = NoDraft]
      /\ ended' = [ended EXCEPT ![d] = [reason |-> reason, fence |-> fence]]
      /\ history' = history
  BY DEF Remove
<1>2. /\ drafts'[d] = NoDraft /\ ended'[d] = [reason |-> reason, fence |-> fence]
      /\ \A i \in Drafts : i # d => drafts'[i] = drafts[i] /\ ended'[i] = ended[i]
  BY <1>1 DEF Typed
<1>3. \A i \in Drafts : Evolves(i)
  <2> SUFFICES ASSUME NEW i \in Drafts PROVE Evolves(i)
    OBVIOUS
  <2>1. CASE i # d
    BY <1>2, <2>1 DEF Evolves
  <2>2. CASE i = d
    BY <1>2, <2>2 DEF Evolves
  <2> QED BY <2>1, <2>2
<1>4. Recorded
  BY <1>1, <1>2 DEF Recorded
<1> QED BY <1>3, <1>4, RemoveTyped DEF StoreMoves

-----------------------------------------------------------------------------
(* What a step does to the room, the requests and the reads.               *)

Keeps(c) == room'.proposals[c] = room.proposals[c] /\ landedAt'[c] = landedAt[c]

\* The mutation of c takes effect.
Takes(c) ==
  /\ c \in inflight /\ c \notin inflight'
  /\ ~replayed(c) /\ ~Dead(c) /\ held' = held
  /\ room'.revision = room.revision + 1
  /\ MutationOf[c] \in Keyed => MutationOf[c] \in room'.receipts
  /\ \/ room'.proposals[c] = "pending" /\ landedAt'[c] = landedAt[c]
     \/ room'.proposals[c] = room.proposals[c] /\ landedAt'[c] = room'.revision

\* Its proposal is decided.
Decides(c) ==
  /\ room.proposals[c] = "pending" /\ room'.revision = room.revision + 1
  /\ \/ room'.proposals[c] = "applied" /\ landedAt'[c] = room'.revision
     \/ room'.proposals[c] = "rejected" /\ landedAt'[c] = landedAt[c]

RoomMoves ==
  /\ room' \in Room /\ landedAt' \in [Commits -> Nat] /\ proposedAt' \in [Commits -> Nat]
  /\ room' = room \/ (room'.revision = room.revision + 1 /\ held' = held)
  /\ room.receipts \subseteq room'.receipts
  /\ \A c \in Commits : Keeps(c) \/ Takes(c) \/ Decides(c)

\* c takes the transaction of its draft, which begins to commit or already has.
Begins(c) ==
  LET d == DraftOf[c] IN
  /\ pc[c] = "begin" /\ pc'[c] = "submit"
  /\ drafts[d] # NoDraft
  /\ held' = [held EXCEPT ![c] = Tx(drafts[d])]
  /\ UNCHANGED <<room, landedAt, inflight, gaveUp, named>>
  /\ \/ drafts[d].committing = MutationOf[c] /\ drafts' = drafts
     \/ Begun(drafts[d], drafts'[d], c)

\* The room refuses c, or its caller cannot tell.
Refused(c) ==
  \/ c \in gaveUp'
  \/ c \in inflight /\ c \notin inflight' /\ ~replayed(c) /\ Dead(c) /\ room' = room
     /\ landedAt' = landedAt /\ held' = held

Advances(c) ==
  \/ pc'[c] = pc[c] \/ pc'[c] = "done"
  \/ pc[c] = "idle" /\ pc'[c] = "check"
  \/ pc[c] = "check" /\ pc'[c] = "begin"
  \/ Begins(c)
  \/ pc[c] = "submit" /\ pc'[c] = "wait"
  \/ pc'[c] = "review" /\ Takes(c) /\ room'.proposals[c] = "pending"
  \/ pc'[c] = "mark" /\ Takes(c) /\ room'.proposals[c] = room.proposals[c]
     /\ landedAt'[c] = room'.revision
  \/ pc'[c] = "restore" /\ Refused(c)
  \/ pc[c] = "mark" /\ pc'[c] = "cleanup"

CommitMoves ==
  /\ pc' \in [Commits -> Phases] /\ cnow' \in [Commits -> Nat]
  /\ named' \in [Mutations -> Nat] /\ held' \in [Commits -> Transaction]
  /\ gaveUp \subseteq gaveUp' /\ gaveUp' \subseteq Commits /\ inflight' \subseteq Commits
  /\ \A c \in Commits : Advances(c)
  /\ held' = held \/ \E c \in Commits : Begins(c)
  /\ \A c \in inflight' : c \in inflight \/ (pc[c] = "submit" /\ pc'[c] = "wait" /\ held' = held)
  /\ \A c, e \in inflight \ inflight' : c = e
  /\ \A m \in Mutations : named'[m] = named[m] \/ named[m] = 0
  /\ \A c \in Commits : pc'[c] # "idle" =>
       pc[c] # "idle" \/ named'[MutationOf[c]] \in SeenRevisions(DraftOf[c])

\* A replace request has read the draft and the room.
HasRead(e, r) ==
  /\ r \in Replacement
  /\ r.named \in SeenRevisions(EditedBy[e]) /\ r.baseline = room.revision
  /\ e \in Patches => r.content = drafts[EditedBy[e]].content \cup {e}
  /\ UNCHANGED drafts

EditMoves ==
  /\ replaced' \subseteq Edits /\ replacing' \in [Edits -> Replacement \cup {Nothing}]
  /\ \A e \in Edits :
       replacing'[e] = replacing[e] \/ replacing'[e] = Nothing \/ HasRead(e, replacing'[e])

\* A read of the room, then of the draft.
HasRoom(read) ==
  read.revision = room.revision /\ read.proposals = room.proposals /\ read.found = NoDraft
HasDraft(old, read) ==
  /\ old # Nothing /\ read.revision = old.revision /\ read.proposals = old.proposals
  /\ read.found # NoDraft => read.draft \in Drafts /\ read.found = drafts[read.draft]

ReadMoves ==
  /\ reads' \in [Readers -> Read \cup {Nothing}]
  /\ \A r \in Readers :
       \/ reads'[r] = reads[r] \/ reads'[r] = Nothing
       \/ (HasRoom(reads'[r]) \/ HasDraft(reads[r], reads'[r])) /\ UNCHANGED <<room, landedAt>>

RestMoves == now' \in 0 .. MaxTime /\ hdels' \subseteq Drafts

Moves == StoreMoves /\ RoomMoves /\ CommitMoves /\ EditMoves /\ ReadMoves /\ RestMoves

\* What a step leaves alone: the room,
LEMMA RoomStays ==
  ASSUME Typed, UNCHANGED <<room, landedAt, proposedAt>>
  PROVE  RoomMoves
BY DEF Typed, RoomMoves, Keeps

\* The same of the commit requests,
LEMMA CommitStays ==
  ASSUME Typed, UNCHANGED <<commitVars, inflight>>
  PROVE  CommitMoves
BY DEF Typed, CommitMoves, commitVars, Advances

\* of the replace requests,
LEMMA EditStays ==
  ASSUME Typed, UNCHANGED editVars
  PROVE  EditMoves
BY DEF Typed, EditMoves, editVars

\* and of the reads.
LEMMA ReadStays ==
  ASSUME Typed, UNCHANGED reads
  PROVE  ReadMoves
BY DEF Typed, ReadMoves

\* A step of the store alone.
LEMMA StoreOnly ==
  ASSUME Typed, StoreMoves, hdels' \subseteq Drafts,
         UNCHANGED <<now, roomVars, commitVars, editVars, reads>>
  PROVE  Moves
BY RoomStays, CommitStays, EditStays, ReadStays DEF Moves, RestMoves, Typed, roomVars

\* A step of a commit request.
LEMMA CommitOnly ==
  ASSUME Typed, StoreMoves, RoomMoves, CommitMoves, hdels' \subseteq Drafts,
         UNCHANGED <<now, editVars, reads>>
  PROVE  Moves
BY EditStays, ReadStays DEF Moves, RestMoves, Typed

\* A step of a reader.
LEMMA ReadOnly ==
  ASSUME Typed, StoreMoves, ReadMoves, hdels' \subseteq Drafts,
         UNCHANGED <<now, roomVars, commitVars, editVars>>
  PROVE  Moves
BY RoomStays, CommitStays, EditStays DEF Moves, RestMoves, Typed, roomVars

\* One commit request goes on.
LEMMA OneCommit ==
  ASSUME Typed, NEW c \in Commits, NEW p \in Phases, p # "idle",
         pc' = [pc EXCEPT ![c] = p],
         cnow' \in [Commits -> Nat], named' \in [Mutations -> Nat],
         held' \in [Commits -> Transaction],
         gaveUp \subseteq gaveUp', gaveUp' \subseteq Commits,
         inflight' \subseteq inflight \cup {c}, inflight \subseteq inflight' \cup {c},
         c \in inflight' => c \in inflight \/ (pc[c] = "submit" /\ p = "wait" /\ held' = held),
         Advances(c),
         held' = held \/ Begins(c),
         \/ named' = named /\ pc[c] # "idle"
         \/ \E n \in SeenRevisions(DraftOf[c]) :
              /\ named[MutationOf[c]] \in {0, n}
              /\ named' = [named EXCEPT ![MutationOf[c]] = n]
  PROVE  CommitMoves
<1>1. pc' \in [Commits -> Phases] /\ inflight' \subseteq Commits
  BY DEF Typed
<1>2. pc'[c] = p /\ \A e \in Commits : e # c => pc'[e] = pc[e]
  BY DEF Typed
<1>3. \A e \in Commits : Advances(e)
  BY <1>2 DEF Advances
<1>4. \A e \in inflight' : e \in inflight \/ (pc[e] = "submit" /\ pc'[e] = "wait" /\ held' = held)
  BY <1>2
<1>5. ASSUME NEW m \in Mutations PROVE named'[m] = named[m] \/ named[m] = 0
  <2>1. CASE named' = named
    BY <2>1
  <2>2. ASSUME NEW n, named[MutationOf[c]] \in {0, n},
               named' = [named EXCEPT ![MutationOf[c]] = n]
        PROVE  named'[m] = named[m] \/ named[m] = 0
    <3>1. named'[m] = IF m = MutationOf[c] THEN n ELSE named[m]
      BY <2>2 DEF Typed
    <3> QED BY <2>2, <3>1
  <2> QED BY <2>1, <2>2
<1>6. ASSUME pc[c] = "idle"
      PROVE  named'[MutationOf[c]] \in SeenRevisions(DraftOf[c])
  <2>1. PICK n \in SeenRevisions(DraftOf[c]) : named' = [named EXCEPT ![MutationOf[c]] = n]
    BY <1>6
  <2>2. MutationOf[c] \in Mutations /\ named \in [Mutations -> Nat]
    BY DraftsAssumption DEF Typed
  <2>3. named'[MutationOf[c]] = n
    BY <2>1, <2>2
  <2> QED BY <2>3
<1>7. \A e \in Commits : pc'[e] # "idle" =>
        pc[e] # "idle" \/ named'[MutationOf[e]] \in SeenRevisions(DraftOf[e])
  BY <1>2, <1>6
<1> QED BY <1>1, <1>3, <1>4, <1>5, <1>7 DEF CommitMoves

-----------------------------------------------------------------------------
(* The actions, as these moves: the owner's.                               *)

\* A new draft starts at the room as it is.
LEMMA StageMoves ==
  ASSUME DraftsInv, NEW d \in Drafts, stage(d)
  PROVE  Moves
<1> DEFINE y(t) == [status |-> "active", revision |-> 1, content |-> {},
                    baseline |-> room.revision, committing |-> Nothing, startedAt |-> 0,
                    evidence |-> Nothing, proposal |-> Nothing,
                    expiresAt |-> t + SlidingTtl, hardExpiresAt |-> t + HardTtl]
<1>1. Typed
  BY DEF DraftsInv
<1>2. PICK t \in Recent : prune(t) /\ Write(d, y(t))
  BY DEF stage
<1>3. t \in Nat /\ room.revision \in Nat
  BY <1>1, Clocks DEF Typed, Room
<1>4. Staged(y(t), room.revision)
  BY <1>3, StagedDraft
<1> HIDE DEF y
<1>5. y(t) \in Draft
  BY <1>4 DEF Staged
<1>6. drafts[d] = NoDraft /\ ended[d].reason = "none"
  BY DEF stage
<1>7. StoreMoves
  BY <1>1, <1>2, <1>4, <1>5, <1>6, WriteMoves
<1>8. UNCHANGED <<now, roomVars, commitVars, editVars, reads>>
  BY DEF stage
<1> QED BY <1>1, <1>2, <1>7, <1>8, PruneTyped, StoreOnly

\* A replace request reads the draft and the room.
LEMMA ReadForEditMoves ==
  ASSUME DraftsInv, NEW e \in Edits, ReadForEdit(e)
  PROVE  Moves
<1> DEFINE d == EditedBy[e]
           content == IF e \in Patches THEN drafts[d].content \cup {e} ELSE {e}
           r(t, n) == [now |-> t, named |-> n, baseline |-> room.revision, content |-> content]
<1>1. Typed /\ d \in Drafts
  BY DraftsAssumption DEF DraftsInv
<1>2. PICK t \in Recent, n \in SeenRevisions(d) :
        prune(t) /\ Live(d, t) /\ replacing' = [replacing EXCEPT ![e] = r(t, n)]
  BY DEF ReadForEdit
<1>3. t \in Nat /\ n \in Nat /\ room.revision \in Nat
  BY <1>1, Clocks DEF Typed, Room, SeenRevisions
<1>4. content \in SUBSET Edits
  BY <1>1, <1>2, DraftKinds DEF Live, Draft
<1>5. r(t, n) \in Replacement
  <2> HIDE DEF content
  <2> QED BY <1>3, <1>4 DEF Replacement
<1>6. /\ UNCHANGED <<now, storeVars, roomVars, commitVars, replaced, reads>>
      /\ drafts' = drafts
  BY DEF ReadForEdit, storeVars
<1>7. HasRead(e, r(t, n))
  <2>1. e \in Patches => r(t, n).content = drafts[EditedBy[e]].content \cup {e}
    OBVIOUS
  <2>2. r(t, n).named = n /\ r(t, n).baseline = room.revision
    OBVIOUS
  <2> HIDE DEF r
  <2> QED BY <1>2, <1>5, <1>6, <2>1, <2>2 DEF HasRead
<1> HIDE DEF r, content
<1>8. EditMoves
  BY <1>1, <1>2, <1>5, <1>6, <1>7 DEF EditMoves, Typed
<1>9. hdels' \subseteq Drafts
  BY <1>1, <1>2, PruneTyped
<1> QED BY <1>1, <1>6, <1>8, <1>9, StoreStays, RoomStays, CommitStays, ReadStays
        DEF Moves, RestMoves, Typed, roomVars

\* It writes only on the revision it names.
LEMMA ReplaceMoves ==
  ASSUME DraftsInv, NEW e \in Edits, replace(e)
  PROVE  Moves
<1> DEFINE d == EditedBy[e]
           x == drafts[d]
           r == replacing[e]
           y == [x EXCEPT !.revision = r.named + 1, !.content = r.content,
                          !.baseline = r.baseline,
                          !.expiresAt = r.now + SlidingTtl,
                          !.hardExpiresAt = r.now + HardTtl]
<1>1. Typed /\ d \in Drafts
  BY DraftsAssumption DEF DraftsInv
<1>2. r \in Replacement /\ r # Nothing
  BY <1>1 DEF Typed, replace
<1>3. StoreMoves
  <2>1. CASE Live(d, r.now) /\ editable(x, r.named)
    <3>1. x \in Draft /\ x # NoDraft /\ x.status = "active" /\ x.revision = r.named
      BY <1>1, <2>1, DraftKinds DEF Live, editable
    <3>2. Edited(x, y, r)
      BY <1>2, <3>1, EditedDraft
    <3>3. Write(d, y)
      BY <2>1 DEF replace
    <3> HIDE DEF y
    <3>4. y \in Draft /\ Rewrites(d, x, y)
      BY <1>2, <3>2 DEF Edited, Rewrites
    <3> QED BY <1>1, <3>1, <3>3, <3>4, WriteMoves
  <2>2. CASE ~(Live(d, r.now) /\ editable(x, r.named))
    BY <1>1, <2>2, StoreStays DEF replace
  <2> QED BY <2>1, <2>2
<1>4. EditMoves
  BY <1>1 DEF EditMoves, Typed, replace
<1>5. UNCHANGED <<now, hdels, roomVars, commitVars, reads>>
  BY DEF replace
<1> QED BY <1>1, <1>3, <1>4, <1>5, RoomStays, CommitStays, ReadStays
        DEF Moves, RestMoves, Typed, roomVars

\* A touch gives an active draft more time.
LEMMA TouchMoves ==
  ASSUME DraftsInv, NEW d \in Drafts, touch(d)
  PROVE  Moves
<1> DEFINE x == drafts[d]
           y(t) == [x EXCEPT !.expiresAt = activeUntil(x, t)]
<1>1. Typed
  BY DEF DraftsInv
<1>2. PICK t \in Recent : Live(d, t) /\ x.status = "active" /\ Write(d, y(t))
  BY DEF touch
<1>3. x # NoDraft /\ x \in Draft
  BY <1>1, <1>2, DraftKinds DEF Live
<1>4. activeUntil(x, t) \in Nat
  BY <1>1, <1>3, Clocks
<1>5. Touched(x, y(t))
  BY <1>2, <1>3, <1>4, TouchedDraft
<1> HIDE DEF y
<1>6. y(t) \in Draft /\ Rewrites(d, x, y(t))
  BY <1>5 DEF Touched, Rewrites
<1>7. StoreMoves
  BY <1>1, <1>2, <1>3, <1>6, WriteMoves
<1>8. UNCHANGED <<now, hdels, roomVars, commitVars, editVars, reads>>
  BY DEF touch
<1> QED BY <1>1, <1>7, <1>8, StoreOnly DEF Typed

\* An owner discards what is active.
LEMMA DiscardMoves ==
  ASSUME DraftsInv, NEW d \in Drafts, discard(d)
  PROVE  Moves
<1>1. Typed
  BY DEF DraftsInv
<1>2. drafts[d] # NoDraft /\ drafts[d].status = "active" /\ Remove(d, "discarded", 0)
  BY DEF discard, Live
<1>3. Ends(d, drafts[d], [reason |-> "discarded", fence |-> 0])
  BY <1>2 DEF Ends
<1>4. StoreMoves
  BY <1>1, <1>2, <1>3, RemoveMoves
<1>5. UNCHANGED <<now, hdels, roomVars, commitVars, editVars, reads>>
  BY DEF discard
<1> QED BY <1>1, <1>4, <1>5, StoreOnly DEF Typed

-----------------------------------------------------------------------------
(* Redis and the clock.                                                    *)

\* A draft that has expired goes.
LEMMA Expires ==
  ASSUME Typed, NEW d \in Drafts, drafts[d] # NoDraft, Remove(d, "expired", 0)
  PROVE  StoreMoves
<1>1. Ends(d, drafts[d], [reason |-> "expired", fence |-> 0])
  BY DEF Ends
<1> QED BY <1>1, RemoveMoves

\* The HDEL of a read removes whatever is there.
LEMMA HDelMoves ==
  ASSUME DraftsInv, NEW d \in Drafts, HDel(d)
  PROVE  Moves
<1>1. Typed
  BY DEF DraftsInv
<1>2. StoreMoves
  BY <1>1, StoreStays, Expires DEF HDel
<1>3. hdels' \subseteq Drafts /\ UNCHANGED <<now, roomVars, commitVars, editVars, reads>>
  BY <1>1 DEF HDel, Typed
<1> QED BY <1>1, <1>2, <1>3, StoreOnly

\* Redis drops what has expired.
LEMMA ExpireMoves ==
  ASSUME DraftsInv, NEW d \in Drafts, Expire(d)
  PROVE  Moves
<1>1. Typed
  BY DEF DraftsInv
<1>2. StoreMoves
  BY <1>1, Expires DEF Expire
<1>3. hdels' \subseteq Drafts /\ UNCHANGED <<now, roomVars, commitVars, editVars, reads>>
  BY <1>1 DEF Expire, Typed
<1> QED BY <1>1, <1>2, <1>3, StoreOnly

\* Time passes.
LEMMA TickMoves ==
  ASSUME DraftsInv, Tick
  PROVE  Moves
<1>1. Typed
  BY DEF DraftsInv
<1>2. now' \in 0 .. MaxTime /\ UNCHANGED <<hdels, storeVars, roomVars, commitVars, editVars, reads>>
  BY <1>1, DraftsAssumption DEF Tick, Typed
<1> QED BY <1>1, <1>2, StoreStays, RoomStays, CommitStays, EditStays, ReadStays
        DEF Moves, RestMoves, Typed, roomVars

-----------------------------------------------------------------------------
(* A commit request.                                                       *)

\* A request, or its retry, names a revision that was seen.
LEMMA StartCommitMoves ==
  ASSUME DraftsInv, NEW c \in Commits, StartCommit(c)
  PROVE  Moves
<1> DEFINE m == MutationOf[c]
           p == IF m \in room.receipts THEN "done" ELSE "check"
<1>1. Typed /\ m \in Mutations
  BY DraftsAssumption DEF DraftsInv
<1>2. /\ pc[c] = "idle" /\ pc' = [pc EXCEPT ![c] = p]
      /\ UNCHANGED <<now, hdels, storeVars, roomVars, held, gaveUp, editVars, reads>>
  BY DEF StartCommit
<1>3. PICK n \in SeenRevisions(DraftOf[c]) :
        named[m] \in {0, n} /\ named' = [named EXCEPT ![m] = n]
  BY DEF StartCommit
<1>4. n \in Nat /\ named' \in [Mutations -> Nat] /\ cnow' \in [Commits -> Nat]
  <2>1. n \in Nat
    BY <1>1 DEF Typed, SeenRevisions
  <2>2. cnow' \in [Commits -> Nat]
    BY <1>1, Clocks DEF Typed, StartCommit
  <2> QED BY <1>1, <1>3, <2>1, <2>2 DEF Typed
<1>5. p \in {"done", "check"} /\ pc'[c] = p
  BY <1>1, <1>2 DEF Typed
<1>6. Advances(c)
  BY <1>2, <1>5 DEF Advances
<1>7. /\ held' = held /\ gaveUp' = gaveUp /\ inflight' = inflight
      /\ held' \in [Commits -> Transaction] /\ gaveUp \subseteq Commits
  BY <1>1, <1>2 DEF Typed, roomVars
<1> HIDE DEF p
<1>8. p \in Phases /\ p # "idle"
  BY <1>5 DEF Phases
<1>9. CommitMoves
  BY <1>1, <1>2, <1>3, <1>4, <1>6, <1>7, <1>8, OneCommit
<1> QED BY <1>1, <1>2, <1>9, StoreStays, RoomStays, CommitOnly DEF Typed, roomVars

\* A step that changes nothing of the request but its phase, and may give up.
LEMMA PhaseMoves ==
  ASSUME Typed, NEW c \in Commits, pc[c] # "idle", NEW p \in Phases, p # "idle",
         pc' = [pc EXCEPT ![c] = p], Advances(c),
         UNCHANGED <<cnow, named, held>>,
         gaveUp' = gaveUp \/ gaveUp' = gaveUp \cup {c},
         inflight' = inflight \/ inflight' = inflight \ {c}
  PROVE  CommitMoves
<1>1. /\ cnow' \in [Commits -> Nat] /\ named' \in [Mutations -> Nat]
      /\ held' \in [Commits -> Transaction]
      /\ gaveUp \subseteq gaveUp' /\ gaveUp' \subseteq Commits
  BY DEF Typed
<1>2. /\ inflight' \subseteq inflight \cup {c} /\ inflight \subseteq inflight' \cup {c}
      /\ c \in inflight' => c \in inflight
  OBVIOUS
<1> QED BY <1>1, <1>2, OneCommit

\* It looks at the draft first.
LEMMA CheckDraftMoves ==
  ASSUME DraftsInv, NEW c \in Commits, CheckDraft(c)
  PROVE  Moves
<1> DEFINE p == IF Live(DraftOf[c], cnow[c])
                   /\ drafts[DraftOf[c]].revision = named[MutationOf[c]]
                THEN "begin" ELSE "done"
<1>1. Typed
  BY DEF DraftsInv
<1>2. /\ pc[c] = "check" /\ pc' = [pc EXCEPT ![c] = p] /\ prune(cnow[c])
      /\ UNCHANGED <<now, storeVars, roomVars, cnow, named, held, gaveUp, editVars, reads>>
  BY DEF CheckDraft
<1>3. p \in {"done", "begin"} /\ pc'[c] = p
  BY <1>1, <1>2 DEF Typed
<1>4. Advances(c)
  BY <1>2, <1>3 DEF Advances
<1> HIDE DEF p
<1>5. p \in Phases /\ p # "idle"
  BY <1>3 DEF Phases
<1>6. CommitMoves
  BY <1>1, <1>2, <1>4, <1>5, PhaseMoves DEF roomVars
<1>7. hdels' \subseteq Drafts
  BY <1>1, <1>2, PruneTyped
<1> QED BY <1>1, <1>2, <1>6, <1>7, StoreStays, RoomStays, CommitOnly DEF roomVars

\* It takes the transaction: from an active draft, or again from its own.
LEMMA beginCommitMoves ==
  ASSUME DraftsInv, NEW c \in Commits, beginCommit(c)
  PROVE  Moves
<1> DEFINE d == DraftOf[c]
           m == MutationOf[c]
           x == drafts[d]
           y == [x EXCEPT !.status = "committing", !.revision = @ + 1,
                          !.committing = m, !.startedAt = cnow[c],
                          !.evidence = Nothing, !.expiresAt = x.hardExpiresAt]
           resumed == x.status = "committing" /\ x.committing = m
           goes == Live(d, cnow[c]) /\ (resumed \/ committable(x, named[m]))
<1>1. Typed /\ d \in Drafts /\ m \in Mutations /\ c \in CommitsOf(d)
  BY DraftsAssumption DEF DraftsInv, CommitsOf
<1>2. /\ pc[c] = "begin" /\ cnow' = [cnow EXCEPT ![c] = 0]
      /\ UNCHANGED <<now, hdels, roomVars, named, gaveUp, editVars, reads>>
  BY DEF beginCommit
<1>3. /\ cnow' \in [Commits -> Nat] /\ cnow[c] \in Nat /\ named' \in [Mutations -> Nat]
      /\ gaveUp \subseteq gaveUp' /\ gaveUp' \subseteq Commits
      /\ inflight' = inflight
  BY <1>1, <1>2 DEF Typed, roomVars
<1>4. CASE ~goes
  <2>1. pc' = [pc EXCEPT ![c] = "done"] /\ UNCHANGED <<held, storeVars>>
    BY <1>4 DEF beginCommit
  <2>2. Advances(c)
    BY <1>1, <2>1 DEF Advances, Typed
  <2>3. "done" \in Phases /\ held' \in [Commits -> Transaction]
    BY <1>1, <2>1 DEF Phases, Typed
  <2>4. CommitMoves
    BY <1>1, <1>2, <1>3, <2>1, <2>2, <2>3, OneCommit
  <2> QED BY <1>1, <1>2, <2>1, <2>4, StoreStays, RoomStays, CommitOnly DEF Typed, roomVars
<1>5. CASE goes
  <2>1. /\ pc' = [pc EXCEPT ![c] = "submit"] /\ held' = [held EXCEPT ![c] = Tx(x)]
        /\ IF resumed THEN UNCHANGED storeVars ELSE Write(d, y)
    BY <1>5 DEF beginCommit, Tx
  <2>2. x # NoDraft /\ x \in Draft
    BY <1>1, <1>5, DraftKinds DEF Live
  <2>3. pc'[c] = "submit" /\ Tx(x) \in Transaction
    BY <1>1, <2>1, <2>2 DEF Typed, Tx, Draft, Transaction
  <2>4. StoreMoves /\ Begins(c)
    <3>1. CASE resumed
      <4>1. x.committing = m /\ drafts' = drafts
        BY <2>1, <3>1 DEF storeVars
      <4>2. Begins(c)
        BY <1>2, <2>1, <2>2, <2>3, <4>1 DEF Begins, roomVars
      <4> QED BY <1>1, <2>1, <3>1, <4>2, StoreStays
    <3>2. CASE ~resumed
      <4>1. x.status = "active" /\ x.revision = named[m] /\ Write(d, y)
        BY <1>5, <2>1, <3>2 DEF committable
      <4>2. Begun(x, y, c)
        BY <1>3, <2>2, <4>1, BegunDraft
      <4> HIDE DEF y
      <4>3. y \in Draft /\ Rewrites(d, x, y)
        BY <1>1, <1>2, <2>1, <4>2 DEF Begun, Rewrites
      <4>4. StoreMoves
        BY <1>1, <2>2, <4>1, <4>3, WriteMoves
      <4>5. drafts'[d] = y
        BY <1>1, <4>1 DEF Write, Typed
      <4>6. Begins(c)
        BY <1>2, <2>1, <2>2, <2>3, <4>2, <4>5 DEF Begins, roomVars
      <4> QED BY <4>4, <4>6
    <3> QED BY <3>1, <3>2
  <2>5. "submit" \in Phases /\ held' \in [Commits -> Transaction] /\ Advances(c)
    BY <1>1, <2>1, <2>3, <2>4 DEF Phases, Typed, Advances
  <2>6. CommitMoves
    BY <1>1, <1>2, <1>3, <2>1, <2>4, <2>5, OneCommit
  <2> QED BY <1>1, <1>2, <2>4, <2>6, RoomStays, CommitOnly DEF Typed, roomVars
<1> QED BY <1>4, <1>5

\* It goes to the room.
LEMMA submitMoves ==
  ASSUME DraftsInv, NEW c \in Commits, submit(c)
  PROVE  Moves
<1>1. Typed
  BY DEF DraftsInv
<1>2. /\ pc[c] = "submit" /\ pc' = [pc EXCEPT ![c] = "wait"] /\ inflight' = inflight \cup {c}
      /\ UNCHANGED <<now, hdels, storeVars, room, landedAt, proposedAt,
                     cnow, named, held, gaveUp, editVars, reads>>
  BY DEF submit
<1>3. Advances(c) /\ "wait" \in Phases
  BY <1>1, <1>2 DEF Advances, Typed, Phases
<1>4. /\ cnow' \in [Commits -> Nat] /\ named' \in [Mutations -> Nat]
      /\ held' \in [Commits -> Transaction] /\ gaveUp \subseteq gaveUp' /\ gaveUp' \subseteq Commits
  BY <1>1, <1>2 DEF Typed
<1>5. CommitMoves
  BY <1>1, <1>2, <1>3, <1>4, OneCommit
<1> QED BY <1>1, <1>2, <1>5, StoreStays, RoomStays, CommitOnly DEF Typed

\* The mutation takes effect: the one commit request that is at it knows.
LEMMA runSemanticTransactionMoves ==
  ASSUME DraftsInv, NEW c \in Commits, runSemanticTransaction(c)
  PROVE  Moves
<1> DEFINE m == MutationOf[c]
           receipts == room.receipts \cup ({m} \cap Keyed)
           p == IF pc[c] = "wait" THEN (IF room.reviewing THEN "review" ELSE "mark") ELSE pc[c]
<1>1. Typed /\ m \in Mutations /\ CommitInv
  BY DraftsAssumption DEF DraftsInv
<1>2. /\ c \in inflight /\ ~replayed(c) /\ room.revision = held[c].baseline
      /\ inflight' = inflight \ {c}
      /\ UNCHANGED <<now, hdels, storeVars, cnow, named, held, gaveUp, editVars, reads>>
  BY DEF runSemanticTransaction
<1>3. receipts \in SUBSET Keyed /\ (m \in Keyed => m \in receipts)
  BY <1>1 DEF Typed, Room
<1>4. room.revision + 1 \in Nat /\ room.present \cup {DraftOf[c]} \in SUBSET Drafts
  BY <1>1, DraftsAssumption DEF Typed, Room
<1>5. RoomMoves /\ Takes(c)
      /\ \/ room.reviewing /\ room'.proposals[c] = "pending"
         \/ /\ ~room.reviewing /\ room'.proposals[c] = room.proposals[c]
            /\ landedAt'[c] = room'.revision
  <2>1. CASE room.reviewing
    <3> DEFINE n == room.revision + 1
               proposals == [room.proposals EXCEPT ![c] = "pending"]
    <3>1. /\ room' = [room EXCEPT !.revision = n, !.receipts = receipts, !.proposals = proposals]
          /\ proposedAt' = [proposedAt EXCEPT ![c] = now] /\ landedAt' = landedAt
      BY <1>1, <2>1 DEF runSemanticTransaction, Typed, Room
    <3>2. /\ proposals \in [Commits -> {"none", "pending", "applied", "rejected"}]
          /\ proposals[c] = "pending"
          /\ \A e \in Commits : e # c => proposals[e] = room.proposals[e]
      BY <1>1 DEF Typed, Room
    <3> HIDE DEF n, proposals, receipts
    <3>3. /\ room' \in Room /\ room'.revision = n /\ room'.receipts = receipts
          /\ room'.proposals = proposals
      BY <1>1, <1>3, <1>4, <3>1, <3>2 DEF Typed, Room, n
    <3>4. landedAt' \in [Commits -> Nat] /\ proposedAt' \in [Commits -> Nat]
      BY <1>1, <3>1, Clocks DEF Typed
    <3>5. ~Dead(c)
      BY <1>2, <2>1 DEF Dead
    <3>6. Takes(c)
      BY <1>2, <1>3, <3>1, <3>2, <3>3, <3>5 DEF Takes, n
    <3>7. \A e \in Commits : Keeps(e) \/ Takes(e)
      BY <3>1, <3>2, <3>3, <3>6 DEF Keeps
    <3>8. room.receipts \subseteq room'.receipts
      BY <3>3 DEF receipts
    <3> QED BY <1>2, <2>1, <3>2, <3>3, <3>4, <3>6, <3>7, <3>8 DEF RoomMoves, n
  <2>2. CASE ~room.reviewing
    <3> DEFINE n == room.revision + 1
               present == room.present \cup {DraftOf[c]}
    <3>1. /\ room' = [room EXCEPT !.revision = n, !.receipts = receipts, !.present = present]
          /\ proposedAt' = proposedAt /\ DraftOf[c] \notin room.present
          /\ landedAt' = [landedAt EXCEPT ![c] = room'.revision]
      BY <1>1, <2>2 DEF runSemanticTransaction, Typed, Room
    <3> HIDE DEF n, present, receipts
    <3>2. /\ room' \in Room /\ room'.revision = n /\ room'.receipts = receipts
          /\ room'.proposals = room.proposals
      BY <1>1, <1>3, <1>4, <3>1 DEF Typed, Room, n, present
    <3>3. /\ landedAt' \in [Commits -> Nat] /\ proposedAt' \in [Commits -> Nat]
          /\ landedAt'[c] = room'.revision
          /\ \A e \in Commits : e # c => landedAt'[e] = landedAt[e]
      BY <1>1, <1>4, <3>1, <3>2 DEF Typed, n
    <3>4. ~Dead(c)
      BY <1>2, <2>2, <3>1 DEF Dead
    <3>5. Takes(c)
      BY <1>2, <1>3, <3>1, <3>2, <3>3, <3>4 DEF Takes, n
    <3>6. \A e \in Commits : Keeps(e) \/ Takes(e)
      BY <3>2, <3>3, <3>5 DEF Keeps
    <3>7. room.receipts \subseteq room'.receipts
      BY <3>2 DEF receipts
    <3> QED BY <1>2, <2>2, <3>2, <3>3, <3>5, <3>6, <3>7 DEF RoomMoves, n
  <2> QED BY <2>1, <2>2
<1>6. pc' = [pc EXCEPT ![c] = p] /\ pc[c] # "idle"
  BY <1>1, <1>2 DEF runSemanticTransaction, CommitInv, Unborn, Typed
<1>7. p \in Phases /\ p # "idle" /\ pc'[c] = p
  BY <1>1, <1>6 DEF Phases, Typed
<1>8. Advances(c)
  BY <1>5, <1>7 DEF Advances
<1> HIDE DEF p
<1>9. CommitMoves
  BY <1>1, <1>2, <1>6, <1>7, <1>8, PhaseMoves
<1> QED BY <1>1, <1>2, <1>5, <1>9, StoreStays, CommitOnly DEF Typed

\* A request that never learns its outcome changes nothing more.
LEMMA LoseOutcomeMoves ==
  ASSUME DraftsInv, NEW c \in Commits, LoseOutcome(c) \/ Abandon(c)
  PROVE  Moves
<1>1. Typed
  BY DEF DraftsInv
<1>2. /\ pc[c] # "idle" /\ pc' = [pc EXCEPT ![c] = "done"]
      /\ UNCHANGED <<now, hdels, storeVars, roomVars, cnow, named, held, gaveUp, editVars, reads>>
  BY DEF LoseOutcome, Abandon
<1>3. Advances(c) /\ "done" \in Phases
  BY <1>1, <1>2 DEF Advances, Typed, Phases
<1>4. CommitMoves
  BY <1>1, <1>2, <1>3, PhaseMoves DEF roomVars
<1> QED BY <1>1, <1>2, <1>4, StoreStays, RoomStays, CommitOnly DEF Typed, roomVars

\* A request that is refused had no effect.
LEMMA RejectCommitMoves ==
  ASSUME DraftsInv, NEW c \in Commits, RejectCommit(c)
  PROVE  Moves
<1>1. Typed
  BY DEF DraftsInv
<1>2. /\ pc[c] = "wait" /\ c \in inflight /\ ~replayed(c) /\ Dead(c)
      /\ inflight' = inflight \ {c} /\ pc' = [pc EXCEPT ![c] = "restore"]
      /\ UNCHANGED <<now, hdels, storeVars, room, landedAt, proposedAt,
                     cnow, named, held, gaveUp, editVars, reads>>
  BY DEF RejectCommit, Dead
<1>3. pc'[c] = "restore" /\ "restore" \in Phases
  BY <1>1, <1>2 DEF Typed, Phases
<1>4. Advances(c)
  BY <1>2, <1>3 DEF Advances, Refused
<1>5. CommitMoves
  BY <1>1, <1>2, <1>3, <1>4, PhaseMoves
<1> QED BY <1>1, <1>2, <1>5, StoreStays, RoomStays, CommitOnly DEF Typed

\* A request that gives up may have had one.
LEMMA GiveUpCommitMoves ==
  ASSUME DraftsInv, NEW c \in Commits, GiveUpCommit(c)
  PROVE  Moves
<1>1. Typed
  BY DEF DraftsInv
<1>2. /\ pc[c] # "idle" /\ gaveUp' = gaveUp \cup {c} /\ pc' = [pc EXCEPT ![c] = "restore"]
      /\ UNCHANGED <<now, hdels, storeVars, roomVars, cnow, named, held, editVars, reads>>
  BY DEF GiveUpCommit
<1>3. pc'[c] = "restore" /\ "restore" \in Phases
  BY <1>1, <1>2 DEF Typed, Phases
<1>4. Advances(c)
  BY <1>2, <1>3 DEF Advances, Refused
<1>5. CommitMoves
  BY <1>1, <1>2, <1>3, <1>4, PhaseMoves DEF roomVars
<1> QED BY <1>1, <1>2, <1>5, StoreStays, RoomStays, CommitOnly DEF Typed, roomVars

\* A command that nobody waits for is lost.
LEMMA DropCommitMoves ==
  ASSUME DraftsInv, NEW c \in Commits, DropCommit(c)
  PROVE  Moves
<1>1. Typed /\ CommitInv
  BY DEF DraftsInv
<1>2. /\ c \in inflight /\ inflight' = inflight \ {c}
      /\ UNCHANGED <<now, hdels, storeVars, room, landedAt, proposedAt, commitVars, editVars, reads>>
  BY DEF DropCommit
<1>3. pc[c] # "idle" /\ pc' = [pc EXCEPT ![c] = pc[c]] /\ pc[c] \in Phases
  BY <1>1, <1>2 DEF CommitInv, Unborn, Typed, commitVars
<1>4. Advances(c)
  BY <1>2 DEF Advances, commitVars
<1>5. CommitMoves
  BY <1>1, <1>2, <1>3, <1>4, PhaseMoves DEF commitVars
<1> QED BY <1>1, <1>2, <1>5, StoreStays, RoomStays, CommitOnly DEF Typed

-----------------------------------------------------------------------------
(* Settling a commit.                                                      *)

\* The request is done, or about to remove the draft.
LEMMA SettleMoves ==
  ASSUME Typed, StoreMoves, NEW c \in Commits, pc[c] # "idle",
         \/ pc' = [pc EXCEPT ![c] = "done"]
         \/ pc[c] = "mark" /\ pc' = [pc EXCEPT ![c] = "cleanup"],
         UNCHANGED <<now, hdels, roomVars, cnow, named, held, gaveUp, editVars, reads>>
  PROVE  Moves
<1>1. PICK p \in {"done", "cleanup"} :
        pc' = [pc EXCEPT ![c] = p] /\ (p = "cleanup" => pc[c] = "mark")
  OBVIOUS
<1>2. pc'[c] = p /\ p \in Phases /\ p # "idle"
  BY <1>1 DEF Typed, Phases
<1>3. Advances(c)
  BY <1>1, <1>2 DEF Advances
<1>4. CommitMoves
  BY <1>1, <1>2, <1>3, PhaseMoves DEF roomVars
<1> QED BY <1>4, RoomStays, CommitOnly DEF Typed, roomVars

\* What holds says of the record.
LEMMA HoldsDraft ==
  ASSUME Typed, NEW c \in Commits, holds(c)
  PROVE  /\ DraftOf[c] \in Drafts /\ c \in CommitsOf(DraftOf[c])
         /\ drafts[DraftOf[c]] # NoDraft /\ drafts[DraftOf[c]] \in Draft
         /\ drafts[DraftOf[c]].status = "committing"
         /\ drafts[DraftOf[c]].committing = MutationOf[c]
BY DraftsAssumption, DraftKinds DEF holds, Live, CommitsOf

\* What was refused is given back.
LEMMA restoreActiveMoves ==
  ASSUME DraftsInv, NEW c \in Commits, restoreActive(c)
  PROVE  Moves
<1> DEFINE d == DraftOf[c]
           x == drafts[d]
           y == [x EXCEPT !.status = "active", !.revision = @ + 1,
                          !.committing = Nothing, !.evidence = Nothing,
                          !.expiresAt = activeUntil(x, now)]
<1>1. Typed
  BY DEF DraftsInv
<1>2. /\ pc[c] = "restore" /\ pc' = [pc EXCEPT ![c] = "done"]
      /\ UNCHANGED <<now, hdels, roomVars, cnow, named, held, gaveUp, editVars, reads>>
  BY DEF restoreActive
<1>3. StoreMoves
  <2>1. CASE holds(c)
    <3>1. /\ d \in Drafts /\ c \in CommitsOf(d) /\ x # NoDraft /\ x \in Draft
          /\ x.status = "committing" /\ x.committing = MutationOf[c]
      BY <1>1, <2>1, HoldsDraft
    <3>2. activeUntil(x, now) \in Nat
      BY <1>1, <3>1, Clocks
    <3>3. Restored(x, y, c)
      BY <3>1, <3>2, RestoredDraft
    <3>4. Write(d, y)
      BY <2>1 DEF restoreActive
    <3> HIDE DEF y
    <3>5. y \in Draft /\ Rewrites(d, x, y)
      BY <1>2, <3>1, <3>3 DEF Restored, Rewrites
    <3> QED BY <1>1, <3>1, <3>4, <3>5, WriteMoves
  <2>2. CASE ~holds(c)
    BY <1>1, <2>2, StoreStays DEF restoreActive
  <2> QED BY <2>1, <2>2
<1> QED BY <1>1, <1>2, <1>3, SettleMoves

\* A draft with evidence that it was committed is no proposal's.
LEMMA NoEvidence ==
  ASSUME DraftsInv, NEW d \in Drafts, drafts[d] # NoDraft,
         NEW c \in Commits, room.proposals[c] # "none",
         NEW f \in Commits, MutationOf[f] = drafts[d].committing,
         Began(f), held[f] = held[c]
  PROVE  drafts[d].evidence = Nothing
<1> SUFFICES ASSUME drafts[d].evidence # Nothing PROVE FALSE
  OBVIOUS
<1>1. PICK e \in CommitsOf(d) : /\ MutationOf[e] = drafts[d].committing
                               /\ room.proposals[e] = "none"
                               /\ landedAt[e] = drafts[d].evidence /\ drafts[d].evidence # 0
  BY DEF DraftsInv, DraftInv, Truthful
<1>2. e \in Commits /\ Taken(e) /\ Taken(c) /\ c # e
  BY <1>1 DEF CommitsOf, Taken
<1>3. Began(e)
  BY <1>2 DEF DraftsInv, RoomInv
<1>4. held[e] = held[f]
  BY <1>1, <1>2, <1>3 DEF DraftsInv, TwinInv
<1>5. held[e].baseline # held[c].baseline
  BY <1>2 DEF DraftsInv, TwinInv
<1> QED BY <1>4, <1>5

\* What became a proposal waits for it.
LEMMA markAwaitingReviewMoves ==
  ASSUME DraftsInv, NEW c \in Commits, markAwaitingReview(c)
  PROVE  Moves
<1> DEFINE d == DraftOf[c]
           x == drafts[d]
           y == awaitingReview(x, c)
<1>1. Typed
  BY DEF DraftsInv
<1>2. /\ pc[c] = "review" /\ pc' = [pc EXCEPT ![c] = "done"]
      /\ UNCHANGED <<now, hdels, roomVars, cnow, named, held, gaveUp, editVars, reads>>
  BY DEF markAwaitingReview
<1>3. StoreMoves
  <2>1. CASE holds(c)
    <3>1. /\ d \in Drafts /\ c \in CommitsOf(d) /\ x # NoDraft /\ x \in Draft
          /\ x.status = "committing" /\ x.committing = MutationOf[c]
      BY <1>1, <2>1, HoldsDraft
    <3>2. room.proposals[c] # "none" /\ Began(c)
      BY <1>2 DEF DraftsInv, CommitInv, RoomInv, Taken
    <3>3. x.evidence = Nothing
      BY <3>1, <3>2, NoEvidence
    <3>4. Queued(x, y, c)
      BY <3>1, QueuedDraft
    <3>5. Write(d, y)
      BY <2>1 DEF markAwaitingReview
    <3> HIDE DEF y
    <3>6. y \in Draft /\ Rewrites(d, x, y)
      BY <3>1, <3>2, <3>3, <3>4 DEF Queued, Rewrites
    <3> QED BY <1>1, <3>1, <3>5, <3>6, WriteMoves
  <2>2. CASE ~holds(c)
    BY <1>1, <2>2, StoreStays DEF markAwaitingReview
  <2> QED BY <2>1, <2>2
<1> QED BY <1>1, <1>2, <1>3, SettleMoves

\* What took effect says so.
LEMMA markAuthoritativelyCommittedMoves ==
  ASSUME DraftsInv, NEW c \in Commits, markAuthoritativelyCommitted(c)
  PROVE  Moves
<1> DEFINE d == DraftOf[c]
           x == drafts[d]
           y == [x EXCEPT !.evidence = landedAt[c]]
<1>1. Typed
  BY DEF DraftsInv
<1>2. /\ pc[c] = "mark"
      /\ pc' = [pc EXCEPT ![c] = "done"] \/ pc' = [pc EXCEPT ![c] = "cleanup"]
      /\ UNCHANGED <<now, hdels, ended, history, roomVars, cnow, named, held, gaveUp,
                     editVars, reads>>
  BY DEF markAuthoritativelyCommitted
<1>3. StoreMoves
  <2>1. CASE holds(c)
    <3>1. /\ d \in Drafts /\ c \in CommitsOf(d) /\ x # NoDraft /\ x \in Draft
          /\ x.status = "committing" /\ x.committing = MutationOf[c]
      BY <1>1, <2>1, HoldsDraft
    <3>2. Marked(x, y, c)
      BY <1>1, <3>1, MarkedDraft DEF Typed
    <3>3. drafts' = [drafts EXCEPT ![d] = y]
      BY <2>1 DEF markAuthoritativelyCommitted
    <3> HIDE DEF y
    <3>4. y \in Draft /\ Rewrites(d, x, y) /\ y.revision = x.revision /\ y.content = x.content
      BY <1>2, <3>1, <3>2 DEF Marked, Rewrites
    <3>5. drafts'[d] = y /\ \A i \in Drafts : i # d => drafts'[i] = drafts[i]
      BY <1>1, <3>1, <3>3 DEF Typed
    <3>6. /\ drafts' \in [Drafts -> Draft \cup {NoDraft}] /\ ended' \in [Drafts -> Ending]
          /\ history' \subseteq [draft : Drafts, revision : Nat, content : SUBSET Edits]
      BY <1>1, <1>2, <3>3, <3>4 DEF Typed
    <3>7. \A i \in Drafts : Evolves(i)
      BY <1>2, <3>1, <3>4, <3>5 DEF Evolves
    <3>8. Entry(d, x.revision, x.content) \in history
      BY <3>1 DEF DraftsInv, HistoryInv
    <3>9. \A i \in Drafts : drafts'[i] # NoDraft =>
            \/ drafts'[i] = drafts[i]
            \/ Entry(i, drafts'[i].revision, drafts'[i].content) \in history'
      <4> SUFFICES ASSUME NEW i \in Drafts, drafts'[i] # drafts[i]
                   PROVE  Entry(i, drafts'[i].revision, drafts'[i].content) \in history'
        OBVIOUS
      <4>1. i = d /\ drafts'[i] = y /\ history' = history
        BY <1>2, <3>5
      <4> QED BY <3>4, <3>8, <4>1
    <3>10. Recorded
      BY <1>2, <3>9 DEF Recorded
    <3> QED BY <3>6, <3>7, <3>10 DEF StoreMoves
  <2>2. CASE ~holds(c)
    BY <1>1, <1>2, <2>2, StoreStays DEF markAuthoritativelyCommitted, storeVars
  <2> QED BY <2>1, <2>2
<1> QED BY <1>1, <1>2, <1>3, SettleMoves

\* What took effect is removed.
LEMMA RemoveCommittedMoves ==
  ASSUME DraftsInv, NEW c \in Commits, RemoveCommitted(c)
  PROVE  Moves
<1> DEFINE d == DraftOf[c]
           fence == landedAt[c]
<1>1. Typed
  BY DEF DraftsInv
<1>2. /\ pc[c] = "cleanup" /\ pc' = [pc EXCEPT ![c] = "done"]
      /\ UNCHANGED <<now, hdels, roomVars, cnow, named, held, gaveUp, editVars, reads>>
  BY DEF RemoveCommitted
<1>3. StoreMoves
  <2>1. CASE holds(c)
    <3>1. d \in Drafts /\ c \in CommitsOf(d) /\ drafts[d] # NoDraft
      BY <1>1, <2>1, HoldsDraft
    <3>2. Remove(d, "committed", fence)
      BY <2>1 DEF RemoveCommitted
    <3>3. fence \in Nat /\ fence # 0 /\ fence <= room.revision
      BY <1>1, <1>2 DEF DraftsInv, CommitInv, RoomInv, Typed
    <3>4. Landed(d, fence)
      BY <3>1, <3>3 DEF Landed
    <3> HIDE DEF fence
    <3>5. Ends(d, drafts[d], [reason |-> "committed", fence |-> fence])
      BY <3>4 DEF Ends
    <3> QED BY <1>1, <3>1, <3>2, <3>3, <3>5, RemoveMoves
  <2>2. CASE ~holds(c)
    BY <1>1, <2>2, StoreStays DEF RemoveCommitted
  <2> QED BY <2>1, <2>2
<1> QED BY <1>1, <1>2, <1>3, SettleMoves

-----------------------------------------------------------------------------
(* A read.                                                                 *)

\* What a read holds.
LEMMA ReadKinds ==
  ASSUME Typed, NEW r \in Readers, reads[r] # Nothing
  PROVE  /\ reads[r] \in Read /\ reads[r].draft \in Drafts /\ reads[r].revision \in Nat
         /\ reads[r].found # NoDraft => reads[r].found \in Draft
BY DEF Typed, Read

\* A read that ends, whatever it did to the draft.
LEMMA ReadEnds ==
  ASSUME Typed, StoreMoves, NEW r \in Readers, reads' = [reads EXCEPT ![r] = Nothing],
         UNCHANGED <<now, hdels, roomVars, commitVars, editVars>>
  PROVE  Moves
<1>1. ReadMoves
  BY DEF ReadMoves, Typed
<1> QED BY <1>1, ReadOnly DEF Typed

\* A read starts with the room.
LEMMA ReadRoomFirstMoves ==
  ASSUME DraftsInv, NEW r \in Readers, ReadRoomFirst(r)
  PROVE  Moves
<1> DEFINE read(d, t) == [draft |-> d, now |-> t, revision |-> room.revision,
                          proposals |-> room.proposals, found |-> NoDraft]
<1>1. Typed
  BY DEF DraftsInv
<1>2. PICK d \in Drafts, t \in Recent : reads' = [reads EXCEPT ![r] = read(d, t)]
  BY DEF ReadRoomFirst
<1>3. UNCHANGED <<now, hdels, storeVars, roomVars, commitVars, editVars>>
  BY DEF ReadRoomFirst
<1>4. /\ t \in Nat /\ room.revision \in Nat
      /\ room.proposals \in [Commits -> {"none", "pending", "applied", "rejected"}]
  BY <1>1, Clocks DEF Typed, Room
<1>5. read(d, t) \in Read /\ HasRoom(read(d, t))
  BY <1>4 DEF Read, HasRoom
<1> HIDE DEF read
<1>6. reads' \in [Readers -> Read \cup {Nothing}]
  BY <1>1, <1>2, <1>5 DEF Typed
<1>7. reads'[r] = read(d, t) /\ \A q \in Readers : q # r => reads'[q] = reads[q]
  BY <1>1, <1>2 DEF Typed
<1>8. ReadMoves
  BY <1>3, <1>5, <1>6, <1>7 DEF ReadMoves, roomVars
<1> QED BY <1>1, <1>3, <1>8, StoreStays, ReadOnly DEF Typed

\* It takes the draft beside it.
LEMMA ReadDraftMoves ==
  ASSUME DraftsInv, NEW r \in Readers, ReadDraft(r)
  PROVE  Moves
<1> DEFINE old == reads[r]
           x == drafts[old.draft]
           found == [old EXCEPT !.found = x]
           new == IF Live(old.draft, old.now) /\ x.status # "active" THEN found ELSE Nothing
<1>1. Typed /\ old # Nothing
  BY DEF DraftsInv, ReadDraft
<1>2. prune(old.now) /\ reads' = [reads EXCEPT ![r] = new]
      /\ UNCHANGED <<now, storeVars, roomVars, commitVars, editVars>>
  BY <1>1 DEF ReadDraft, Typed
<1>3. old \in Read /\ old.draft \in Drafts
  BY <1>1, ReadKinds
<1>4. new = Nothing \/ (new \in Read /\ HasDraft(old, new))
  <2> SUFFICES ASSUME new # Nothing PROVE new \in Read /\ HasDraft(old, new)
    OBVIOUS
  <2>1. new = found /\ x # NoDraft
    BY DEF Live
  <2>2. x \in Draft
    BY <1>1, <1>3, <2>1, DraftKinds
  <2> HIDE DEF x
  <2>3. found \in Read
    BY <1>3, <2>2 DEF Read
  <2>4. /\ found.revision = old.revision /\ found.proposals = old.proposals
        /\ found.draft = old.draft /\ found.found = x
    BY <1>3 DEF Read
  <2> HIDE DEF found, new
  <2>5. HasDraft(old, found)
    BY <1>1, <1>3, <2>4 DEF HasDraft, x
  <2> QED BY <2>1, <2>3, <2>5
<1> HIDE DEF new
<1>5. reads' \in [Readers -> Read \cup {Nothing}]
  BY <1>1, <1>2, <1>4 DEF Typed
<1>6. reads'[r] = new /\ \A q \in Readers : q # r => reads'[q] = reads[q]
  BY <1>1, <1>2 DEF Typed
<1>7. ReadMoves
  BY <1>2, <1>4, <1>5, <1>6 DEF ReadMoves, roomVars
<1>8. hdels' \subseteq Drafts
  BY <1>1, <1>2, PruneTyped
<1> QED BY <1>1, <1>2, <1>7, <1>8, StoreStays, ReadOnly

\* It may leave the draft as it is.
LEMMA LeaveDraftMoves ==
  ASSUME DraftsInv, NEW r \in Readers, LeaveDraft(r)
  PROVE  Moves
<1>1. Typed
  BY DEF DraftsInv
<1> QED BY <1>1, StoreStays, ReadEnds DEF LeaveDraft

\* A proposal that is looked up is one of the draft that was read.
LEMMA CandidatesAreOfTheDraft ==
  ASSUME NEW read, NEW c \in Commits, candidate(c, read), Truthful(read.draft, read.found)
  PROVE  c \in CommitsOf(read.draft)
BY DEF candidate, Truthful, CommitsOf

\* It removes what the room has decided, for the reason the room gives.
LEMMA RemoveDecidedMoves ==
  ASSUME DraftsInv, NEW r \in Readers, RemoveDecided(r)
  PROVE  Moves
<1> DEFINE read == reads[r]
           d == read.draft
           x == drafts[d]
<1>1. Typed /\ read # Nothing /\ read.found # NoDraft
  BY DEF DraftsInv, RemoveDecided
<1>2. reads' = [reads EXCEPT ![r] = Nothing] /\ UNCHANGED <<now, hdels, roomVars, commitVars, editVars>>
  BY DEF RemoveDecided
<1>3. d \in Drafts /\ read.revision \in Nat /\ read.found \in Draft
  BY <1>1, ReadKinds
<1>4. Truthful(d, read.found) /\ read.revision <= room.revision
  BY <1>1 DEF DraftsInv, ReadInv
<1>5. StoreMoves
  <2>1. ASSUME NEW reason \in {"committed", "discarded"}, NEW fence \in Nat,
               removeCanonicalDraft(read, reason, fence),
               \/ reason = "committed" /\ Landed(d, fence)
               \/ reason = "discarded" /\ \E c \in CommitsOf(d) : room.proposals[c] = "rejected"
        PROVE  StoreMoves
    <3>1. CASE Live(d, read.now)
      <4>1. x # NoDraft /\ Remove(d, reason, fence)
        BY <2>1, <3>1 DEF removeCanonicalDraft, Live
      <4>2. Ends(d, x, [reason |-> reason, fence |-> fence])
        BY <2>1 DEF Ends
      <4>3. reason \in {"committed", "discarded", "expired"}
        OBVIOUS
      <4> QED BY <1>1, <1>3, <4>1, <4>2, <4>3, RemoveMoves
    <3>2. CASE ~Live(d, read.now)
      BY <1>1, <2>1, <3>2, StoreStays DEF removeCanonicalDraft
    <3> QED BY <3>1, <3>2
  <2>2. CASE read.found.evidence # Nothing /\ removeCanonicalDraft(read, "committed", read.found.evidence)
    <3> DEFINE fence == read.found.evidence
    <3>1. fence \in Nat
      BY <1>3, <2>2 DEF Draft
    <3>2. PICK e \in CommitsOf(d) : landedAt[e] = fence /\ fence # 0
      BY <1>4, <2>2 DEF Truthful
    <3>3. fence <= room.revision
      BY <3>2 DEF DraftsInv, RoomInv, CommitsOf
    <3> HIDE DEF fence
    <3>4. Landed(d, fence)
      BY <3>1, <3>2, <3>3 DEF Landed
    <3> QED BY <2>1, <2>2, <3>1, <3>4 DEF fence
  <2>3. ASSUME NEW c \in Commits, matchingProposal(c, read),
               read.proposals[c] \in {"applied", "rejected"},
               IF isApplied(c, read) THEN removeCanonicalDraft(read, "committed", read.revision)
               ELSE removeCanonicalDraft(read, "discarded", 0)
        PROVE  StoreMoves
    <3>1. c \in CommitsOf(d)
      BY <1>4, <2>3, CandidatesAreOfTheDraft DEF matchingProposal
    <3>2. CASE isApplied(c, read)
      <4>1. landedAt[c] \in 1 .. read.revision
        BY <1>1, <3>2 DEF DraftsInv, ReadInv, isApplied
      <4>2. Landed(d, read.revision)
        BY <1>4, <3>1, <4>1 DEF Landed
      <4> QED BY <1>3, <2>1, <2>3, <3>2, <4>2
    <3>3. CASE ~isApplied(c, read)
      <4>1. room.proposals[c] = "rejected"
        BY <1>1, <2>3, <3>3 DEF DraftsInv, ReadInv, isApplied
      <4>2. removeCanonicalDraft(read, "discarded", 0)
        BY <2>3, <3>3
      <4> QED BY <2>1, <3>1, <4>1, <4>2
    <3> QED BY <3>2, <3>3
  <2> QED BY <2>2, <2>3 DEF RemoveDecided
<1> QED BY <1>1, <1>2, <1>5, ReadEnds

\* It links a draft to its proposal.
LEMMA HealReviewMoves ==
  ASSUME DraftsInv, NEW r \in Readers, HealReview(r)
  PROVE  Moves
<1> DEFINE read == reads[r]
           d == read.draft
           x == drafts[d]
           found == read.found
           heals == /\ Live(d, read.now) /\ x.status = "committing"
                    /\ x.committing = found.committing
<1>1. Typed /\ read # Nothing /\ found # NoDraft /\ found.status = "committing"
  BY DEF DraftsInv, HealReview
<1>2. reads' = [reads EXCEPT ![r] = Nothing] /\ UNCHANGED <<now, hdels, roomVars, commitVars, editVars>>
  BY DEF HealReview
<1>3. d \in Drafts
  BY <1>1, ReadKinds
<1>4. Truthful(d, found)
  BY <1>1 DEF DraftsInv, ReadInv
<1>5. StoreMoves
  <2>1. PICK c \in Commits :
          /\ matchingProposal(c, read) /\ read.proposals[c] = "pending"
          /\ IF heals THEN Write(d, awaitingReview(x, c)) ELSE UNCHANGED storeVars
    BY DEF HealReview
  <2>2. CASE ~heals
    BY <1>1, <2>1, <2>2, StoreStays
  <2>3. CASE heals
    <3> DEFINE y == awaitingReview(x, c)
    <3>1. x # NoDraft /\ x \in Draft
      BY <1>1, <1>3, <2>3, DraftKinds DEF Live
    <3>2. candidate(c, read) /\ c \in CommitsOf(d)
      BY <1>4, <2>1, CandidatesAreOfTheDraft DEF matchingProposal
    <3>3. room.proposals[c] # "none"
      BY <1>1, <2>1 DEF DraftsInv, ReadInv
    <3>4. found.proposal = Nothing
      BY <1>1, <1>4 DEF Truthful
    <3>5. held[c] = Tx(found)
      BY <3>2, <3>4 DEF candidate, Tx
    <3>6. PICK f \in CommitsOf(d) : MutationOf[f] = x.committing /\ Began(f) /\ held[f] = Tx(found)
      BY <1>1, <1>4, <2>3 DEF Truthful
    <3>7. f \in Commits /\ held[f] = held[c]
      BY <3>5, <3>6 DEF CommitsOf
    <3>8. x.evidence = Nothing
      BY <1>3, <3>1, <3>3, <3>6, <3>7, NoEvidence
    <3>9. Queued(x, y, c)
      BY <2>3, <3>1, QueuedDraft
    <3>10. Write(d, y)
      BY <2>1, <2>3
    <3> HIDE DEF y
    <3>11. y \in Draft /\ Rewrites(d, x, y)
      BY <3>2, <3>3, <3>8, <3>9 DEF Queued, Rewrites
    <3> QED BY <1>1, <1>3, <3>1, <3>10, <3>11, WriteMoves
  <2> QED BY <2>2, <2>3
<1> QED BY <1>1, <1>2, <1>5, ReadEnds

-----------------------------------------------------------------------------
(* What others do in the room.                                             *)

\* The room goes on; which proposals that decides is up to the caller.
LEMMA RoomOnly ==
  ASSUME Typed, RoomMoves,
         UNCHANGED <<now, hdels, storeVars, inflight, proposedAt, commitVars, editVars, reads>>
  PROVE  Moves
BY StoreStays, CommitStays, EditStays, ReadStays DEF Moves, RestMoves, Typed

\* A proposal is approved or rejected.
LEMMA DecideMoves ==
  ASSUME DraftsInv, NEW c \in Commits, approve(c) \/ reject(c)
  PROVE  Moves
<1> DEFINE n == room.revision + 1
           decided(s) == [room.proposals EXCEPT ![c] = s]
           present == room.present \cup {DraftOf[c]}
<1>1. Typed /\ DraftOf[c] \in Drafts
  BY DraftsAssumption DEF DraftsInv
<1>2. n \in Nat /\ present \in SUBSET Drafts
  BY <1>1 DEF Typed, Room
<1>3. ASSUME NEW s \in {"applied", "rejected"}
      PROVE  /\ decided(s) \in [Commits -> {"none", "pending", "applied", "rejected"}]
             /\ decided(s)[c] = s
             /\ \A e \in Commits : e # c => decided(s)[e] = room.proposals[e]
  BY <1>1 DEF Typed, Room
<1>4. room.proposals[c] = "pending"
      /\ UNCHANGED <<now, hdels, storeVars, inflight, proposedAt, commitVars, editVars, reads>>
  BY DEF approve, reject, OthersMay
<1>5. held' = held /\ proposedAt' \in [Commits -> Nat]
  BY <1>1, <1>4 DEF commitVars, Typed
<1>6. CASE approve(c)
  <2>1. room' = [room EXCEPT !.revision = n, !.proposals = decided("applied"), !.present = present]
        /\ landedAt' = [landedAt EXCEPT ![c] = room'.revision]
    BY <1>1, <1>6 DEF approve, OthersMay, Typed, Room
  <2>2. /\ decided("applied") \in [Commits -> {"none", "pending", "applied", "rejected"}]
        /\ decided("applied")[c] = "applied"
        /\ \A e \in Commits : e # c => decided("applied")[e] = room.proposals[e]
    BY <1>3
  <2> HIDE DEF n, decided, present
  <2>3. /\ room' \in Room /\ room'.revision = n /\ room'.receipts = room.receipts
        /\ room'.proposals = decided("applied")
    BY <1>1, <1>2, <2>1, <2>2 DEF Typed, Room
  <2>4. /\ landedAt' \in [Commits -> Nat] /\ landedAt'[c] = room'.revision
        /\ \A e \in Commits : e # c => landedAt'[e] = landedAt[e]
    BY <1>1, <1>2, <2>1, <2>3 DEF Typed
  <2>5. \A e \in Commits : Keeps(e) \/ Decides(e)
    BY <1>4, <2>2, <2>3, <2>4 DEF Keeps, Decides, n
  <2>6. RoomMoves
    BY <1>5, <2>3, <2>4, <2>5 DEF RoomMoves, n
  <2> QED BY <1>1, <1>4, <2>6, RoomOnly
<1>7. CASE reject(c)
  <2>1. room' = [room EXCEPT !.revision = n, !.proposals = decided("rejected")]
        /\ landedAt' = landedAt
    BY <1>1, <1>7 DEF reject, OthersMay, Typed, Room
  <2>2. /\ decided("rejected") \in [Commits -> {"none", "pending", "applied", "rejected"}]
        /\ decided("rejected")[c] = "rejected"
        /\ \A e \in Commits : e # c => decided("rejected")[e] = room.proposals[e]
    BY <1>3
  <2> HIDE DEF n, decided
  <2>3. /\ room' \in Room /\ room'.revision = n /\ room'.receipts = room.receipts
        /\ room'.proposals = decided("rejected")
    BY <1>1, <1>2, <2>1, <2>2 DEF Typed, Room
  <2>4. \A e \in Commits : Keeps(e) \/ Decides(e)
    BY <1>4, <2>1, <2>2, <2>3 DEF Keeps, Decides, n
  <2>5. RoomMoves
    BY <1>1, <1>5, <2>1, <2>3, <2>4 DEF RoomMoves, n, Typed
  <2> QED BY <1>1, <1>4, <2>5, RoomOnly
<1> QED BY <1>6, <1>7

\* Somebody else edits the room.
LEMMA editRoomMoves ==
  ASSUME DraftsInv, editRoom
  PROVE  Moves
<1> DEFINE n == room.revision + 1
<1>1. Typed
  BY DEF DraftsInv
<1>2. UNCHANGED <<now, hdels, storeVars, inflight, landedAt, proposedAt, commitVars, editVars, reads>>
  BY DEF editRoom, OthersMay
<1>3. PICK reviewing \in BOOLEAN, present \in SUBSET Drafts :
        room' = [room EXCEPT !.revision = n, !.reviewing = reviewing, !.present = present]
  <2>1. room.reviewing \in BOOLEAN /\ (~room.reviewing) \in BOOLEAN /\ room.present \in SUBSET Drafts
    BY <1>1 DEF Typed, Room
  <2>2. CASE OthersMay(room)
    <3>1. room' = [room EXCEPT !.revision = n, !.reviewing = room.reviewing, !.present = room.present]
      BY <1>1, <2>2 DEF OthersMay, Typed, Room
    <3> QED BY <2>1, <3>1
  <2>3. CASE OthersMay([room EXCEPT !.reviewing = ~@])
    <3>1. room' = [room EXCEPT !.revision = n, !.reviewing = ~room.reviewing, !.present = room.present]
      BY <1>1, <2>3 DEF OthersMay, Typed, Room
    <3> QED BY <2>1, <3>1
  <2>4. ASSUME NEW d \in room.present, OthersMay([room EXCEPT !.present = @ \ {d}])
        PROVE  \E reviewing \in BOOLEAN, present \in SUBSET Drafts :
                 room' = [room EXCEPT !.revision = n, !.reviewing = reviewing, !.present = present]
    <3>1. room' = [room EXCEPT !.revision = n, !.reviewing = room.reviewing,
                               !.present = room.present \ {d}]
      BY <1>1, <2>4 DEF OthersMay, Typed, Room
    <3>2. room.present \ {d} \in SUBSET Drafts
      BY <2>1
    <3> QED BY <2>1, <3>1, <3>2
  <2> QED BY <2>2, <2>3, <2>4 DEF editRoom
<1>4. n \in Nat
  BY <1>1 DEF Typed, Room
<1> HIDE DEF n
<1>5. /\ room' \in Room /\ room'.revision = n /\ room'.receipts = room.receipts
      /\ room'.proposals = room.proposals
  BY <1>1, <1>3, <1>4 DEF Typed, Room
<1>6. RoomMoves
  BY <1>1, <1>2, <1>5 DEF RoomMoves, Keeps, Typed, commitVars, n
<1> QED BY <1>1, <1>2, <1>6, RoomOnly

-----------------------------------------------------------------------------
\* Every step is made of these moves.
LEMMA StepMoves ==
  ASSUME DraftsInv, [Next]_vars
  PROVE  Moves
<1>1. ASSUME NEW d \in Drafts, stage(d) \/ touch(d) \/ discard(d) \/ HDel(d) \/ Expire(d)
      PROVE  Moves
  BY <1>1, StageMoves, TouchMoves, DiscardMoves, HDelMoves, ExpireMoves
<1>2. ASSUME NEW e \in Edits, ReadForEdit(e) \/ replace(e)
      PROVE  Moves
  BY <1>2, ReadForEditMoves, ReplaceMoves
<1>3. ASSUME NEW c \in Commits, CommitStep(c)
      PROVE  Moves
  BY <1>3, StartCommitMoves, CheckDraftMoves, beginCommitMoves, submitMoves,
     runSemanticTransactionMoves, RejectCommitMoves, restoreActiveMoves,
     markAwaitingReviewMoves, markAuthoritativelyCommittedMoves, RemoveCommittedMoves
     DEF CommitStep
<1>4. ASSUME NEW c \in Commits,
             LoseOutcome(c) \/ GiveUpCommit(c) \/ DropCommit(c) \/ Abandon(c)
             \/ approve(c) \/ reject(c)
      PROVE  Moves
  BY <1>4, LoseOutcomeMoves, GiveUpCommitMoves, DropCommitMoves, DecideMoves
<1>5. ASSUME NEW r \in Readers, ReadRoomFirst(r) \/ ReadDraft(r) \/ Settle(r) \/ LeaveDraft(r)
      PROVE  Moves
  BY <1>5, ReadRoomFirstMoves, ReadDraftMoves, RemoveDecidedMoves, HealReviewMoves,
     LeaveDraftMoves DEF Settle
<1>6. ASSUME editRoom \/ Tick
      PROVE  Moves
  BY <1>6, editRoomMoves, TickMoves
<1>7. ASSUME UNCHANGED vars
      PROVE  Moves
  <2>1. Typed
    BY DEF DraftsInv
  <2> QED BY <1>7, <2>1, StoreStays, StoreOnly DEF vars, Typed
<1> QED BY <1>1, <1>2, <1>3, <1>4, <1>5, <1>6, <1>7 DEF Next

-----------------------------------------------------------------------------
(* What no step undoes.                                                    *)

\* The types stay.
LEMMA TypesKept ==
  ASSUME DraftsInv, Moves
  PROVE  Typed'
BY DEF Moves, StoreMoves, RoomMoves, CommitMoves, EditMoves, ReadMoves, RestMoves, Typed

\* The room goes forward.
LEMMA RoomGrows ==
  ASSUME DraftsInv, Moves
  PROVE  /\ room.revision \in Nat /\ room'.revision \in Nat
         /\ room.revision <= room'.revision
         /\ room' # room => room'.revision = room.revision + 1 /\ held' = held
<1>1. room \in Room /\ room' \in Room
  BY DEF DraftsInv, Typed, Moves, RoomMoves
<1>2. room' = room \/ (room'.revision = room.revision + 1 /\ held' = held)
  BY DEF Moves, RoomMoves
<1> QED BY <1>1, <1>2 DEF Room

\* A commit that starts holding a transaction does so in its first phase.
LEMMA BeginsFresh ==
  ASSUME DraftsInv, Moves, NEW c \in Commits, Begins(c)
  PROVE  ~Began(c) /\ ~Taken(c) /\ c \notin inflight
BY DEF Begins, DraftsInv, CommitInv, RoomInv, Unborn

\* What a commit holds stays.
LEMMA HeldStays ==
  ASSUME DraftsInv, Moves, NEW c \in Commits, Began(c)
  PROVE  held'[c] = held[c] /\ Began(c)'
<1>1. ~Begins(c)
  BY BeginsFresh
<1>2. held'[c] = held[c]
  BY <1>1 DEF DraftsInv, Typed, Moves, CommitMoves, Begins
<1> QED BY <1>2 DEF Began

\* It is new only by its own first phase.
LEMMA HeldIsNew ==
  ASSUME DraftsInv, Moves, NEW c \in Commits, ~Began(c), Began(c)'
  PROVE  Begins(c)
<1>1. held'[c] # held[c]
  BY DEF Began
<1> QED BY <1>1 DEF DraftsInv, Typed, Moves, CommitMoves, Begins

\* A commit that begins leaves what the others hold.
LEMMA HeldOfOthers ==
  ASSUME DraftsInv, Moves, NEW c \in Commits, Begins(c), NEW e \in Commits, e # c
  PROVE  held'[e] = held[e] /\ (Began(e)' => Began(e))
<1>1. held'[e] = held[e]
  BY DEF DraftsInv, Typed, Begins
<1> QED BY <1>1 DEF Began

\* A commit takes effect once, and while it is under way.
LEMMA TakesOnce ==
  ASSUME DraftsInv, Moves, NEW c \in Commits
  PROVE  /\ Takes(c) => Began(c) /\ ~Taken(c) /\ ~Dead(c) /\ held[c].baseline = room.revision
         /\ Taken(c) => Taken(c)' /\ ~Takes(c)
         /\ ~Taken(c) /\ Taken(c)' => Takes(c)
<1>1. Takes(c) => Began(c) /\ ~Taken(c) /\ ~Dead(c) /\ held[c].baseline = room.revision
  BY DEF Takes, DraftsInv, CommitInv, Dead
<1>2. Keeps(c) \/ Takes(c) \/ Decides(c)
  BY DEF Moves, RoomMoves
<1>3. Keeps(c) => (Taken(c) <=> Taken(c)')
  BY DEF Keeps, Taken
<1>4. Decides(c) => Taken(c) /\ Taken(c)'
  BY DEF Decides, Taken
<1> QED BY <1>1, <1>2, <1>3, <1>4

\* What the room says of a commit, once it does, stays.
LEMMA LandedStays ==
  ASSUME DraftsInv, Moves, NEW c \in Commits
  PROVE  /\ landedAt[c] # 0 =>
              landedAt'[c] = landedAt[c] /\ room'.proposals[c] = room.proposals[c]
         /\ room.proposals[c] # "none" => room'.proposals[c] # "none"
         /\ room.proposals[c] = "rejected" =>
              room'.proposals[c] = "rejected" /\ landedAt'[c] = landedAt[c]
<1>1. Keeps(c) \/ Takes(c) \/ Decides(c)
  BY DEF Moves, RoomMoves
<1>2. landedAt[c] # 0 \/ room.proposals[c] # "none" => ~Takes(c)
  BY TakesOnce DEF Taken
<1>3. landedAt[c] # 0 => ~Decides(c)
  BY DEF Decides, DraftsInv, RoomInv
<1> QED BY <1>1, <1>2, <1>3 DEF Keeps, Decides

\* What is dead stays dead, and what is lost stays lost.
LEMMA DeadStays ==
  ASSUME DraftsInv, Moves, NEW c \in Commits, Began(c), Dead(c)
  PROVE  Dead(c)' /\ ~Takes(c) /\ (~Taken(c) => ~Taken(c)')
<1>1. held'[c] = held[c]
  BY HeldStays
<1>2. Dead(c)'
  <2>1. CASE room' = room
    BY <1>1, <2>1 DEF Dead
  <2>2. CASE room' # room
    <3>1. held[c].baseline <= room.revision /\ held[c].baseline \in Nat
      BY DEF DraftsInv, BaselineInv, Typed, Transaction
    <3> QED BY <1>1, <2>2, <3>1, RoomGrows DEF Dead
  <2> QED BY <2>1, <2>2
<1> QED BY <1>2, TakesOnce

\* The same of a commit that is lost.
LEMMA LostStays ==
  ASSUME DraftsInv, Moves, NEW c \in Commits, Began(c), Lost(c)
  PROVE  Lost(c)'
BY DeadStays DEF Lost

\* A commit that holds nothing has done nothing.
LEMMA UntakenUnlessBegan ==
  ASSUME DraftsInv, NEW c \in Commits, ~Began(c)
  PROVE  ~Taken(c) /\ landedAt[c] = 0 /\ room.proposals[c] = "none"
BY DEF DraftsInv, RoomInv, Taken

\* The revision a mutation names is fixed once one of its commits is under way.
LEMMA NameStays ==
  ASSUME DraftsInv, Moves, NEW c \in Commits, pc[c] # "idle"
  PROVE  /\ named'[MutationOf[c]] = named[MutationOf[c]]
         /\ named[MutationOf[c]] \in SeenRevisions(DraftOf[c])
<1>1. named[MutationOf[c]] \in SeenRevisions(DraftOf[c])
  BY DEF DraftsInv, CommitInv
<1>2. named[MutationOf[c]] # 0
  BY <1>1 DEF DraftsInv, HistoryInv, SeenRevisions
<1>3. MutationOf[c] \in Mutations
  BY DraftsAssumption
<1> QED BY <1>1, <1>2, <1>3 DEF Moves, CommitMoves

\* A revision that was seen has been seen.
LEMMA SeenStays ==
  ASSUME DraftsInv, Moves, NEW d \in Drafts
  PROVE  SeenRevisions(d) \subseteq SeenRevisions(d)'
BY DEF Moves, StoreMoves, Recorded, SeenRevisions

-----------------------------------------------------------------------------
(* The records.                                                            *)

\* Every draft goes on by one of its operations.
LEMMA EvolvesHolds ==
  ASSUME DraftsInv, Moves, NEW d \in Drafts
  PROVE  Evolves(d)
BY DEF Moves, StoreMoves

\* A record's revision grows, and while it does not its content stays.
LEMMA RevisionGrows ==
  ASSUME DraftsInv, Moves, NEW d \in Drafts, drafts[d] # NoDraft, drafts'[d] # NoDraft
  PROVE  /\ drafts[d] \in Draft /\ drafts'[d] \in Draft
         /\ drafts[d].revision <= drafts'[d].revision
         /\ drafts[d].revision = drafts'[d].revision => drafts'[d].content = drafts[d].content
<1>1. drafts[d] \in Draft /\ drafts'[d] \in Draft
  BY DEF DraftsInv, Typed, Moves, StoreMoves
<1>2. drafts[d].revision \in Nat /\ drafts'[d].revision \in Nat
  BY <1>1 DEF Draft
<1>3. drafts'[d] = drafts[d] \/ Rewrites(d, drafts[d], drafts'[d])
  BY EvolvesHolds DEF Evolves
<1>4. ASSUME Rewrites(d, drafts[d], drafts'[d])
      PROVE  \/ drafts'[d].revision = drafts[d].revision + 1
             \/ drafts'[d].revision = drafts[d].revision /\ drafts'[d].content = drafts[d].content
  BY <1>4 DEF Rewrites, Edited, Touched, Begun, Restored, Queued, Marked
<1> QED BY <1>1, <1>2, <1>3, <1>4

\* What has a history is not staged.
LEMMA StagedOnce ==
  ASSUME DraftsInv, Moves, NEW d \in Drafts, NEW h \in history, h.draft = d,
         drafts'[d] # NoDraft
  PROVE  drafts[d] # NoDraft
<1> SUFFICES ASSUME drafts[d] = NoDraft PROVE FALSE
  OBVIOUS
<1>1. ended[d].reason # "none"
  BY DEF DraftsInv, HistoryInv
<1> QED BY <1>1, EvolvesHolds DEF Evolves

\* The history stays that of the drafts there are.
LEMMA HistoryKept ==
  ASSUME DraftsInv, Moves
  PROVE  HistoryInv'
<1>1. Recorded /\ history' \subseteq [draft : Drafts, revision : Nat, content : SUBSET Edits]
  BY DEF Moves, StoreMoves
<1>2. HistoryInv /\ history \subseteq [draft : Drafts, revision : Nat, content : SUBSET Edits]
  BY DEF DraftsInv, Typed
<1>3. ASSUME NEW d \in Drafts, drafts'[d] # NoDraft
      PROVE  drafts'[d].revision # 0
  <2>1. CASE drafts[d] = NoDraft
    <3>1. Staged(drafts'[d], room.revision)
      BY <1>3, <2>1, EvolvesHolds DEF Evolves
    <3> QED BY <3>1 DEF Staged
  <2>2. CASE drafts[d] # NoDraft
    <3>1. Entry(d, drafts[d].revision, drafts[d].content) \in history
      BY <1>2, <2>2 DEF HistoryInv
    <3>2. drafts[d].revision # 0
      BY <1>2, <3>1 DEF HistoryInv, Entry
    <3>3. drafts[d].revision \in Nat /\ drafts'[d].revision \in Nat
      BY <1>3, <2>2, RevisionGrows DEF Draft
    <3> QED BY <1>3, <2>2, <3>2, <3>3, RevisionGrows
  <2> QED BY <2>1, <2>2
<1>4. ASSUME NEW h \in history'
      PROVE  /\ h.revision # 0
             /\ drafts'[h.draft] # NoDraft => h.revision <= drafts'[h.draft].revision
             /\ drafts'[h.draft] = NoDraft => ended'[h.draft].reason # "none"
  <2>1. h.draft \in Drafts /\ h.revision \in Nat
    BY <1>1, <1>4
  <2>2. CASE h \in history
    <3>1. h.revision # 0
      BY <1>2, <2>2 DEF HistoryInv
    <3>2. ASSUME drafts'[h.draft] # NoDraft PROVE h.revision <= drafts'[h.draft].revision
      <4>1. drafts[h.draft] # NoDraft
        BY <2>1, <2>2, <3>2, StagedOnce
      <4>2. h.revision <= drafts[h.draft].revision
        BY <1>2, <2>2, <4>1 DEF HistoryInv
      <4>3. /\ drafts[h.draft].revision \in Nat /\ drafts'[h.draft].revision \in Nat
            /\ drafts[h.draft].revision <= drafts'[h.draft].revision
        BY <2>1, <3>2, <4>1, RevisionGrows DEF Draft
      <4> QED BY <2>1, <4>2, <4>3
    <3>3. ASSUME drafts'[h.draft] = NoDraft PROVE ended'[h.draft].reason # "none"
      <4>1. CASE drafts[h.draft] = NoDraft
        <5>1. ended[h.draft].reason # "none"
          BY <1>2, <2>2, <4>1 DEF HistoryInv
        <5> QED BY <2>1, <3>3, <4>1, <5>1, EvolvesHolds DEF Evolves
      <4>2. CASE drafts[h.draft] # NoDraft
        <5>1. Ends(h.draft, drafts[h.draft], ended'[h.draft])
          <6>1. ~Rewrites(h.draft, drafts[h.draft], drafts'[h.draft])
            BY <3>3, NoDraftAssumption
               DEF Rewrites, Edited, Touched, Begun, Restored, Queued, Marked
          <6> QED BY <2>1, <3>3, <4>2, <6>1, EvolvesHolds DEF Evolves
        <5> QED BY <5>1 DEF Ends
      <4> QED BY <4>1, <4>2
    <3> QED BY <3>1, <3>2, <3>3
  <2>3. CASE h \notin history
    <3>1. drafts'[h.draft] # NoDraft /\ h.revision = drafts'[h.draft].revision
      BY <1>1, <1>4, <2>3 DEF Recorded
    <3> QED BY <1>3, <2>1, <3>1
  <2> QED BY <2>2, <2>3
<1>5. ASSUME NEW d \in Drafts, drafts'[d] # NoDraft
      PROVE  /\ ended'[d].reason = "none"
             /\ Entry(d, drafts'[d].revision, drafts'[d].content) \in history'
  <2>1. ended'[d].reason = "none"
    BY <1>2, <1>5, EvolvesHolds DEF Evolves, HistoryInv
  <2>2. Entry(d, drafts'[d].revision, drafts'[d].content) \in history'
    <3>1. CASE drafts'[d] = drafts[d]
      <4>1. Entry(d, drafts[d].revision, drafts[d].content) \in history
        BY <1>2, <1>5, <3>1 DEF HistoryInv
      <4> QED BY <1>1, <3>1, <4>1 DEF Recorded
    <3>2. CASE drafts'[d] # drafts[d]
      BY <1>1, <1>5, <3>2 DEF Recorded
    <3> QED BY <3>1, <3>2
  <2> QED BY <2>1, <2>2
<1> QED BY <1>4, <1>5 DEF HistoryInv, Entry

\* The phase of a record and its claims on commits go together.
PhaseOK(x) ==
  /\ x.status = "committing" <=> x.committing # Nothing
  /\ x.status = "awaiting_review" <=> x.proposal # Nothing
  /\ x.evidence # Nothing => x.status = "committing"
  /\ x.status # "active" => x.expiresAt = x.hardExpiresAt

\* Nothing names no mutation and no commit.
LEMMA NothingIsNone ==
  ASSUME NEW c \in Commits
  PROVE  MutationOf[c] \in Mutations /\ MutationOf[c] # Nothing /\ c # Nothing /\ DraftOf[c] \in Drafts
BY DraftsAssumption

\* Every operation keeps the phase of a record and its claims together.
LEMMA RewritesPhase ==
  ASSUME NEW d \in Drafts, NEW x \in Draft, NEW y, PhaseOK(x), Rewrites(d, x, y)
  PROVE  PhaseOK(y)
<1>1. ASSUME NEW r, Edited(x, y, r) PROVE PhaseOK(y)
  BY <1>1 DEF Edited, SameClaims, PhaseOK
<1>2. ASSUME Touched(x, y) PROVE PhaseOK(y)
  BY <1>2 DEF Touched, SameClaims, PhaseOK
<1>3. ASSUME NEW c \in CommitsOf(d), Begun(x, y, c) PROVE PhaseOK(y)
  BY <1>3, NothingIsNone DEF Begun, PhaseOK, CommitsOf
<1>4. ASSUME NEW c \in CommitsOf(d), Restored(x, y, c) PROVE PhaseOK(y)
  BY <1>4 DEF Restored, PhaseOK
<1>5. ASSUME NEW c \in CommitsOf(d), x.evidence = Nothing, Queued(x, y, c) PROVE PhaseOK(y)
  BY <1>5, NothingIsNone DEF Queued, PhaseOK, CommitsOf
<1>6. ASSUME NEW c \in CommitsOf(d), Marked(x, y, c) PROVE PhaseOK(y)
  BY <1>6 DEF Marked, PhaseOK
<1> QED BY <1>1, <1>2, <1>3, <1>4, <1>5, <1>6 DEF Rewrites

\* So the drafts keep them together.
LEMMA PhasesKept ==
  ASSUME DraftsInv, Moves
  PROVE  PhasesOK'
<1> SUFFICES ASSUME NEW d \in Drafts, drafts'[d] # NoDraft PROVE PhaseOK(drafts'[d])
  BY DEF PhasesOK, PhaseOK
<1>1. drafts[d] # NoDraft => drafts[d] \in Draft /\ PhaseOK(drafts[d])
  BY DraftKinds DEF DraftsInv, PhasesOK, PhaseOK
<1>2. CASE drafts'[d] = drafts[d]
  BY <1>1, <1>2
<1>3. CASE Staged(drafts'[d], room.revision)
  BY <1>3 DEF Staged, PhaseOK
<1>4. CASE drafts[d] # NoDraft /\ Rewrites(d, drafts[d], drafts'[d])
  BY <1>1, <1>4, RewritesPhase
<1> QED BY <1>2, <1>3, <1>4, EvolvesHolds DEF Evolves

\* A baseline stays a revision the room has had.
LEMMA BaselineKept ==
  ASSUME DraftsInv, Moves
  PROVE  BaselineInv'
<1>1. BaselineInv /\ room.revision # 0
  BY DEF DraftsInv, BaselineInv
<1>2. room'.revision # 0
  BY <1>1, RoomGrows
<1>3. ASSUME NEW d \in Drafts, drafts'[d] # NoDraft
      PROVE  drafts'[d].baseline \in 1 .. room'.revision
  <2>1. CASE Staged(drafts'[d], room.revision)
    BY <1>1, <2>1, RoomGrows DEF Staged
  <2>2. CASE drafts[d] # NoDraft /\ drafts'[d].baseline = drafts[d].baseline
    <3>1. drafts[d].baseline \in 1 .. room.revision
      BY <1>1, <2>2 DEF BaselineInv
    <3> QED BY <2>2, <3>1, RoomGrows
  <2>3. ASSUME NEW e \in Edits, replacing[e] # Nothing, drafts'[d].baseline = replacing[e].baseline
        PROVE  drafts'[d].baseline \in 1 .. room'.revision
    <3>1. replacing[e].baseline \in 1 .. room.revision
      BY <1>1, <2>3 DEF BaselineInv
    <3> QED BY <2>3, <3>1, RoomGrows
  <2>4. ASSUME Rewrites(d, drafts[d], drafts'[d])
        PROVE  \/ drafts'[d].baseline = drafts[d].baseline
               \/ \E e \in Edits : replacing[e] # Nothing
                                   /\ drafts'[d].baseline = replacing[e].baseline
    BY <2>4 DEF Rewrites, Edited, Touched, Begun, Restored, Queued, Marked
  <2> QED BY <1>3, <2>1, <2>2, <2>3, <2>4, EvolvesHolds DEF Evolves
<1>4. ASSUME NEW e \in Edits, replacing'[e] # Nothing
      PROVE  replacing'[e].baseline \in 1 .. room'.revision
  <2>1. CASE replacing'[e] = replacing[e]
    <3>1. replacing[e].baseline \in 1 .. room.revision
      BY <1>1, <1>4, <2>1 DEF BaselineInv
    <3> QED BY <2>1, <3>1, RoomGrows
  <2>2. CASE HasRead(e, replacing'[e])
    BY <1>1, <2>2, RoomGrows DEF HasRead
  <2> QED BY <1>4, <2>1, <2>2 DEF Moves, EditMoves
<1>5. ASSUME NEW c \in Commits
      PROVE  held'[c].baseline <= room'.revision
  <2>1. CASE held'[c] = held[c]
    <3>1. held[c].baseline <= room.revision /\ held[c].baseline \in Nat
      BY <1>1 DEF BaselineInv, DraftsInv, Typed, Transaction
    <3> QED BY <2>1, <3>1, RoomGrows
  <2>2. CASE Begins(c)
    <3>1. drafts[DraftOf[c]].baseline \in 1 .. room.revision
      BY <1>1, <2>2, NothingIsNone DEF Begins, BaselineInv
    <3>2. held'[c].baseline = drafts[DraftOf[c]].baseline /\ room' = room
      BY <2>2 DEF Begins, Tx, DraftsInv, Typed
    <3> QED BY <3>1, <3>2, RoomGrows
  <2> QED BY <2>1, <2>2, HeldOfOthers DEF Moves, CommitMoves
<1> QED BY <1>2, <1>3, <1>4, <1>5 DEF BaselineInv

\* The content a patch was made on is that of the revision it names.
LEMMA EditKept ==
  ASSUME DraftsInv, Moves
  PROVE  EditInv'
<1> SUFFICES ASSUME NEW e \in Edits, replacing'[e] # Nothing
             PROVE  /\ replacing'[e].named \in SeenRevisions(EditedBy[e])'
                    /\ e \in Patches /\ drafts'[EditedBy[e]] # NoDraft
                       /\ drafts'[EditedBy[e]].revision = replacing'[e].named =>
                         replacing'[e].content = drafts'[EditedBy[e]].content \cup {e}
  BY DEF EditInv
<1> DEFINE d == EditedBy[e]
           r == replacing'[e]
<1>1. d \in Drafts
  BY DraftsAssumption
<1>2. r.named \in SeenRevisions(d)
  <2>1. CASE r = replacing[e]
    BY <2>1 DEF DraftsInv, EditInv
  <2>2. CASE HasRead(e, r)
    BY <2>2 DEF HasRead
  <2> QED BY <2>1, <2>2 DEF Moves, EditMoves
<1>3. ASSUME e \in Patches, drafts'[d] # NoDraft, drafts'[d].revision = r.named
      PROVE  r.content = drafts'[d].content \cup {e}
  <2>1. CASE r = replacing[e]
    <3>1. PICK h \in history : h.draft = d /\ h.revision = r.named
      BY <1>2 DEF SeenRevisions
    <3>2. drafts[d] # NoDraft
      BY <1>1, <1>3, <3>1, StagedOnce
    <3>3. h.revision <= drafts[d].revision
      BY <3>1, <3>2 DEF DraftsInv, HistoryInv
    <3>4. h.revision \in Nat /\ drafts[d].revision \in Nat /\ drafts'[d].revision \in Nat
      BY <1>1, <1>3, <3>1, <3>2, RevisionGrows DEF Draft, DraftsInv, Typed
    <3>5. drafts[d].revision = r.named /\ drafts'[d].content = drafts[d].content
      BY <1>1, <1>3, <3>1, <3>2, <3>3, <3>4, RevisionGrows
    <3>6. r.content = drafts[d].content \cup {e}
      BY <1>3, <2>1, <3>2, <3>5 DEF DraftsInv, EditInv
    <3> QED BY <3>5, <3>6
  <2>2. CASE HasRead(e, r)
    BY <1>3, <2>2 DEF HasRead
  <2> QED BY <2>1, <2>2 DEF Moves, EditMoves
<1> QED BY <1>1, <1>2, <1>3, SeenStays

-----------------------------------------------------------------------------
(* The commits.                                                            *)

\* Every phase of a commit leaves it as far as the next one expects.
LEMMA CommitKept ==
  ASSUME DraftsInv, Moves
  PROVE  CommitInv'
<1> SUFFICES ASSUME NEW c \in Commits
             PROVE  /\ pc'[c] # "idle" => named'[MutationOf[c]] \in SeenRevisions(DraftOf[c])'
                    /\ pc'[c] \in Unborn => ~Began(c)'
                    /\ pc'[c] = "submit" => Began(c)' /\ ~Taken(c)' /\ c \notin inflight'
                    /\ c \in inflight' => Began(c)' /\ ~Taken(c)'
                    /\ pc'[c] \in {"mark", "cleanup"} =>
                         landedAt'[c] # 0 /\ room'.proposals[c] = "none"
                    /\ pc'[c] = "review" => room'.proposals[c] # "none"
  BY DEF CommitInv, Unborn
<1>1. Advances(c) /\ DraftOf[c] \in Drafts
  BY NothingIsNone DEF Moves, CommitMoves
<1>2. pc'[c] # "idle" => named'[MutationOf[c]] \in SeenRevisions(DraftOf[c])'
  <2> SUFFICES ASSUME pc'[c] # "idle"
               PROVE  named'[MutationOf[c]] \in SeenRevisions(DraftOf[c])
    BY <1>1, SeenStays
  <2>1. pc[c] # "idle" \/ named'[MutationOf[c]] \in SeenRevisions(DraftOf[c])
    BY DEF Moves, CommitMoves
  <2> QED BY <2>1, NameStays
<1>3. ASSUME pc'[c] \in Unborn PROVE ~Began(c)'
  <2>1. pc[c] \in Unborn /\ ~Begins(c)
    BY <1>1, <1>3 DEF Advances, Begins, Unborn
  <2>2. ~Began(c)
    BY <2>1 DEF DraftsInv, CommitInv
  <2> QED BY <2>1, <2>2, HeldIsNew
<1>4. ASSUME c \in inflight' PROVE Began(c)' /\ ~Taken(c)'
  <2>1. CASE c \in inflight
    <3>1. Began(c) /\ ~Taken(c)
      BY <2>1 DEF DraftsInv, CommitInv
    <3>2. ~Takes(c)
      BY <1>4 DEF Takes
    <3> QED BY <3>1, <3>2, HeldStays, TakesOnce
  <2>2. CASE c \notin inflight
    <3>1. pc[c] = "submit"
      BY <1>4, <2>2 DEF Moves, CommitMoves
    <3>2. Began(c) /\ ~Taken(c)
      BY <3>1 DEF DraftsInv, CommitInv
    <3>3. ~Takes(c)
      BY <2>2 DEF Takes
    <3> QED BY <3>2, <3>3, HeldStays, TakesOnce
  <2> QED BY <2>1, <2>2
<1>5. ASSUME pc'[c] = "submit" PROVE Began(c)' /\ ~Taken(c)' /\ c \notin inflight'
  <2>1. CASE Begins(c)
    <3>1. ~Taken(c) /\ c \notin inflight
      BY <2>1, BeginsFresh
    <3>2. inflight' = inflight
      BY <2>1 DEF Begins
    <3>3. Began(c)'
      <4>1. drafts[DraftOf[c]].baseline \in 1 .. room.revision
        BY <1>1, <2>1 DEF Begins, DraftsInv, BaselineInv
      <4>2. held'[c].baseline = drafts[DraftOf[c]].baseline
        BY <2>1 DEF Begins, Tx, DraftsInv, Typed
      <4>3. held'[c].baseline # 0
        BY <4>1, <4>2, RoomGrows
      <4> QED BY <4>3 DEF Began
    <3>4. ~Takes(c)
      BY <3>1 DEF Takes
    <3> QED BY <3>1, <3>2, <3>3, <3>4, TakesOnce
  <2>2. CASE ~Begins(c)
    <3>1. pc[c] = "submit"
      BY <1>1, <1>5, <2>2 DEF Advances
    <3>2. Began(c) /\ ~Taken(c) /\ c \notin inflight
      BY <3>1 DEF DraftsInv, CommitInv
    <3>3. c \notin inflight'
      BY <1>5, <3>2 DEF Moves, CommitMoves
    <3>4. ~Takes(c)
      BY <3>2 DEF Takes
    <3> QED BY <3>2, <3>3, <3>4, HeldStays, TakesOnce
  <2> QED BY <2>1, <2>2
<1>6. ASSUME pc'[c] \in {"mark", "cleanup"}
      PROVE  landedAt'[c] # 0 /\ room'.proposals[c] = "none"
  <2>1. CASE pc[c] \in {"mark", "cleanup"}
    <3>1. landedAt[c] # 0 /\ room.proposals[c] = "none"
      BY <2>1 DEF DraftsInv, CommitInv
    <3> QED BY <3>1, LandedStays
  <2>2. CASE Takes(c) /\ room'.proposals[c] = room.proposals[c] /\ landedAt'[c] = room'.revision
    <3>1. ~Taken(c)
      BY <2>2, TakesOnce
    <3>2. room'.revision # 0
      BY RoomGrows DEF DraftsInv, BaselineInv
    <3> QED BY <2>2, <3>1, <3>2 DEF Taken
  <2> QED BY <1>1, <1>6, <2>1, <2>2 DEF Advances, Begins
<1>7. ASSUME pc'[c] = "review" PROVE room'.proposals[c] # "none"
  <2>1. CASE pc[c] = "review"
    BY <2>1, LandedStays DEF DraftsInv, CommitInv
  <2>2. CASE room'.proposals[c] = "pending"
    BY <2>2
  <2> QED BY <1>1, <1>7, <2>1, <2>2 DEF Advances, Begins
<1> QED BY <1>2, <1>3, <1>4, <1>5, <1>6, <1>7

\* A commit that resumes finds what another of its mutation holds.
LEMMA ResumesAnother ==
  ASSUME DraftsInv, NEW d \in Drafts, drafts[d] # NoDraft, NEW c \in Commits,
         drafts[d].committing = MutationOf[c]
  PROVE  \E f \in CommitsOf(d) :
           MutationOf[f] = MutationOf[c] /\ Began(f) /\ held[f] = Tx(drafts[d])
BY NothingIsNone DEF DraftsInv, DraftInv, Truthful

\* What a commit takes is the transaction at the revision it names.
LEMMA HeldKept ==
  ASSUME DraftsInv, Moves
  PROVE  HeldInv'
<1> SUFFICES ASSUME NEW c \in Commits, Began(c)'
             PROVE  /\ Entry(DraftOf[c], named'[MutationOf[c]], held'[c].content) \in history'
                    /\ drafts'[DraftOf[c]] # NoDraft =>
                         drafts'[DraftOf[c]].revision > named'[MutationOf[c]]
  BY DEF HeldInv, Entry
<1> DEFINE d == DraftOf[c]
           m == MutationOf[c]
<1>1. d \in Drafts /\ m \in Mutations
  BY NothingIsNone
<1>2. history \subseteq history' /\ named[m] \in Nat
  BY <1>1 DEF Moves, StoreMoves, Recorded, DraftsInv, Typed
<1>3. CASE Began(c)
  <2>1. pc[c] # "idle"
    BY <1>3 DEF DraftsInv, CommitInv, Unborn
  <2>2. named'[m] = named[m] /\ held'[c] = held[c]
    BY <1>3, <2>1, NameStays, HeldStays
  <2>3. Entry(d, named[m], held[c].content) \in history
    BY <1>3 DEF DraftsInv, HeldInv
  <2>4. ASSUME drafts'[d] # NoDraft PROVE drafts'[d].revision > named[m]
    <3>1. drafts[d] # NoDraft
      BY <1>1, <2>3, <2>4, StagedOnce DEF Entry
    <3>2. drafts[d].revision > named[m]
      BY <1>3, <3>1 DEF DraftsInv, HeldInv
    <3>3. /\ drafts[d].revision \in Nat /\ drafts'[d].revision \in Nat
          /\ drafts[d].revision <= drafts'[d].revision
      BY <1>1, <2>4, <3>1, RevisionGrows DEF Draft
    <3> QED BY <1>2, <3>2, <3>3
  <2> QED BY <1>2, <2>2, <2>3, <2>4
<1>4. CASE ~Began(c)
  <2> DEFINE x == drafts[d]
  <2>1. Begins(c)
    BY <1>4, HeldIsNew
  <2>2. /\ x # NoDraft /\ held'[c] = Tx(x) /\ named' = named
        /\ \/ x.committing = m /\ drafts' = drafts
           \/ Begun(x, drafts'[d], c)
    BY <2>1 DEF Begins, DraftsInv, Typed
  <2>3. held'[c].content = x.content
    BY <2>2 DEF Tx
  <2>4. CASE x.committing = m /\ drafts' = drafts
    <3>1. PICK f \in CommitsOf(d) : MutationOf[f] = m /\ Began(f) /\ held[f] = Tx(x)
      BY <1>1, <2>2, <2>4, ResumesAnother
    <3>2. f \in Commits /\ DraftOf[f] = d /\ held[f].content = x.content
      BY <3>1 DEF CommitsOf, Tx
    <3>3. /\ Entry(d, named[m], held[f].content) \in history
          /\ x.revision > named[m]
      BY <2>2, <3>1, <3>2 DEF DraftsInv, HeldInv
    <3> QED BY <1>2, <2>2, <2>3, <2>4, <3>2, <3>3
  <2>5. CASE Begun(x, drafts'[d], c)
    <3>1. x.revision = named[m] /\ drafts'[d].revision = x.revision + 1
      BY <2>5 DEF Begun
    <3>2. Entry(d, x.revision, x.content) \in history
      BY <1>1, <2>2 DEF DraftsInv, HistoryInv
    <3> QED BY <1>2, <2>2, <2>3, <3>1, <3>2
  <2> QED BY <2>2, <2>4, <2>5
<1> QED BY <1>3, <1>4

\* A retry takes the same transaction; of one baseline one commit takes effect.
LEMMA TwinKept ==
  ASSUME DraftsInv, Moves
  PROVE  TwinInv'
<1>1. ASSUME NEW c \in Commits, NEW e \in Commits, MutationOf[c] = MutationOf[e],
             Begins(c), Began(e)', c # e
      PROVE  held'[c] = held'[e]
  <2> DEFINE d == DraftOf[c]
             x == drafts[d]
  <2>1. held'[e] = held[e] /\ Began(e)
    BY <1>1, HeldOfOthers
  <2>2. d \in Drafts /\ DraftOf[e] = d
    BY <1>1, DraftsAssumption
  <2>3. /\ x # NoDraft /\ held'[c] = Tx(x)
        /\ \/ x.committing = MutationOf[c]
           \/ Begun(x, drafts'[d], c)
    BY <1>1 DEF Begins, DraftsInv, Typed
  <2>4. CASE x.committing = MutationOf[c]
    <3>1. PICK f \in CommitsOf(d) : MutationOf[f] = MutationOf[c] /\ Began(f) /\ held[f] = Tx(x)
      BY <2>2, <2>3, <2>4, ResumesAnother
    <3>2. held[e] = held[f]
      BY <1>1, <2>1, <3>1 DEF CommitsOf, DraftsInv, TwinInv
    <3> QED BY <2>1, <2>3, <3>1, <3>2
  <2>5. CASE Begun(x, drafts'[d], c)
    <3>1. x.revision = named[MutationOf[c]]
      BY <2>5 DEF Begun
    <3>2. x.revision > named[MutationOf[c]]
      BY <1>1, <2>1, <2>2, <2>3 DEF DraftsInv, HeldInv
    <3>3. x.revision \in Nat
      BY <2>2, <2>3, DraftKinds DEF DraftsInv, Draft
    <3> QED BY <3>1, <3>2, <3>3
  <2> QED BY <2>3, <2>4, <2>5
<1>2. ASSUME NEW c \in Commits, NEW e \in Commits, MutationOf[c] = MutationOf[e],
             Began(c)', Began(e)'
      PROVE  held'[c] = held'[e]
  <2>1. CASE Began(c) /\ Began(e)
    BY <1>2, <2>1, HeldStays DEF DraftsInv, TwinInv
  <2>2. CASE ~Began(c)
    BY <1>1, <1>2, <2>2, HeldIsNew
  <2>3. CASE ~Began(e)
    BY <1>1, <1>2, <2>3, HeldIsNew
  <2> QED BY <2>1, <2>2, <2>3
<1>3. ASSUME NEW c \in Commits, NEW e \in Commits, Takes(c), Taken(e), c # e
      PROVE  held'[c].baseline # held'[e].baseline
  <2>1. held'[c] = held[c] /\ held'[e] = held[e] /\ held[c].baseline = room.revision
    BY <1>3, TakesOnce DEF Takes
  <2>2. held[e].baseline < room.revision /\ held[e].baseline \in Nat
    BY <1>3 DEF DraftsInv, RoomInv, Typed, Transaction
  <2> QED BY <2>1, <2>2, RoomGrows
<1>4. ASSUME NEW c \in Commits, NEW e \in Commits, Taken(c)', Taken(e)', c # e
      PROVE  held'[c].baseline # held'[e].baseline
  <2>1. CASE Taken(c) /\ Taken(e)
    <3>1. Began(c) /\ Began(e) /\ held[c].baseline # held[e].baseline
      BY <1>4, <2>1 DEF DraftsInv, RoomInv, TwinInv
    <3> QED BY <3>1, HeldStays
  <2>2. CASE Takes(c) /\ Takes(e)
    <3>1. c \in inflight \ inflight' /\ e \in inflight \ inflight'
      BY <2>2 DEF Takes
    <3> QED BY <1>4, <3>1 DEF Moves, CommitMoves
  <2>3. CASE Takes(c) /\ Taken(e)
    BY <1>3, <1>4, <2>3
  <2>4. CASE Taken(c) /\ Takes(e)
    BY <1>3, <1>4, <2>4
  <2> QED BY <1>4, <2>1, <2>2, <2>3, <2>4, TakesOnce
<1> QED BY <1>2, <1>4 DEF TwinInv

\* The room remembers what took effect on it.
LEMMA RoomKept ==
  ASSUME DraftsInv, Moves
  PROVE  RoomInv'
<1> SUFFICES ASSUME NEW c \in Commits
             PROVE  /\ Taken(c)' => /\ Began(c)' /\ held'[c].baseline < room'.revision
                                    /\ MutationOf[c] \in Keyed => MutationOf[c] \in room'.receipts
                    /\ landedAt'[c] <= room'.revision
                    /\ room'.proposals[c] \in {"pending", "rejected"} => landedAt'[c] = 0
                    /\ room'.proposals[c] = "applied" => landedAt'[c] # 0
  BY DEF RoomInv, replayed
<1>1. Keeps(c) \/ Takes(c) \/ Decides(c)
  BY DEF Moves, RoomMoves
<1>2. held[c].baseline \in Nat /\ landedAt[c] \in Nat /\ room.receipts \subseteq room'.receipts
  BY DEF DraftsInv, Typed, Transaction, Moves, RoomMoves
<1>3. /\ Taken(c) => /\ Began(c) /\ held[c].baseline < room.revision
                     /\ MutationOf[c] \in Keyed => MutationOf[c] \in room.receipts
      /\ landedAt[c] <= room.revision
      /\ room.proposals[c] \in {"pending", "rejected"} => landedAt[c] = 0
      /\ room.proposals[c] = "applied" => landedAt[c] # 0
  BY DEF DraftsInv, RoomInv, replayed
<1>4. ASSUME Taken(c)'
      PROVE  /\ Began(c)' /\ held'[c].baseline < room'.revision
             /\ MutationOf[c] \in Keyed => MutationOf[c] \in room'.receipts
  <2>1. CASE Taken(c)
    BY <1>2, <1>3, <2>1, HeldStays, RoomGrows
  <2>2. CASE Takes(c)
    <3>1. Began(c) /\ held[c].baseline = room.revision
      BY <2>2, TakesOnce
    <3>2. room'.revision = room.revision + 1
      BY <2>2 DEF Takes
    <3>3. MutationOf[c] \in Keyed => MutationOf[c] \in room'.receipts
      BY <2>2 DEF Takes
    <3> QED BY <3>1, <3>2, <3>3, HeldStays, RoomGrows
  <2> QED BY <1>4, <2>1, <2>2, TakesOnce
<1>5. CASE Keeps(c)
  BY <1>2, <1>3, <1>4, <1>5, RoomGrows DEF Keeps
<1>6. CASE Takes(c)
  <2>1. ~Taken(c)
    BY <1>6, TakesOnce
  <2>2. landedAt[c] = 0 /\ room.proposals[c] = "none"
    BY <2>1 DEF Taken
  <2>3. room'.revision # 0
    BY RoomGrows DEF DraftsInv, BaselineInv
  <2>4. \/ room'.proposals[c] = "pending" /\ landedAt'[c] = 0
        \/ room'.proposals[c] = "none" /\ landedAt'[c] = room'.revision
    BY <1>6, <2>2 DEF Takes
  <2> QED BY <1>4, <2>3, <2>4, RoomGrows
<1>7. CASE Decides(c)
  <2>1. landedAt[c] = 0
    BY <1>3, <1>7 DEF Decides
  <2>2. room'.revision # 0
    BY RoomGrows DEF DraftsInv, BaselineInv
  <2>3. \/ room'.proposals[c] = "applied" /\ landedAt'[c] = room'.revision
        \/ room'.proposals[c] = "rejected" /\ landedAt'[c] = 0
    BY <1>7, <2>1 DEF Decides
  <2> QED BY <1>4, <2>2, <2>3, RoomGrows
<1> QED BY <1>1, <1>5, <1>6, <1>7

-----------------------------------------------------------------------------
(* What the records say.                                                   *)

\* What Truthful says of a record after the step.
TruthfulThen(d, x) ==
  /\ x.status = "committing" <=> x.committing # Nothing
  /\ x.status = "awaiting_review" <=> x.proposal # Nothing
  /\ x.committing # Nothing =>
       \E c \in CommitsOf(d) : MutationOf[c] = x.committing /\ Began(c)' /\ held'[c] = Tx(x)
  /\ x.evidence # Nothing =>
       \E c \in CommitsOf(d) : /\ MutationOf[c] = x.committing /\ room'.proposals[c] = "none"
                               /\ landedAt'[c] = x.evidence /\ x.evidence # 0
  /\ x.proposal # Nothing => x.proposal \in CommitsOf(d) /\ room'.proposals[x.proposal] # "none"

\* What a record says of its commits stays true.
LEMMA TruthStays ==
  ASSUME DraftsInv, Moves, NEW d, NEW x, Truthful(d, x)
  PROVE  TruthfulThen(d, x)
<1>1. CommitsOf(d) \subseteq Commits
  BY DEF CommitsOf
<1>2. ASSUME x.committing # Nothing
      PROVE  \E c \in CommitsOf(d) : MutationOf[c] = x.committing /\ Began(c)' /\ held'[c] = Tx(x)
  <2>1. PICK c \in CommitsOf(d) : MutationOf[c] = x.committing /\ Began(c) /\ held[c] = Tx(x)
    BY <1>2 DEF Truthful
  <2>2. held'[c] = held[c] /\ Began(c)'
    BY <1>1, <2>1, HeldStays
  <2> QED BY <2>1, <2>2
<1>3. ASSUME x.evidence # Nothing
      PROVE  \E c \in CommitsOf(d) : /\ MutationOf[c] = x.committing /\ room'.proposals[c] = "none"
                                     /\ landedAt'[c] = x.evidence /\ x.evidence # 0
  <2>1. PICK c \in CommitsOf(d) : /\ MutationOf[c] = x.committing /\ room.proposals[c] = "none"
                                  /\ landedAt[c] = x.evidence /\ x.evidence # 0
    BY <1>3 DEF Truthful
  <2>2. landedAt'[c] = landedAt[c] /\ room'.proposals[c] = room.proposals[c]
    BY <1>1, <2>1, LandedStays
  <2> QED BY <2>1, <2>2
<1>4. ASSUME x.proposal # Nothing
      PROVE  x.proposal \in CommitsOf(d) /\ room'.proposals[x.proposal] # "none"
  <2> DEFINE c == x.proposal
  <2>1. c \in CommitsOf(d) /\ room.proposals[c] # "none"
    BY <1>4 DEF Truthful
  <2> HIDE DEF c
  <2>2. room'.proposals[c] # "none"
    BY <1>1, <2>1, LandedStays
  <2> QED BY <2>1, <2>2 DEF c
<1>5. /\ x.status = "committing" <=> x.committing # Nothing
      /\ x.status = "awaiting_review" <=> x.proposal # Nothing
  BY DEF Truthful
<1> QED BY <1>2, <1>3, <1>4, <1>5 DEF TruthfulThen

\* What a record is made to say of its commits is true.
LEMMA DraftKept ==
  ASSUME DraftsInv, Moves
  PROVE  DraftInv'
<1> SUFFICES ASSUME NEW d \in Drafts, drafts'[d] # NoDraft
             PROVE  TruthfulThen(d, drafts'[d])
  BY DEF DraftInv, Truthful, TruthfulThen, CommitsOf, Tx
<1> DEFINE x == drafts[d]
           y == drafts'[d]
<1>1. /\ y.status = "committing" <=> y.committing # Nothing
      /\ y.status = "awaiting_review" <=> y.proposal # Nothing
      /\ y.evidence # Nothing => y.status = "committing"
  BY PhasesKept DEF PhasesOK
<1>2. CommitsOf(d) \subseteq Commits
  BY DEF CommitsOf
<1>3. x # NoDraft => TruthfulThen(d, x)
  BY TruthStays DEF DraftsInv, DraftInv
<1>4. CASE y = x
  BY <1>3, <1>4
<1>5. CASE y.status = "active"
  BY <1>1, <1>5 DEF TruthfulThen
<1>6. ASSUME NEW c \in CommitsOf(d), x # NoDraft, pc[c] = "begin", Begun(x, y, c),
             held' = [held EXCEPT ![c] = Tx(x)]
      PROVE  TruthfulThen(d, y)
  <2>1. y.committing = MutationOf[c] /\ y.evidence = Nothing /\ Tx(y) = Tx(x)
        /\ y.status = "committing"
    BY <1>6 DEF Begun
  <2>2. held'[c] = Tx(x)
    BY <1>2, <1>6 DEF DraftsInv, Typed
  <2>3. held'[c].baseline # 0
    <3>1. x.baseline \in 1 .. room.revision
      BY <1>6 DEF DraftsInv, BaselineInv
    <3>2. held'[c].baseline = x.baseline
      BY <2>2 DEF Tx
    <3> QED BY <3>1, <3>2, RoomGrows
  <2>4. Began(c)'
    BY <2>3 DEF Began
  <2>5. y.proposal = Nothing
    BY <1>1, <2>1
  <2> QED BY <1>1, <2>1, <2>2, <2>4, <2>5 DEF TruthfulThen
<1>7. ASSUME NEW c \in CommitsOf(d), room.proposals[c] # "none", Queued(x, y, c)
      PROVE  TruthfulThen(d, y)
  <2>1. y.status = "awaiting_review" /\ y.committing = Nothing /\ y.proposal = c
    BY <1>7 DEF Queued
  <2>2. y.evidence = Nothing
    BY <1>1, <2>1
  <2>3. room'.proposals[c] # "none"
    BY <1>2, <1>7, LandedStays
  <2> QED BY <1>1, <2>1, <2>2, <2>3 DEF TruthfulThen
<1>8. ASSUME NEW c \in CommitsOf(d), x # NoDraft, pc[c] = "mark", Marked(x, y, c)
      PROVE  TruthfulThen(d, y)
  <2>1. /\ y.committing = x.committing /\ x.committing = MutationOf[c] /\ Tx(y) = Tx(x)
        /\ y.evidence = landedAt[c] /\ y.proposal = x.proposal
    BY <1>8 DEF Marked
  <2>2. landedAt[c] # 0 /\ room.proposals[c] = "none"
    BY <1>2, <1>8 DEF DraftsInv, CommitInv
  <2>3. landedAt'[c] = landedAt[c] /\ room'.proposals[c] = room.proposals[c]
    BY <1>2, <2>2, LandedStays
  <2>4. TruthfulThen(d, x)
    BY <1>3, <1>8
  <2> QED BY <1>1, <2>1, <2>2, <2>3, <2>4 DEF TruthfulThen
<1>9. Staged(y, room.revision) => y.status = "active"
  BY DEF Staged
<1>10. ASSUME Rewrites(d, x, y), x # NoDraft PROVE TruthfulThen(d, y)
  BY <1>5, <1>6, <1>7, <1>8, <1>10 DEF Rewrites, Edited, Touched, Restored
<1> QED BY <1>4, <1>5, <1>9, <1>10, EvolvesHolds DEF Evolves

\* The commits of a mutation are as dead as one of them.
LEMMA TwinsAreDead ==
  ASSUME DraftsInv, NEW c \in Commits, NEW e \in Commits, MutationOf[c] = MutationOf[e],
         Began(c), Began(e), Dead(c)
  PROVE  Dead(e)
<1>1. held[c] = held[e] /\ DraftOf[c] = DraftOf[e]
  BY DraftsAssumption DEF DraftsInv, TwinInv
<1> QED BY <1>1 DEF Dead

\* What is refused stays without effect, its retries included.
LEMMA RestoreKept ==
  ASSUME DraftsInv, Moves
  PROVE  RestoreInv'
<1> SUFFICES ASSUME NEW c \in Commits, pc'[c] = "restore", c \notin gaveUp'
             PROVE  /\ Began(c)' /\ Dead(c)'
                    /\ \A e \in Commits : MutationOf[c] = MutationOf[e] => ~Taken(e)'
  BY DEF RestoreInv
<1>1. gaveUp \subseteq gaveUp' /\ Advances(c)
  BY DEF Moves, CommitMoves
<1>2. ASSUME Began(c), Dead(c), \A e \in Commits : MutationOf[c] = MutationOf[e] => ~Taken(e)
      PROVE  /\ Began(c)' /\ Dead(c)'
             /\ \A e \in Commits : MutationOf[c] = MutationOf[e] => ~Taken(e)'
  <2>1. Began(c)' /\ Dead(c)'
    BY <1>2, HeldStays, DeadStays
  <2>2. ASSUME NEW e \in Commits, MutationOf[c] = MutationOf[e]
        PROVE  ~Taken(e)'
    <3>1. ~Takes(e)
      BY <1>2, <2>2, TakesOnce, TwinsAreDead
    <3> QED BY <1>2, <2>2, <3>1, TakesOnce
  <2> QED BY <2>1, <2>2
<1>3. CASE pc[c] = "restore"
  BY <1>1, <1>2, <1>3 DEF DraftsInv, RestoreInv
<1>4. CASE Refused(c)
  <2>1. c \in inflight /\ ~replayed(c) /\ Dead(c)
    BY <1>4 DEF Refused
  <2>2. Began(c) /\ ~Taken(c)
    BY <2>1 DEF DraftsInv, CommitInv
  <2>3. ASSUME NEW e \in Commits, MutationOf[c] = MutationOf[e], Taken(e)
        PROVE  FALSE
    <3>1. c # e
      BY <2>2, <2>3
    <3>2. MutationOf[e] \in Keyed
      BY <2>3, <3>1, DraftsAssumption
    <3>3. replayed(e)
      BY <2>3, <3>2 DEF DraftsInv, RoomInv
    <3> QED BY <2>1, <2>3, <3>3 DEF replayed
  <2> QED BY <1>2, <2>1, <2>2, <2>3
<1> QED BY <1>1, <1>3, <1>4 DEF Advances, Begins

\* A draft that a commit has just begun on is that commit's.
LEMMA BegunClaims ==
  ASSUME DraftsInv, Moves, NEW c \in Commits, Begins(c)
  PROVE  /\ drafts[DraftOf[c]] # NoDraft /\ drafts'[DraftOf[c]] # NoDraft
         /\ drafts'[DraftOf[c]].committing = MutationOf[c]
         /\ drafts[DraftOf[c]].proposal = Nothing
         /\ drafts[DraftOf[c]].committing \in {Nothing, MutationOf[c]}
<1> DEFINE d == DraftOf[c]
           x == drafts[d]
<1>1. d \in Drafts /\ MutationOf[c] # Nothing
  BY NothingIsNone
<1>2. /\ x # NoDraft
      /\ \/ x.committing = MutationOf[c] /\ drafts' = drafts
         \/ Begun(x, drafts'[d], c)
  BY DEF Begins
<1>3. /\ x.status = "committing" <=> x.committing # Nothing
      /\ x.status = "awaiting_review" <=> x.proposal # Nothing
  BY <1>1, <1>2 DEF DraftsInv, PhasesOK
<1>4. CASE x.committing = MutationOf[c] /\ drafts' = drafts
  BY <1>1, <1>2, <1>3, <1>4
<1>5. CASE Begun(x, drafts'[d], c)
  BY <1>1, <1>2, <1>3, <1>5, NoDraftAssumption DEF Begun
<1> QED BY <1>2, <1>4, <1>5

\* What a draft that is certain has gone on from.
LEMMA LostBefore ==
  ASSUME DraftsInv, NEW d \in Drafts, drafts[d] # NoDraft, drafts[d].proposal = Nothing,
         Certain(d), NEW c \in CommitsOf(d), Began(c), MutationOf[c] # drafts[d].committing
  PROVE  Lost(c)
BY DEF DraftsInv, LostInv

\* Certainty is not regained.
LEMMA CertainBefore ==
  ASSUME Moves, NEW d, Certain(d)'
  PROVE  Certain(d) /\ \A c \in CommitsOf(d) : c \in Commits /\ c \notin gaveUp /\ DraftOf[c] = d
BY DEF Moves, CommitMoves, Certain, CommitsOf

\* A draft goes on only from commits that are lost.
LEMMA LostKept ==
  ASSUME DraftsInv, Moves
  PROVE  LostInv'
<1>1. ASSUME NEW d \in Drafts, drafts'[d] # NoDraft, drafts'[d].proposal = Nothing, Certain(d)',
             NEW c \in CommitsOf(d), Began(c)', MutationOf[c] # drafts'[d].committing
      PROVE  Lost(c)'
  <2> DEFINE x == drafts[d]
             y == drafts'[d]
  <2>1. c \in Commits /\ DraftOf[c] = d /\ Certain(d) /\ MutationOf[c] # Nothing
    BY <1>1, CertainBefore, NothingIsNone
  <2>2. Began(c)
    BY <1>1, <2>1, HeldIsNew, BegunClaims
  <2> SUFFICES Lost(c)
    BY <2>1, <2>2, LostStays
  <2>3. x # NoDraft
    <3>1. Entry(d, named[MutationOf[c]], held[c].content) \in history
      BY <2>1, <2>2 DEF DraftsInv, HeldInv
    <3> QED BY <1>1, <3>1, StagedOnce DEF Entry
  <2>4. /\ x.status = "committing" <=> x.committing # Nothing
        /\ x.status = "awaiting_review" <=> x.proposal # Nothing
    BY <2>3 DEF DraftsInv, PhasesOK
  <2>5. CASE x.proposal = Nothing /\ MutationOf[c] # x.committing
    BY <2>1, <2>2, <2>3, <2>5, LostBefore
  <2>6. ASSUME NEW f \in CommitsOf(d), pc[f] = "restore", Restored(x, y, f)
        PROVE  Lost(c)
    <3>1. f \in Commits /\ f \notin gaveUp
      BY <1>1, CertainBefore
    <3>2. x.committing = MutationOf[f] /\ x.proposal = y.proposal
      BY <2>6 DEF Restored
    <3>3. CASE MutationOf[c] = MutationOf[f]
      <4>1. Began(f) /\ Dead(f) /\ ~Taken(c)
        BY <2>1, <2>6, <3>1, <3>3 DEF DraftsInv, RestoreInv
      <4>2. Dead(c)
        BY <2>1, <2>2, <3>1, <3>3, <4>1, TwinsAreDead
      <4> QED BY <4>1, <4>2 DEF Lost
    <3>4. CASE MutationOf[c] # MutationOf[f]
      BY <1>1, <2>5, <3>2, <3>4
    <3> QED BY <3>3, <3>4
  <2>7. y = x => x.proposal = Nothing /\ MutationOf[c] # x.committing
    BY <1>1
  <2>8. ASSUME NEW r, Edited(x, y, r) PROVE x.proposal = Nothing /\ MutationOf[c] # x.committing
    BY <1>1, <2>8 DEF Edited, SameClaims
  <2>9. Touched(x, y) => x.proposal = Nothing /\ MutationOf[c] # x.committing
    BY <1>1 DEF Touched, SameClaims
  <2>10. ASSUME NEW f, Begun(x, y, f) PROVE x.proposal = Nothing /\ MutationOf[c] # x.committing
    BY <1>1, <2>1, <2>4, <2>10 DEF Begun
  <2>11. ASSUME NEW f \in CommitsOf(d), Queued(x, y, f) PROVE FALSE
    BY <1>1, <2>11, NothingIsNone DEF Queued, CommitsOf
  <2>12. ASSUME NEW f, Marked(x, y, f) PROVE x.proposal = Nothing /\ MutationOf[c] # x.committing
    BY <1>1, <2>12 DEF Marked
  <2>13. ASSUME Rewrites(d, x, y) PROVE Lost(c)
    BY <2>5, <2>6, <2>8, <2>9, <2>10, <2>11, <2>12, <2>13 DEF Rewrites
  <2> QED BY <1>1, <2>3, <2>5, <2>7, <2>13, EvolvesHolds DEF Evolves
<1>2. ASSUME NEW d \in Drafts, Certain(d)', NEW c \in CommitsOf(d), NEW e \in CommitsOf(d),
             Begins(c), Began(e)', MutationOf[c] # MutationOf[e]
      PROVE  Lost(e)'
  <2>1. c \in Commits /\ e \in Commits /\ DraftOf[c] = d /\ Certain(d) /\ MutationOf[e] # Nothing
    BY <1>2, CertainBefore, NothingIsNone
  <2>2. Began(e)
    BY <1>2, <2>1, HeldOfOthers
  <2>3. /\ drafts[d] # NoDraft /\ drafts[d].proposal = Nothing
        /\ drafts[d].committing \in {Nothing, MutationOf[c]}
    BY <1>2, <2>1, BegunClaims
  <2>4. Lost(e)
    BY <1>2, <2>1, <2>2, <2>3, LostBefore
  <2> QED BY <2>1, <2>2, <2>4, LostStays
<1>3. ASSUME NEW d \in Drafts, Certain(d)', NEW c \in CommitsOf(d), NEW e \in CommitsOf(d),
             Began(c)', Began(e)', MutationOf[c] # MutationOf[e]
      PROVE  Lost(c)' \/ Lost(e)'
  <2>1. c \in Commits /\ e \in Commits /\ Certain(d)
    BY <1>3, CertainBefore
  <2>2. CASE Began(c) /\ Began(e)
    <3>1. Lost(c) \/ Lost(e)
      BY <1>3, <2>1, <2>2 DEF DraftsInv, LostInv
    <3> QED BY <2>1, <2>2, <3>1, LostStays
  <2>3. CASE ~Began(c)
    BY <1>2, <1>3, <2>1, <2>3, HeldIsNew
  <2>4. CASE ~Began(e)
    BY <1>2, <1>3, <2>1, <2>4, HeldIsNew
  <2> QED BY <2>2, <2>3, <2>4
<1> QED BY <1>1, <1>3 DEF LostInv, CommitsOf

\* What has landed by a fence has landed by it.
LEMMA LandedIsKept ==
  ASSUME DraftsInv, Moves, NEW d, NEW fence \in Nat, Landed(d, fence)
  PROVE  fence <= room'.revision /\ \E c \in CommitsOf(d) : landedAt'[c] \in 1 .. fence
<1>1. PICK c \in CommitsOf(d) : landedAt[c] \in 1 .. fence
  BY DEF Landed
<1>2. landedAt'[c] = landedAt[c]
  BY <1>1, LandedStays DEF CommitsOf
<1> QED BY <1>1, <1>2, RoomGrows DEF Landed

\* The reason a draft ended for stays true.
LEMMA EndKept ==
  ASSUME DraftsInv, Moves
  PROVE  EndInv'
<1> SUFFICES ASSUME NEW d \in Drafts
             PROVE  /\ ended'[d].reason = "committed" => Landed(d, ended[d].fence)'
                    /\ ended'[d].reason = "discarded" /\ Certain(d)' =>
                         \A c \in CommitsOf(d) :
                           /\ Began(c)' => Dead(c)'
                           /\ landedAt'[c] = 0 /\ room'.proposals[c] \in {"none", "rejected"}
  BY DEF EndInv, CommitsOf
<1>1. \/ ended'[d] = ended[d]
      \/ drafts[d] # NoDraft /\ Ends(d, drafts[d], ended'[d])
  BY EvolvesHolds DEF Evolves
<1>2. ASSUME ended'[d].reason = "committed" PROVE Landed(d, ended[d].fence)'
  <2>1. Landed(d, ended'[d].fence)
    BY <1>1, <1>2 DEF DraftsInv, EndInv, Ends
  <2>2. ended'[d].fence \in Nat
    BY DEF Moves, StoreMoves, Ending
  <2>3. /\ ended'[d].fence <= room'.revision
        /\ \E c \in CommitsOf(d) : landedAt'[c] \in 1 .. ended'[d].fence
    BY <2>1, <2>2, LandedIsKept
  <2> QED BY <2>3 DEF Landed, CommitsOf
<1>3. ASSUME NEW c \in Commits, Began(c), Dead(c), landedAt[c] = 0,
             room.proposals[c] \in {"none", "rejected"}
      PROVE  /\ Dead(c)'
             /\ landedAt'[c] = 0 /\ room'.proposals[c] \in {"none", "rejected"}
  <2>1. Dead(c)' /\ ~Takes(c)
    BY <1>3, DeadStays
  <2>2. Keeps(c) \/ Takes(c) \/ Decides(c)
    BY DEF Moves, RoomMoves
  <2> QED BY <1>3, <2>1, <2>2 DEF Keeps, Decides
<1>4. ASSUME NEW c \in Commits, ~Began(c), ~Began(c)'
      PROVE  landedAt'[c] = 0 /\ room'.proposals[c] \in {"none", "rejected"}
  <2>1. ~Taken(c) /\ ~Takes(c)
    BY <1>4, UntakenUnlessBegan, TakesOnce
  <2> QED BY <2>1, TakesOnce DEF Taken
<1>5. ASSUME ended'[d].reason = "discarded", Certain(d)', NEW c \in CommitsOf(d)
      PROVE  /\ Began(c)' => Dead(c)'
             /\ landedAt'[c] = 0 /\ room'.proposals[c] \in {"none", "rejected"}
  <2>1. c \in Commits /\ DraftOf[c] = d /\ Certain(d)
    BY <1>5, CertainBefore
  <2>2. ~Begins(c)
    <3>1. Begins(c) => drafts[d] # NoDraft /\ drafts'[d] # NoDraft
      BY <2>1, BegunClaims
    <3>2. drafts'[d] # NoDraft => ended'[d].reason = "none"
      BY HistoryKept DEF HistoryInv
    <3> QED BY <1>5, <3>1, <3>2
  <2>3. CASE ~Began(c)
    BY <1>4, <2>1, <2>2, <2>3, HeldIsNew
  <2>4. CASE Began(c)
    <3> SUFFICES Dead(c) /\ landedAt[c] = 0 /\ room.proposals[c] \in {"none", "rejected"}
      BY <1>3, <2>1, <2>4
    <3>1. Lost(c) => Dead(c) /\ landedAt[c] = 0 /\ room.proposals[c] \in {"none", "rejected"}
      BY DEF Lost, Taken
    <3>2. CASE ended'[d] = ended[d]
      BY <1>5, <2>1, <2>4, <3>2 DEF DraftsInv, EndInv
    <3>3. CASE drafts[d] # NoDraft /\ drafts[d].status = "active"
      <4>1. drafts[d].proposal = Nothing /\ drafts[d].committing = Nothing
        BY <3>3 DEF DraftsInv, PhasesOK
      <4> QED BY <2>1, <2>4, <3>1, <3>3, <4>1, LostBefore, NothingIsNone
    <3>4. ASSUME NEW g \in CommitsOf(d), room.proposals[g] = "rejected"
          PROVE  Dead(c) /\ landedAt[c] = 0 /\ room.proposals[c] \in {"none", "rejected"}
      <4>1. g \in Commits /\ Taken(g)
        BY <3>4 DEF CommitsOf, Taken
      <4>2. Began(g) /\ landedAt[g] = 0 /\ held[g].baseline < room.revision
        BY <3>4, <4>1 DEF DraftsInv, RoomInv
      <4>3. CASE MutationOf[c] # MutationOf[g]
        <5>1. ~Lost(g)
          BY <4>1 DEF Lost
        <5>2. Lost(c)
          BY <2>1, <2>4, <3>4, <4>2, <4>3, <5>1 DEF DraftsInv, LostInv
        <5> QED BY <3>1, <5>2
      <4>4. CASE MutationOf[c] = MutationOf[g] /\ c # g
        <5>1. held[c] = held[g]
          BY <2>1, <2>4, <4>1, <4>2, <4>4 DEF DraftsInv, TwinInv
        <5>2. ~Taken(c)
          BY <2>1, <4>1, <4>4, <5>1 DEF DraftsInv, TwinInv
        <5>3. held[g].baseline \in Nat
          BY <4>1 DEF DraftsInv, Typed, Transaction
        <5>4. Dead(c)
          BY <4>2, <5>1, <5>3, RoomGrows DEF Dead
        <5> QED BY <5>2, <5>4 DEF Taken
      <4>5. CASE c = g
        <5>1. held[g].baseline \in Nat
          BY <4>1 DEF DraftsInv, Typed, Transaction
        <5>2. Dead(c)
          BY <4>2, <4>5, <5>1, RoomGrows DEF Dead
        <5> QED BY <3>4, <4>2, <4>5, <5>2
      <4> QED BY <4>3, <4>4, <4>5
    <3> QED BY <1>1, <1>5, <3>2, <3>3, <3>4 DEF Ends
  <2> QED BY <2>3, <2>4
<1> QED BY <1>2, <1>5

\* What a read holds stays true while it lasts.
LEMMA ReadKept ==
  ASSUME DraftsInv, Moves
  PROVE  ReadInv'
<1> SUFFICES ASSUME NEW r \in Readers, reads'[r] # Nothing
             PROVE  /\ reads'[r].revision <= room'.revision
                    /\ \A c \in Commits :
                         /\ reads'[r].proposals[c] = "applied" => landedAt'[c] \in 1 .. reads'[r].revision
                         /\ reads'[r].proposals[c] = "rejected" => room'.proposals[c] = "rejected"
                         /\ reads'[r].proposals[c] # "none" => room'.proposals[c] # "none"
                    /\ reads'[r].found # NoDraft => TruthfulThen(reads'[r].draft, reads'[r].found)
  BY DEF ReadInv, Truthful, TruthfulThen, CommitsOf, Tx
<1> DEFINE old == reads[r]
           new == reads'[r]
<1>1. new \in Read /\ new.revision \in Nat
  BY DEF Moves, ReadMoves, Read
<1>2. ASSUME old # Nothing, new.revision = old.revision, new.proposals = old.proposals
      PROVE  /\ new.revision <= room'.revision
             /\ \A c \in Commits :
                  /\ new.proposals[c] = "applied" => landedAt'[c] \in 1 .. new.revision
                  /\ new.proposals[c] = "rejected" => room'.proposals[c] = "rejected"
                  /\ new.proposals[c] # "none" => room'.proposals[c] # "none"
  <2>1. new.revision <= room.revision
    BY <1>2 DEF DraftsInv, ReadInv
  <2>2. ASSUME NEW c \in Commits
        PROVE  /\ new.proposals[c] = "applied" => landedAt'[c] \in 1 .. new.revision
               /\ new.proposals[c] = "rejected" => room'.proposals[c] = "rejected"
               /\ new.proposals[c] # "none" => room'.proposals[c] # "none"
    <3>1. /\ new.proposals[c] = "applied" => landedAt[c] \in 1 .. new.revision
          /\ new.proposals[c] = "rejected" => room.proposals[c] = "rejected"
          /\ new.proposals[c] # "none" => room.proposals[c] # "none"
      BY <1>2 DEF DraftsInv, ReadInv
    <3> QED BY <1>1, <3>1, LandedStays
  <2> QED BY <1>1, <2>1, <2>2, RoomGrows
<1>3. CASE new = old
  <2>1. new.found # NoDraft => TruthfulThen(new.draft, new.found)
    BY <1>3, TruthStays DEF DraftsInv, ReadInv
  <2> QED BY <1>2, <1>3, <2>1
<1>4. CASE HasRoom(new) /\ UNCHANGED <<room, landedAt>>
  <2>1. new.revision = room.revision /\ new.proposals = room.proposals /\ new.found = NoDraft
    BY <1>4 DEF HasRoom
  <2>2. ASSUME NEW c \in Commits, room.proposals[c] = "applied"
        PROVE  landedAt[c] \in 1 .. room.revision
    <3>1. landedAt[c] # 0 /\ landedAt[c] <= room.revision /\ landedAt[c] \in Nat
      BY <2>2 DEF DraftsInv, RoomInv, Typed
    <3> QED BY <3>1, RoomGrows
  <2> QED BY <1>4, <2>1, <2>2, RoomGrows
<1>5. CASE HasDraft(old, new)
  <2>1. old # Nothing /\ new.revision = old.revision /\ new.proposals = old.proposals
    BY <1>5 DEF HasDraft
  <2>2. ASSUME new.found # NoDraft
        PROVE  TruthfulThen(new.draft, new.found)
    <3>1. new.draft \in Drafts /\ new.found = drafts[new.draft]
      BY <1>5, <2>2 DEF HasDraft
    <3>2. Truthful(new.draft, new.found)
      BY <2>2, <3>1 DEF DraftsInv, DraftInv
    <3> QED BY <3>2, TruthStays
  <2> QED BY <1>2, <2>1, <2>2
<1> QED BY <1>3, <1>4, <1>5 DEF Moves, ReadMoves

-----------------------------------------------------------------------------
(* The invariant.                                                          *)

\* The invariant holds at first,
LEMMA InitInv ==
  ASSUME Init
  PROVE  DraftsInv
<1>1. PICK reviewing \in BOOLEAN : room = [NoRoom EXCEPT !.reviewing = reviewing]
  BY DEF Init
<1>2. /\ room \in Room /\ room.revision = 1 /\ room.proposals = [c \in Commits |-> "none"]
  BY <1>1 DEF NoRoom, Room
<1>3. /\ drafts = [d \in Drafts |-> NoDraft] /\ history = {}
      /\ ended = [d \in Drafts |-> [reason |-> "none", fence |-> 0]]
      /\ inflight = {} /\ landedAt = [c \in Commits |-> 0]
      /\ pc = [c \in Commits |-> "idle"] /\ held = [c \in Commits |-> NoTransaction]
      /\ replacing = [e \in Edits |-> Nothing] /\ reads = [r \in Readers |-> Nothing]
  BY DEF Init
<1>4. Typed
  <2>1. NoTransaction \in Transaction /\ [reason |-> "none", fence |-> 0] \in Ending
    BY DEF NoTransaction, Transaction, Ending
  <2>2. now \in 0 .. MaxTime /\ "idle" \in Phases
    BY DraftsAssumption DEF Init, Phases
  <2> QED BY <1>2, <1>3, <2>1, <2>2 DEF Init, Typed
<1>5. \A c \in Commits : held[c].baseline = 0 /\ landedAt[c] = 0 /\ room.proposals[c] = "none"
                         /\ pc[c] = "idle" /\ c \notin inflight
  BY <1>2, <1>3 DEF NoTransaction
<1>6. \A c \in Commits : ~Began(c) /\ ~Taken(c)
  BY <1>5 DEF Began, Taken
<1>7. /\ \A d \in Drafts : drafts[d] = NoDraft /\ ended[d].reason = "none"
      /\ \A e \in Edits : replacing[e] = Nothing
      /\ \A r \in Readers : reads[r] = Nothing
  BY <1>3
<1>8. PhasesOK /\ HistoryInv /\ BaselineInv /\ EditInv /\ DraftInv /\ EndInv /\ ReadInv
  BY <1>2, <1>3, <1>5, <1>7
     DEF PhasesOK, HistoryInv, BaselineInv, EditInv, DraftInv, EndInv, ReadInv
<1>9. CommitInv /\ HeldInv /\ TwinInv /\ RoomInv /\ RestoreInv
  BY <1>2, <1>5, <1>6 DEF CommitInv, HeldInv, TwinInv, RoomInv, RestoreInv, Unborn
<1>10. LostInv
  BY <1>6 DEF LostInv, CommitsOf
<1> QED BY <1>4, <1>8, <1>9, <1>10 DEF DraftsInv

\* and every step keeps it.
LEMMA StepInv ==
  ASSUME DraftsInv, [Next]_vars
  PROVE  DraftsInv'
<1>1. Moves
  BY StepMoves
<1> QED BY <1>1, TypesKept, PhasesKept, HistoryKept, BaselineKept, EditKept, CommitKept, HeldKept,
        TwinKept, RoomKept, DraftKept, RestoreKept, LostKept, EndKept, ReadKept DEF DraftsInv

\* Every reachable state of the draft store and the requests at it has all
\* parts of the invariant (agent-draft-store.ts, agent-draft-service.ts).
THEOREM DraftsCorrect == Spec => []DraftsInv
<1>1. Init => DraftsInv
  BY InitInv
<1>2. DraftsInv /\ [Next]_vars => DraftsInv'
  BY StepInv
<1> QED BY <1>1, <1>2, PTL DEF Spec

\* Every variable has its type, and the phase of a draft agrees with the
\* claims in its record (agent-draft-store.ts).
THEOREM DraftTypes == Spec => []DraftsTypeOK
<1>1. DraftsInv => DraftsTypeOK
  BY DEF DraftsInv, Typed, DraftsTypeOK
<1> QED BY <1>1, DraftsCorrect, PTL

\* However edits, commits and their retries race, what takes effect is the
\* transaction of the revision that was named: beginCommit compares it again.
THEOREM NamedIsCommitted == Spec => []CommitsNamedRevision
<1>1. DraftsInv => CommitsNamedRevision
  BY DEF DraftsInv, RoomInv, HeldInv, Taken, CommitsNamedRevision, Entry
<1> QED BY <1>1, DraftsCorrect, PTL

\* A draft its owner can edit is in nobody else's hands: restoreActive comes
\* after an error that rules an effect out, or after one that is counted.
THEOREM EditableIsPrivate == Spec => []EditableIsNotSubmitted
<1>1. ASSUME DraftsInv, NEW d \in Drafts, drafts[d] # NoDraft, drafts[d].status = "active",
             Certain(d), NEW c \in CommitsOf(d)
      PROVE  landedAt[c] = 0 /\ room.proposals[c] \in {"none", "rejected"}
  <2>1. drafts[d].committing = Nothing /\ drafts[d].proposal = Nothing
    BY <1>1 DEF DraftsInv, PhasesOK
  <2>2. c \in Commits /\ MutationOf[c] # Nothing
    BY NothingIsNone DEF CommitsOf
  <2>3. CASE Began(c)
    BY <1>1, <2>1, <2>2, <2>3, LostBefore DEF Lost, Taken
  <2>4. CASE ~Began(c)
    BY <1>1, <2>2, <2>4, UntakenUnlessBegan
  <2> QED BY <2>3, <2>4
<1>2. DraftsInv => EditableIsNotSubmitted
  BY <1>1 DEF EditableIsNotSubmitted
<1> QED BY <1>2, DraftsCorrect, PTL

\* How a draft is said to have ended is what the room made of it, though
\* removeCanonicalDraft compares neither the revision nor the mutation.
THEOREM EndingsAreTrue == Spec => []EndingIsTrue
<1>1. DraftsInv => EndingIsTrue
  BY DEF DraftsInv, EndInv, Landed, EndingIsTrue
<1> QED BY <1>1, DraftsCorrect, PTL

\* A patch that is stored finds the draft as replaceAgentCanvasDraft read it.
THEOREM PatchesKeep == Spec => PatchesKeepTheRest
<1>1. ASSUME DraftsInv, NEW e \in Patches, replace(e), drafts' # drafts
      PROVE  drafts[EditedBy[e]].content \subseteq drafts'[EditedBy[e]].content
  <2> DEFINE d == EditedBy[e]
             x == drafts[d]
             r == replacing[e]
             y == [x EXCEPT !.revision = r.named + 1, !.content = r.content,
                            !.baseline = r.baseline,
                            !.expiresAt = r.now + SlidingTtl,
                            !.hardExpiresAt = r.now + HardTtl]
  <2>1. e \in Edits /\ d \in Drafts /\ Typed
    BY <1>1, DraftsAssumption DEF DraftsInv
  <2>2. r # Nothing /\ Live(d, r.now) /\ editable(x, r.named) /\ Write(d, y)
    BY <1>1 DEF replace, storeVars
  <2>3. x # NoDraft /\ x.revision = r.named
    BY <2>2 DEF Live, editable
  <2>4. r.content = x.content \cup {e}
    BY <1>1, <2>1, <2>2, <2>3 DEF DraftsInv, EditInv
  <2>5. x \in Draft
    BY <2>1, <2>3, DraftKinds
  <2>6. y.content = r.content
    BY <2>5 DEF Draft
  <2> HIDE DEF y
  <2>7. drafts'[d] = y
    BY <2>1, <2>2 DEF Write, Typed
  <2> QED BY <2>4, <2>6, <2>7
<1>2. DraftsInv =>
        (\A e \in Patches :
           replace(e) /\ drafts' # drafts =>
             drafts[EditedBy[e]].content \subseteq drafts'[EditedBy[e]].content)
  BY <1>1
<1> QED BY <1>2, DraftsCorrect, PTL DEF PatchesKeepTheRest
=============================================================================
