---------------------------- MODULE AgentDrafts ----------------------------
(***************************************************************************)
(* The sidecar of progressive agent drafts (agent-draft-store.ts) and the  *)
(* service around it (agent-draft-service.ts): an agent stages and edits a *)
(* draft, and commits it in two phases, the second of which is the room    *)
(* store's.  The room is here what RoomLedger promises of it: a commit     *)
(* takes effect at most once per idempotency key, on the room as it is,    *)
(* and its caller may be told nothing, or too early that it failed.        *)
(*                                                                         *)
(* A transaction is the set of edits that made it up.  A store operation   *)
(* (WATCH, HGETALL, EXEC, repeated when it lost a race) is one step; a     *)
(* read that finds expired drafts sends an HDEL for them, without WATCH,   *)
(* which is a step of its own.  Byte and count limits, the short-lived     *)
(* "presenting" drafts and the draft events are left out, and a draft id   *)
(* is staged once.                                                         *)
(***************************************************************************)
EXTENDS Integers

CONSTANTS
  Drafts, Owners, OwnerOf,      \* [Drafts -> Owners]
  Edits,                        \* replace requests
  EditedBy,                     \* [Edits -> Drafts]
  Patches,                      \* the edits with updateMode "patch"
  Commits,                      \* commit requests
  DraftOf,                      \* [Commits -> Drafts]
  Mutations, MutationOf,        \* [Commits -> Mutations]: scoped key or request id
  Keyed,                        \* mutations that come with an Idempotency-Key
  Readers,                      \* authorized reads of one draft
  NoDraft, Nothing,
  SlidingTtl, HardTtl,          \* AGENT_DRAFT_SLIDING_TTL_MS, AGENT_DRAFT_HARD_TTL_MS
  MaxTime,                      \* bound on the clock
  MaxLag,                       \* bound on the age of a request's clock reading
  MaxRoomRevision               \* bound on what others do in the room

ASSUME DraftsAssumption ==
  /\ OwnerOf \in [Drafts -> Owners]
  /\ EditedBy \in [Edits -> Drafts]
  /\ Patches \subseteq Edits
  /\ DraftOf \in [Commits -> Drafts]
  /\ MutationOf \in [Commits -> Mutations]
  /\ Keyed \subseteq Mutations
  /\ \A c, e \in Commits :
       MutationOf[c] = MutationOf[e] => DraftOf[c] = DraftOf[e] /\ (c # e => MutationOf[c] \in Keyed)
  /\ Nothing \notin Mutations \cup Commits \cup Nat
  /\ SlidingTtl \in Nat \ {0} /\ HardTtl \in Nat /\ SlidingTtl <= HardTtl
  /\ MaxTime \in Nat /\ MaxLag \in Nat /\ MaxRoomRevision \in Nat

VARIABLES
  now,
  drafts,      \* [Drafts -> Draft \cup {NoDraft}]: the room's hash
  hdels,       \* drafts some reader has sent an HDEL for
  ended,       \* [Drafts -> Ending]: how a draft went
  history,     \* every transaction a draft has had, by revision
  room,        \* Room
  inflight,    \* commits whose room command may still run
  landedAt,    \* [Commits -> Nat]: the room revision that holds it, 0 for none
  proposedAt,  \* [Commits -> Nat]: createdAt of its proposal
  pc, cnow, named, held, gaveUp,     \* the commit requests
  replaced,    \* replace requests that have been answered
  replacing,   \* [Edits -> Replacement \cup {Nothing}]: those that have read
  reads        \* [Readers -> Read \cup {Nothing}]: the reads under way

roomVars == <<room, inflight, landedAt, proposedAt>>
commitVars == <<pc, cnow, named, held, gaveUp>>
editVars == <<replaced, replacing>>
storeVars == <<drafts, ended, history>>
vars == <<now, hdels, storeVars, roomVars, commitVars, editVars, reads>>

Transaction == [content : SUBSET Edits, baseline : Nat]

Draft == [status        : {"active", "committing", "awaiting_review"},
          revision      : Nat,
          content       : SUBSET Edits,
          baseline      : Nat,
          committing    : Mutations \cup {Nothing},
          startedAt     : Nat,
          evidence      : Nat \cup {Nothing},      \* authoritativeCommit
          proposal      : Commits \cup {Nothing},  \* awaitingReview
          expiresAt     : Nat,
          hardExpiresAt : Nat]

\* What is absent is not a draft.
ASSUME NoDraftAssumption == NoDraft \notin Draft

Ending == [reason : {"none", "committed", "discarded", "expired"}, fence : Nat]

\* present: drafts whose candidates are on the canvas.
Room == [revision : Nat, reviewing : BOOLEAN, present : SUBSET Drafts,
         receipts : SUBSET Keyed,
         proposals : [Commits -> {"none", "pending", "applied", "rejected"}]]

\* What a read holds: the room first, then the draft beside it.
Read == [draft : Drafts, now : Nat, revision : Nat,
         proposals : [Commits -> {"none", "pending", "applied", "rejected"}],
         found : Draft \cup {NoDraft}]

\* What a replace request writes, once the draft and the room are read.
Replacement == [now : Nat, named : Nat, content : SUBSET Edits, baseline : Nat]

NoTransaction == [content |-> {}, baseline |-> 0]

Phases == {"idle", "check", "begin", "submit", "wait", "restore",
           "review", "mark", "cleanup", "done"}

\* What the phases of a draft have in common with its other fields.
PhasesOK ==
  \A d \in Drafts : drafts[d] # NoDraft =>
    LET x == drafts[d] IN
    /\ x.status = "committing" <=> x.committing # Nothing
    /\ x.status = "awaiting_review" <=> x.proposal # Nothing
    /\ x.evidence # Nothing => x.status = "committing"
    /\ x.status # "active" => x.expiresAt = x.hardExpiresAt

DraftsTypeOK ==
  /\ PhasesOK
  /\ now \in 0 .. MaxTime
  /\ drafts \in [Drafts -> Draft \cup {NoDraft}]
  /\ hdels \subseteq Drafts
  /\ ended \in [Drafts -> Ending]
  /\ history \subseteq [draft : Drafts, revision : Nat, content : SUBSET Edits]
  /\ room \in Room
  /\ inflight \subseteq Commits
  /\ landedAt \in [Commits -> Nat] /\ proposedAt \in [Commits -> Nat]
  /\ pc \in [Commits -> Phases] /\ cnow \in [Commits -> Nat]
  /\ named \in [Mutations -> Nat] /\ held \in [Commits -> Transaction]
  /\ gaveUp \subseteq Commits
  /\ replaced \subseteq Edits
  /\ replacing \in [Edits -> Replacement \cup {Nothing}]
  /\ reads \in [Readers -> Read \cup {Nothing}]

NoRoom == [revision |-> 1, reviewing |-> FALSE, present |-> {}, receipts |-> {},
           proposals |-> [c \in Commits |-> "none"]]

Init ==
  /\ now = 0
  /\ drafts = [d \in Drafts |-> NoDraft]
  /\ hdels = {}
  /\ ended = [d \in Drafts |-> [reason |-> "none", fence |-> 0]]
  /\ history = {}
  /\ \E reviewing \in BOOLEAN : room = [NoRoom EXCEPT !.reviewing = reviewing]
  /\ inflight = {}
  /\ landedAt = [c \in Commits |-> 0] /\ proposedAt = [c \in Commits |-> 0]
  /\ pc = [c \in Commits |-> "idle"] /\ cnow = [c \in Commits |-> 0]
  /\ named = [m \in Mutations |-> 0] /\ held = [c \in Commits |-> NoTransaction]
  /\ gaveUp = {}
  /\ replaced = {}
  /\ replacing = [e \in Edits |-> Nothing]
  /\ reads = [r \in Readers |-> Nothing]

-----------------------------------------------------------------------------
\* A request reads the clock when it begins and uses that reading later.
Recent == {t \in 0 .. MaxTime : t <= now /\ now <= t + MaxLag}

Earlier(a, b) == IF a <= b THEN a ELSE b

activeUntil(x, t) == Earlier(x.hardExpiresAt, t + SlidingTtl)

isExpired(x, t) ==
  \/ x.hardExpiresAt <= t
  \/ x.status = "active" /\ x.expiresAt <= t

\* The record of d that an operation with the clock reading t works on.
Live(d, t) == drafts[d] # NoDraft /\ ~isExpired(drafts[d], t)

Write(d, x) ==
  /\ drafts' = [drafts EXCEPT ![d] = x]
  /\ history' = history \cup {[draft |-> d, revision |-> x.revision, content |-> x.content]}
  /\ UNCHANGED ended

Remove(d, reason, fence) ==
  /\ drafts' = [drafts EXCEPT ![d] = NoDraft]
  /\ ended' = [ended EXCEPT ![d] = [reason |-> reason, fence |-> fence]]
  /\ UNCHANGED history

\* What reading the hash does besides: an HDEL for what has expired.
prune(t) == hdels' = hdels \cup {d \in Drafts : drafts[d] # NoDraft /\ isExpired(drafts[d], t)}

-----------------------------------------------------------------------------
(* The owner.                                                              *)

stage(d) ==
  /\ drafts[d] = NoDraft /\ ended[d].reason = "none"
  /\ d \notin room.present
  /\ \E t \in Recent :
       /\ \A x \in Drafts : OwnerOf[x] = OwnerOf[d] => ~Live(x, t)
       /\ prune(t)
       /\ Write(d, [status |-> "active", revision |-> 1, content |-> {},
                    baseline |-> room.revision, committing |-> Nothing, startedAt |-> 0,
                    evidence |-> Nothing, proposal |-> Nothing,
                    expiresAt |-> t + SlidingTtl, hardExpiresAt |-> t + HardTtl])
  /\ UNCHANGED <<now, roomVars, commitVars, editVars, reads>>

\* A request names a revision its owner has seen.
SeenRevisions(d) == {h.revision : h \in {g \in history : g.draft = d}}

\* replaceAgentCanvasDraft up to store.replace: the patch is made on the
\* draft as it is read, whatever revision that is.
ReadForEdit(e) ==
  LET d == EditedBy[e] IN
  /\ e \notin replaced /\ replacing[e] = Nothing
  /\ \E t \in Recent, n \in SeenRevisions(d) :
       /\ prune(t)
       /\ Live(d, t) /\ d \notin room.present
       /\ replacing' = [replacing EXCEPT ![e] =
            [now |-> t, named |-> n, baseline |-> room.revision,
             content |-> IF e \in Patches THEN drafts[d].content \cup {e} ELSE {e}]]
  /\ UNCHANGED <<now, storeVars, roomVars, commitVars, replaced, reads>>

\* Faulty variant: the revision is not compared again when it is stored.
editableAsRead(x, n) == x.status = "active"

editable(x, n) == x.status = "active" /\ x.revision = n

replace(e) ==
  LET d == EditedBy[e]
      x == drafts[d]
      r == replacing[e]
  IN /\ r # Nothing
     /\ IF Live(d, r.now) /\ editable(x, r.named)
        THEN Write(d, [x EXCEPT !.revision = r.named + 1, !.content = r.content,
                                !.baseline = r.baseline,
                                !.expiresAt = r.now + SlidingTtl,
                                !.hardExpiresAt = r.now + HardTtl])
        ELSE UNCHANGED storeVars
     /\ replacing' = [replacing EXCEPT ![e] = Nothing]
     /\ replaced' = replaced \cup {e}
     /\ UNCHANGED <<now, hdels, roomVars, commitVars, reads>>

touch(d) ==
  /\ \E t \in Recent :
       /\ Live(d, t) /\ drafts[d].status = "active"
       /\ Write(d, [drafts[d] EXCEPT !.expiresAt = activeUntil(drafts[d], t)])
  /\ UNCHANGED <<now, hdels, roomVars, commitVars, editVars, reads>>

discard(d) ==
  /\ \E t \in Recent : Live(d, t)
  /\ drafts[d].status = "active"
  /\ Remove(d, "discarded", 0)
  /\ UNCHANGED <<now, hdels, roomVars, commitVars, editVars, reads>>

-----------------------------------------------------------------------------
(* commitAgentCanvasDraft.                                                 *)

\* assertMutationNotReplayed included. A retry repeats the request.
StartCommit(c) ==
  LET m == MutationOf[c] IN
  /\ pc[c] = "idle"
  /\ \E t \in Recent : cnow' = [cnow EXCEPT ![c] = t]
  /\ \E n \in SeenRevisions(DraftOf[c]) :
       /\ named[m] \in {0, n}
       /\ named' = [named EXCEPT ![m] = n]
  /\ pc' = [pc EXCEPT ![c] = IF m \in room.receipts THEN "done" ELSE "check"]
  /\ UNCHANGED <<now, hdels, storeVars, roomVars, held, gaveUp, editVars, reads>>

CheckDraft(c) ==
  LET d == DraftOf[c] IN
  /\ pc[c] = "check"
  /\ prune(cnow[c])
  /\ pc' = [pc EXCEPT ![c] = IF Live(d, cnow[c]) /\ drafts[d].revision = named[MutationOf[c]]
                             THEN "begin" ELSE "done"]
  /\ UNCHANGED <<now, storeVars, roomVars, cnow, named, held, gaveUp, editVars, reads>>

\* Faulty variant: the draft commits at whatever revision it has by now.
committableAsChecked(x, n) == x.status = "active"

committable(x, n) == x.status = "active" /\ x.revision = n

beginCommit(c) ==
  LET d == DraftOf[c]
      m == MutationOf[c]
      x == drafts[d]
      resumed == x.status = "committing" /\ x.committing = m
  IN /\ pc[c] = "begin"
     /\ IF Live(d, cnow[c]) /\ (resumed \/ committable(x, named[m]))
        THEN /\ held' = [held EXCEPT ![c] = [content |-> x.content, baseline |-> x.baseline]]
             /\ pc' = [pc EXCEPT ![c] = "submit"]
             /\ IF resumed THEN UNCHANGED storeVars
                ELSE Write(d, [x EXCEPT !.status = "committing", !.revision = @ + 1,
                                        !.committing = m, !.startedAt = cnow[c],
                                        !.evidence = Nothing,
                                        !.expiresAt = x.hardExpiresAt])
        ELSE /\ pc' = [pc EXCEPT ![c] = "done"]
             /\ UNCHANGED <<held, storeVars>>
     /\ cnow' = [cnow EXCEPT ![c] = 0]   \* not used again
     /\ UNCHANGED <<now, hdels, roomVars, named, gaveUp, editVars, reads>>

-----------------------------------------------------------------------------
(* The room, as runSemanticTransaction leaves it to the room store.        *)

replayed(c) == MutationOf[c] \in room.receipts

submit(c) ==
  /\ pc[c] = "submit"
  /\ pc' = [pc EXCEPT ![c] = "wait"]
  /\ inflight' = inflight \cup {c}
  /\ UNCHANGED <<now, hdels, storeVars, room, landedAt, proposedAt,
                 cnow, named, held, gaveUp, editVars, reads>>

\* The mutation of c commits, on the baseline its draft was staged on and
\* with the receipt of its key. Its caller may be gone.
runSemanticTransaction(c) ==
  /\ c \in inflight
  /\ ~replayed(c)
  /\ room.revision = held[c].baseline
  /\ IF room.reviewing
     THEN /\ room' = [room EXCEPT !.revision = @ + 1,
                                  !.receipts = @ \cup ({MutationOf[c]} \cap Keyed),
                                  !.proposals[c] = "pending"]
          /\ proposedAt' = [proposedAt EXCEPT ![c] = now]
          /\ UNCHANGED landedAt
     ELSE /\ DraftOf[c] \notin room.present
          /\ room' = [room EXCEPT !.revision = @ + 1,
                                  !.receipts = @ \cup ({MutationOf[c]} \cap Keyed),
                                  !.present = @ \cup {DraftOf[c]}]
          /\ landedAt' = [landedAt EXCEPT ![c] = room'.revision]
          /\ UNCHANGED proposedAt
  /\ inflight' = inflight \ {c}
  /\ pc' = IF pc[c] = "wait"
           THEN [pc EXCEPT ![c] = IF room.reviewing THEN "review" ELSE "mark"] ELSE pc
  /\ UNCHANGED <<now, hdels, storeVars, cnow, named, held, gaveUp, editVars, reads>>

\* MUTATION_OUTCOME_UNKNOWN, a replay included: the draft stays as it is.
LoseOutcome(c) ==
  /\ pc[c] \in {"wait", "review", "mark"}
  /\ pc' = [pc EXCEPT ![c] = "done"]
  /\ UNCHANGED <<now, hdels, storeVars, roomVars, cnow, named, held, gaveUp, editVars, reads>>

\* The room has moved on: the transaction can no longer take effect.
RejectCommit(c) ==
  /\ pc[c] = "wait" /\ c \in inflight /\ ~replayed(c)
  /\ \/ room.revision # held[c].baseline
     \/ ~room.reviewing /\ DraftOf[c] \in room.present
  /\ inflight' = inflight \ {c}
  /\ pc' = [pc EXCEPT ![c] = "restore"]
  /\ UNCHANGED <<now, hdels, storeVars, room, landedAt, proposedAt,
                 cnow, named, held, gaveUp, editVars, reads>>

\* An error that names no outcome: the attempts are used up, or the EXEC of
\* a proposal raised and no receipt is there to see (yet).
GiveUpCommit(c) ==
  /\ \/ pc[c] = "wait" /\ ~replayed(c)
     \/ pc[c] = "review" /\ MutationOf[c] \notin Keyed
  /\ gaveUp' = gaveUp \cup {c}
  /\ pc' = [pc EXCEPT ![c] = "restore"]
  /\ UNCHANGED <<now, hdels, storeVars, roomVars, cnow, named, held, editVars, reads>>

DropCommit(c) ==
  /\ c \in inflight /\ pc[c] # "wait"
  /\ inflight' = inflight \ {c}
  /\ UNCHANGED <<now, hdels, storeVars, room, landedAt, proposedAt,
                 commitVars, editVars, reads>>

-----------------------------------------------------------------------------
(* Settling a commit. Date.now() is read again for each of these.          *)

holds(c) ==
  /\ Live(DraftOf[c], now)
  /\ drafts[DraftOf[c]].status = "committing"
  /\ drafts[DraftOf[c]].committing = MutationOf[c]

\* Faulty variant: whatever went wrong, the owner gets the draft back.
restoreAnyway(c) ==
  LET x == drafts[DraftOf[c]] IN
  /\ pc[c] \in {"restore", "review", "mark"}
  /\ IF holds(c)
     THEN Write(DraftOf[c], [x EXCEPT !.status = "active", !.revision = @ + 1,
                                      !.committing = Nothing, !.evidence = Nothing,
                                      !.expiresAt = activeUntil(x, now)])
     ELSE UNCHANGED storeVars
  /\ pc' = [pc EXCEPT ![c] = "done"]
  /\ UNCHANGED <<now, hdels, roomVars, cnow, named, held, gaveUp, editVars, reads>>

restoreActive(c) ==
  LET x == drafts[DraftOf[c]] IN
  /\ pc[c] = "restore"
  /\ IF holds(c)
     THEN Write(DraftOf[c], [x EXCEPT !.status = "active", !.revision = @ + 1,
                                      !.committing = Nothing, !.evidence = Nothing,
                                      !.expiresAt = activeUntil(x, now)])
     ELSE UNCHANGED storeVars
  /\ pc' = [pc EXCEPT ![c] = "done"]
  /\ UNCHANGED <<now, hdels, roomVars, cnow, named, held, gaveUp, editVars, reads>>

\* Faulty variant: the draft still counts as committing.
awaitingBoth(x, c) ==
  [x EXCEPT !.status = "awaiting_review", !.revision = @ + 1,
            !.proposal = c, !.expiresAt = x.hardExpiresAt]

awaitingReview(x, c) ==
  [x EXCEPT !.status = "awaiting_review", !.revision = @ + 1,
            !.committing = Nothing, !.proposal = c, !.expiresAt = x.hardExpiresAt]

markAwaitingReview(c) ==
  /\ pc[c] = "review"
  /\ IF holds(c) THEN Write(DraftOf[c], awaitingReview(drafts[DraftOf[c]], c))
     ELSE UNCHANGED storeVars
  /\ pc' = [pc EXCEPT ![c] = "done"]
  /\ UNCHANGED <<now, hdels, roomVars, cnow, named, held, gaveUp, editVars, reads>>

\* The evidence is private: the revision stays.
markAuthoritativelyCommitted(c) ==
  LET d == DraftOf[c] IN
  /\ pc[c] = "mark"
  /\ IF holds(c)
     THEN /\ drafts' = [drafts EXCEPT ![d].evidence = landedAt[c]]
          /\ pc' = [pc EXCEPT ![c] = "cleanup"]
     ELSE /\ pc' = [pc EXCEPT ![c] = "done"]
          /\ UNCHANGED drafts
  /\ UNCHANGED <<now, hdels, ended, history, roomVars,
                 cnow, named, held, gaveUp, editVars, reads>>

RemoveCommitted(c) ==
  /\ pc[c] = "cleanup"
  /\ IF holds(c) THEN Remove(DraftOf[c], "committed", landedAt[c]) ELSE UNCHANGED storeVars
  /\ pc' = [pc EXCEPT ![c] = "done"]
  /\ UNCHANGED <<now, hdels, roomVars, cnow, named, held, gaveUp, editVars, reads>>

\* The server stops, or the draft store fails for good: what is written
\* stays ("cleanup_pending").
Abandon(c) ==
  /\ pc[c] \notin {"idle", "wait", "done"}
  /\ pc' = [pc EXCEPT ![c] = "done"]
  /\ UNCHANGED <<now, hdels, storeVars, roomVars, cnow, named, held, gaveUp, editVars, reads>>

-----------------------------------------------------------------------------
(* reconcileAgentCanvasDrafts: a read of the room, then of the draft, then *)
(* what the two say about a commit nobody settled.                         *)

ReadRoomFirst(r) ==
  /\ reads[r] = Nothing
  /\ \E d \in Drafts, t \in Recent :
       reads' = [reads EXCEPT ![r] = [draft |-> d, now |-> t, revision |-> room.revision,
                                  proposals |-> room.proposals, found |-> NoDraft]]
  /\ UNCHANGED <<now, hdels, storeVars, roomVars, commitVars, editVars>>

\* An active draft is shown as it is.
ReadDraft(r) ==
  /\ reads[r] # Nothing /\ reads[r].found = NoDraft
  /\ prune(reads[r].now)
  /\ reads' = [reads EXCEPT ![r] =
                  IF Live(@.draft, @.now) /\ drafts[@.draft].status # "active"
                  THEN [@ EXCEPT !.found = drafts[reads[r].draft]] ELSE Nothing]
  /\ UNCHANGED <<now, storeVars, roomVars, commitVars, editVars>>

\* A proposal the room holds for the draft that was read: the linked one, or
\* its author's, of the same transaction on the same baseline.
candidate(c, read) ==
  /\ read.proposals[c] # "none"
  /\ IF read.found.proposal # Nothing THEN c = read.found.proposal
     ELSE /\ read.found.status = "committing"
          /\ DraftOf[c] = read.draft
          /\ held[c] = [content |-> read.found.content, baseline |-> read.found.baseline]
          /\ proposedAt[c] >= read.found.startedAt

\* Faulty variant: only a linked proposal is looked up.
linkedProposal(c, read) == c = read.found.proposal

\* The oldest of them: the room keeps its proposals newest first, and they
\* are searched from the end.
matchingProposal(c, read) ==
  candidate(c, read) /\ \A e \in Commits : candidate(e, read) => proposedAt[c] <= proposedAt[e]

\* It names neither the revision nor the mutation that was read.
removeCanonicalDraft(read, reason, fence) ==
  IF Live(read.draft, read.now) THEN Remove(read.draft, reason, fence) ELSE UNCHANGED storeVars

\* Faulty variant: a decided proposal has been applied.
decidedIsApplied(c, read) == read.proposals[c] \in {"applied", "rejected"}

isApplied(c, read) == read.proposals[c] = "applied"

RemoveDecided(r) ==
  LET read == reads[r] IN
  /\ read # Nothing /\ read.found # NoDraft
  /\ \/ /\ read.found.evidence # Nothing
        /\ removeCanonicalDraft(read, "committed", read.found.evidence)
     \/ /\ read.found.evidence = Nothing
        /\ \E c \in Commits :
             /\ matchingProposal(c, read) /\ read.proposals[c] \in {"applied", "rejected"}
             /\ IF isApplied(c, read) THEN removeCanonicalDraft(read, "committed", read.revision)
                ELSE removeCanonicalDraft(read, "discarded", 0)
  /\ reads' = [reads EXCEPT ![r] = Nothing]
  /\ UNCHANGED <<now, hdels, roomVars, commitVars, editVars>>

HealReview(r) ==
  LET read == reads[r] IN
  /\ read # Nothing /\ read.found # NoDraft
  /\ read.found.status = "committing" /\ read.found.evidence = Nothing
  /\ \E c \in Commits :
       /\ matchingProposal(c, read) /\ read.proposals[c] = "pending"
       /\ IF Live(read.draft, read.now) /\ drafts[read.draft].status = "committing"
             /\ drafts[read.draft].committing = read.found.committing
          THEN Write(read.draft, awaitingReview(drafts[read.draft], c))
          ELSE UNCHANGED storeVars
  /\ reads' = [reads EXCEPT ![r] = Nothing]
  /\ UNCHANGED <<now, hdels, roomVars, commitVars, editVars>>

\* Nothing to do, or the store failed: the next read tries again.
LeaveDraft(r) ==
  /\ reads[r] # Nothing /\ reads[r].found # NoDraft
  /\ reads' = [reads EXCEPT ![r] = Nothing]
  /\ UNCHANGED <<now, hdels, storeVars, roomVars, commitVars, editVars>>

-----------------------------------------------------------------------------
(* Redis and the clock.                                                    *)

\* The HDEL of a read names the draft, whatever it has become since.
HDel(d) ==
  /\ d \in hdels
  /\ hdels' = hdels \ {d}
  /\ IF drafts[d] # NoDraft THEN Remove(d, "expired", 0) ELSE UNCHANGED storeVars
  /\ UNCHANGED <<now, roomVars, commitVars, editVars, reads>>

\* The EXEC of an operation on another draft, or the TTL of the hash.
Expire(d) ==
  /\ drafts[d] # NoDraft /\ isExpired(drafts[d], now)
  /\ Remove(d, "expired", 0)
  /\ UNCHANGED <<now, hdels, roomVars, commitVars, editVars, reads>>

Tick ==
  /\ now < MaxTime
  /\ now' = now + 1
  /\ UNCHANGED <<hdels, storeVars, roomVars, commitVars, editVars, reads>>

-----------------------------------------------------------------------------
(* What others do in the room.                                             *)

OthersMay(change) ==
  /\ room' = [change EXCEPT !.revision = @ + 1]
  /\ UNCHANGED <<now, hdels, storeVars, inflight, proposedAt, commitVars, editVars, reads>>

approve(c) ==
  /\ room.proposals[c] = "pending" /\ DraftOf[c] \notin room.present
  /\ OthersMay([room EXCEPT !.proposals[c] = "applied", !.present = @ \cup {DraftOf[c]}])
  /\ landedAt' = [landedAt EXCEPT ![c] = room'.revision]

reject(c) ==
  /\ room.proposals[c] = "pending"
  /\ OthersMay([room EXCEPT !.proposals[c] = "rejected"])
  /\ UNCHANGED landedAt

editRoom ==
  /\ room.revision < MaxRoomRevision
  /\ \/ OthersMay(room)
     \/ OthersMay([room EXCEPT !.reviewing = ~@])
     \/ \E d \in room.present : OthersMay([room EXCEPT !.present = @ \ {d}])
  /\ UNCHANGED landedAt

-----------------------------------------------------------------------------
CommitStep(c) ==
  \/ StartCommit(c) \/ CheckDraft(c) \/ beginCommit(c) \/ submit(c)
  \/ runSemanticTransaction(c) \/ RejectCommit(c) \/ restoreActive(c)
  \/ markAwaitingReview(c) \/ markAuthoritativelyCommitted(c) \/ RemoveCommitted(c)

Settle(r) == RemoveDecided(r) \/ HealReview(r)

Next ==
  \/ \E d \in Drafts : stage(d) \/ touch(d) \/ discard(d) \/ HDel(d) \/ Expire(d)
  \/ \E e \in Edits : ReadForEdit(e) \/ replace(e)
  \/ \E c \in Commits :
       \/ CommitStep(c) \/ LoseOutcome(c) \/ GiveUpCommit(c) \/ DropCommit(c) \/ Abandon(c)
       \/ approve(c) \/ reject(c)
  \/ \E r \in Readers : ReadRoomFirst(r) \/ ReadDraft(r) \/ Settle(r) \/ LeaveDraft(r)
  \/ editRoom
  \/ Tick

Spec == Init /\ [][Next]_vars

\* Members keep reading drafts, and the draft store does not fail every one
\* of those reads. Time passes, and Redis drops what has expired.
Fairness ==
  /\ \A r \in Readers : WF_vars(ReadRoomFirst(r)) /\ WF_vars(ReadDraft(r))
                        /\ WF_vars(LeaveDraft(r)) /\ SF_vars(Settle(r))
  /\ WF_vars(Tick)
  /\ \A d \in Drafts : WF_vars(Expire(d))

FairSpec == Spec /\ Fairness

-----------------------------------------------------------------------------
(* Properties.                                                             *)

CommitsOf(d) == {c \in Commits : DraftOf[c] = d}

\* No commit of d, nor a retry of it, ended with an error that names no
\* outcome.
Certain(d) == CommitsOf(d) \cap gaveUp = {}

\* What takes effect in the room is the transaction the draft had at the
\* revision its owner named, though edits and retries race the commit.
CommitsNamedRevision ==
  \A c \in Commits : landedAt[c] # 0 \/ room.proposals[c] # "none" =>
    [draft |-> DraftOf[c], revision |-> named[MutationOf[c]], content |-> held[c].content]
      \in history

\* An editable draft is not in the room and not in the review queue: its
\* owner cannot discard, or submit again, what collaborators already have.
EditableIsNotSubmitted ==
  \A d \in Drafts :
    drafts[d] # NoDraft /\ drafts[d].status = "active" /\ Certain(d) =>
      \A c \in CommitsOf(d) :
        landedAt[c] = 0 /\ room.proposals[c] \in {"none", "rejected"}

\* Viewers drop a draft's ghost as what its removal says: "committed" when
\* the room holds it, and no later than the fence they are given;
\* "discarded" when no commit of it took effect.
EndingIsTrue ==
  \A d \in Drafts :
    /\ ended[d].reason = "committed" =>
         /\ ended[d].fence <= room.revision
         /\ \E c \in CommitsOf(d) : landedAt[c] \in 1 .. ended[d].fence
    /\ ended[d].reason = "discarded" /\ Certain(d) =>
         \A c \in CommitsOf(d) : landedAt[c] = 0

\* A patch changes the revision of the draft it names and nothing else: no
\* patch that was accepted before is lost.
PatchesKeepTheRest ==
  [][\A e \in Patches :
       replace(e) /\ drafts' # drafts =>
         drafts[EditedBy[e]].content \subseteq drafts'[EditedBy[e]].content]_vars

Decided(d) ==
  /\ drafts[d] # NoDraft /\ drafts[d].status # "active"
  /\ \/ drafts[d].evidence # Nothing
     \/ \E c \in CommitsOf(d) : /\ drafts[d].committing = MutationOf[c] \/ drafts[d].proposal = c
                                /\ room.proposals[c] \in {"applied", "rejected"}

\* A draft whose commit is decided does not stay for want of somebody to
\* clean up: a later read ends it.
DecidedDraftsEnd == \A d \in Drafts : Decided(d) ~> ~Decided(d)

\* PRODUCT-SPEC.md:165 "A committing or awaiting-review draft remains
\* readable until it settles or reaches that hard limit".
CommittingDraftsStay ==
  [][\A d \in Drafts :
       /\ drafts[d] # NoDraft /\ drafts'[d] = NoDraft
       /\ drafts[d].status # "active" /\ drafts[d].hardExpiresAt > now
       => ended'[d].reason # "expired"]_vars

\* PRODUCT-SPEC.md:204 "a pending-review ghost cannot be independently
\* discarded by its agent while the durable proposal still exists".
ReviewedDraftsStay ==
  [][\A d \in Drafts :
       discard(d) => \A c \in CommitsOf(d) : room.proposals[c] # "pending"]_vars
=============================================================================
