-------------------------- MODULE RoomLedgerProofs --------------------------
(***************************************************************************)
(* Lemmas on the functions of RoomPlanes, RoomUpdates and RoomLedger: they *)
(* stay within the types of the planes, and every one of them keeps the    *)
(* fence and moves the revisions the way its callers rely on.              *)
(***************************************************************************)
EXTENDS RoomLedger, TLAPS

LEMMA LiveAwarenessType ==
  ASSUME NEW aw \in Awareness, NEW t \in Nat
  PROVE  liveAwareness(aw, t) \in Awareness
<1>1. connectedAt(aw, t) \in [Members -> BOOLEAN]
  BY PlanesAssumption DEF connectedAt, Awareness
<1>2. {m \in aw.followers : connectedAt(aw, t)[m]} \in SUBSET Members
  BY DEF Awareness
<1>. QED
  BY <1>1, <1>2 DEF Awareness, liveAwareness

LEMMA LiveLeasesType ==
  ASSUME NEW leases \in Leases, NEW t \in Nat
  PROVE  liveLeases(leases, t) \in Leases
BY DEF Leases, liveLeases, NoLease

LEMMA ComposeType ==
  ASSUME NEW p \in Planes
  PROVE  composeRoomState(p) \in RoomState
BY DEF Planes, Document, Coordination, composeRoomState, RoomState, Max2

LEMMA SplitType ==
  ASSUME NEW room \in RoomState
  PROVE  splitRoomState(room) \in Planes
BY DEF Planes, Document, Coordination, splitRoomState, RoomState

LEMMA ReconcileType ==
  ASSUME NEW p \in Planes, NEW t \in Nat
  PROVE  reconcileDerivedState(p, t) \in Planes
<1>1. /\ p.document \in Document
      /\ p.awareness \in Awareness
      /\ p.coordination \in Coordination
  BY DEF Planes
<1>2. liveAwareness(p.awareness, t) \in Awareness
  BY <1>1, LiveAwarenessType
<1>3. liveLeases(p.coordination.leases, t) \in Leases
  BY <1>1, LiveLeasesType DEF Coordination
<1>4. Max2(Max2(p.coordination.stateRevision, Max2(p.document.roomRevision, p.coordination.roomRevision)), 0) \in Nat
  BY <1>1 DEF Document, Coordination, Max2
<1>. QED
  BY <1>1, <1>2, <1>3 DEF reconcileDerivedState, Planes, Coordination, Document, Max2

LEMMA HeartbeatType ==
  ASSUME NEW aw \in Awareness, NEW m \in Members, NEW t \in Nat
  PROVE  heartbeat(aw, m, t) \in Awareness
BY DEF Awareness, heartbeat

LEMMA SeenAfterType ==
  ASSUME NEW p \in Planes, NEW m \in Members, NEW t \in Nat
  PROVE  seenAfter(p, m, t) \subseteq Nat
<1>1. p.awareness.lastSeenAt[m] \in Nat
  BY DEF Planes, Awareness
<1>. QED
  BY <1>1 DEF seenAfter, Max2

LEMMA PresenceType ==
  ASSUME NEW p \in Planes, NEW m \in Members, NEW t \in Nat, NEW seen \in Nat
  PROVE  presenceCommit(p, m, seen, t) \in Planes
<1>1. /\ p.document \in Document
      /\ p.awareness \in Awareness
      /\ p.coordination \in Coordination
  BY DEF Planes
<1>2. liveAwareness(heartbeat(p.awareness, m, seen), t) \in Awareness
  BY <1>1, HeartbeatType, LiveAwarenessType
<1>3. liveLeases(p.coordination.leases, t) \in Leases
  BY <1>1, LiveLeasesType DEF Coordination
<1>. QED
  BY <1>1, <1>2, <1>3 DEF presenceCommit, Planes, Coordination, Max2

LEMMA NormalizeType ==
  ASSUME NEW p \in Planes, NEW room \in RoomState
  PROVE  normalizeMutationRevisions(p, room) \in Planes
<1>1. composeRoomState(p) \in RoomState
  BY ComposeType
<1>. QED
  BY <1>1, SplitType DEF normalizeMutationRevisions, RoomState, splitRoomState, Planes,
     Document, Coordination, Max2

LEMMA WritePlanesType ==
  ASSUME NEW current \in Planes, NEW expected \in Planes, NEW next \in Planes
  PROVE  writePlanes(current, expected, next) \in Planes
BY DEF writePlanes, Planes

-----------------------------------------------------------------------------
(* The updaters.                                                           *)

\* What every updater does to the revisions and to the document: at most one
\* document revision, never more of them than of aggregate revisions left.
LEMMA UpdateType ==
  ASSUME NEW c \in Calls, NEW room \in RoomState, NEW t \in Nat
  PROVE  Update(c, room, t) \in UpdateResult
<1>1. ActorOf[c] \in Members /\ TargetOf[c] \in Objects /\ Op[c] \in Ops
  BY UpdatesAssumption
<1>2. heartbeat(room.awareness, ActorOf[c], t) \in Awareness
  BY <1>1, HeartbeatType DEF RoomState
<1>. room.roomRevision + 1 \in Nat /\ room.stateRevision + 1 \in Nat
  BY DEF RoomState
<1>3. applyEdit(c, room) \in RoomState
  <2>1. [room.content EXCEPT !.edits[c] = @ + 1] \in Contents
    BY DEF RoomState, Contents
  <2>. QED
    BY <2>1 DEF applyEdit, RoomState
<1>4. queueAgentEdit(c, room, t) \in RoomState
  <2>1. [room.content EXCEPT !.proposals[c] = @ + 1] \in Contents
    BY DEF RoomState, Contents
  <2>. QED
    BY <1>2, <2>1 DEF queueAgentEdit, markAgentActive, RoomState
<1>5. enableReview(room) \in RoomState
  <2>1. [room.content EXCEPT !.reviewing = TRUE] \in Contents
    BY DEF RoomState, Contents
  <2>. QED
    BY <2>1 DEF enableReview, RoomState
<1>6. acquireLease(c, room, t) \in RoomState
  <2>1. [room.leases EXCEPT ![TargetOf[c]] = [holder |-> ActorOf[c], expiresAt |-> t + LeaseMs]]
          \in Leases
    BY <1>1, UpdatesAssumption DEF RoomState, Leases
  <2>. QED
    BY <2>1 DEF acquireLease, RoomState
<1>7. startSpotlight(c, room) \in RoomState
  <2>1. [room.awareness EXCEPT !.presenter = ActorOf[c], !.followers = {ActorOf[c]}] \in Awareness
    BY <1>1 DEF RoomState, Awareness
  <2>. QED
    BY <2>1 DEF startSpotlight, RoomState
<1>8. [applyEdit(c, room) EXCEPT !.awareness = markAgentActive(@, c, t)] \in RoomState
  BY <1>1, <1>3, HeartbeatType DEF RoomState, markAgentActive
<1>9. runCanvasCommand(c, room, t) \in UpdateResult
  BY <1>3, <1>4, <1>8 DEF runCanvasCommand, Updated, UpdateResult
<1>10. setAgentEditPolicy(room) \in UpdateResult
  BY <1>5 DEF setAgentEditPolicy, Updated, UpdateResult
<1>11. runLeaseAction(c, room, t) \in UpdateResult
  BY <1>6 DEF runLeaseAction, Updated, Rejected, UpdateResult
<1>12. updateSpotlight(c, room) \in UpdateResult
  BY <1>7 DEF updateSpotlight, Updated, Rejected, UpdateResult
<1>. QED
  BY <1>1, <1>9, <1>10, <1>11, <1>12 DEF Update, Ops

LEMMA UpdateRevisions ==
  ASSUME NEW c \in Calls, NEW room \in RoomState, NEW t \in Nat
  PROVE  LET after == Update(c, room, t).room
         IN /\ after.roomRevision \in {room.roomRevision, room.roomRevision + 1}
            /\ after.stateRevision \in {room.stateRevision, room.stateRevision + 1}
<1>. DEFINE Steps(after) ==
              /\ after.roomRevision \in {room.roomRevision, room.roomRevision + 1}
              /\ after.stateRevision \in {room.stateRevision, room.stateRevision + 1}
<1>1. Steps(applyEdit(c, room)) /\ Steps(queueAgentEdit(c, room, t)) /\ Steps(enableReview(room))
  BY DEF applyEdit, queueAgentEdit, enableReview, RoomState
<1>2. Steps(acquireLease(c, room, t)) /\ Steps(startSpotlight(c, room)) /\ Steps(room)
  BY DEF acquireLease, startSpotlight, RoomState
<1>3. Steps([applyEdit(c, room) EXCEPT !.awareness = markAgentActive(@, c, t)])
  BY DEF applyEdit, RoomState
<1>4. Steps(runCanvasCommand(c, room, t).room)
  BY <1>1, <1>3 DEF runCanvasCommand, Updated
<1>5. Steps(setAgentEditPolicy(room).room)
  BY <1>1 DEF setAgentEditPolicy, Updated
<1>6. Steps(runLeaseAction(c, room, t).room)
  BY <1>2 DEF runLeaseAction, Updated, Rejected
<1>7. Steps(updateSpotlight(c, room).room)
  BY <1>2 DEF updateSpotlight, Updated, Rejected
<1>. QED
  BY <1>4, <1>5, <1>6, <1>7, UpdatesAssumption DEF Update, Ops

Landed(content, d) == content.edits[d] + content.proposals[d]

IsEdit(c) == Op[c] \in {"edit", "agent_edit"}

\* A canvas edit is in the document once more, as an edit or as a proposal;
\* no updater touches the edit of another call.
LEMMA UpdateContent ==
  ASSUME NEW c \in Calls, NEW room \in RoomState, NEW t \in Nat, NEW d \in Calls
  PROVE  LET after == Update(c, room, t).room.content
         IN Landed(after, d) = Landed(room.content, d) + (IF d = c /\ IsEdit(c) THEN 1 ELSE 0)
<1>. DEFINE before == room.content
            Adds(after, n) == Landed(after, d) = Landed(before, d) + n
            one == IF d = c THEN 1 ELSE 0
<1>. /\ before \in Contents
     /\ before.edits \in [Calls -> Nat] /\ before.proposals \in [Calls -> Nat]
     /\ before.edits[d] \in Nat /\ before.proposals[d] \in Nat
  BY DEF RoomState, Contents
<1>1. Adds(applyEdit(c, room).content, one)
  <2>1. applyEdit(c, room).content = [before EXCEPT !.edits[c] = @ + 1]
    BY DEF applyEdit, RoomState
  <2>2. /\ [before EXCEPT !.edits[c] = @ + 1].edits = [before.edits EXCEPT ![c] = @ + 1]
        /\ [before EXCEPT !.edits[c] = @ + 1].proposals = before.proposals
    BY DEF Contents
  <2>3. [before.edits EXCEPT ![c] = @ + 1][d] = before.edits[d] + one
    OBVIOUS
  <2>. QED
    BY <2>1, <2>2, <2>3 DEF Landed
<1>2. Adds(queueAgentEdit(c, room, t).content, one)
  <2>1. queueAgentEdit(c, room, t).content = [before EXCEPT !.proposals[c] = @ + 1]
    BY DEF queueAgentEdit, RoomState
  <2>2. /\ [before EXCEPT !.proposals[c] = @ + 1].proposals = [before.proposals EXCEPT ![c] = @ + 1]
        /\ [before EXCEPT !.proposals[c] = @ + 1].edits = before.edits
    BY DEF Contents
  <2>3. [before.proposals EXCEPT ![c] = @ + 1][d] = before.proposals[d] + one
    OBVIOUS
  <2>. QED
    BY <2>1, <2>2, <2>3 DEF Landed
<1>3. Adds(enableReview(room).content, 0)
  BY DEF enableReview, RoomState, Contents, Landed
<1>4. /\ acquireLease(c, room, t).content = before
      /\ startSpotlight(c, room).content = before
  BY DEF acquireLease, startSpotlight, RoomState
<1>5. [applyEdit(c, room) EXCEPT !.awareness = markAgentActive(@, c, t)].content
        = applyEdit(c, room).content
  BY DEF applyEdit, RoomState
<1>6. Adds(runCanvasCommand(c, room, t).room.content, one)
  BY <1>1, <1>2, <1>5 DEF runCanvasCommand, Updated
<1>7. Adds(setAgentEditPolicy(room).room.content, 0)
  BY <1>3 DEF setAgentEditPolicy, Updated
<1>8. /\ runLeaseAction(c, room, t).room.content = before
      /\ updateSpotlight(c, room).room.content = before
  BY <1>4 DEF runLeaseAction, updateSpotlight, Updated, Rejected
<1>9. Adds(before, 0)
  BY DEF Landed
<1>. QED
  BY <1>6, <1>7, <1>8, <1>9, UpdatesAssumption DEF Update, Ops, IsEdit

-----------------------------------------------------------------------------
(* Revisions.                                                              *)

\* The property HotPathReady of any planes.
InOrder(p) ==
  /\ p.coordination.roomRevision = p.document.roomRevision
  /\ p.coordination.stateRevision >= p.coordination.roomRevision

\* q is p or a later room.
Later(p, q) ==
  /\ q # p => q.coordination.stateRevision > p.coordination.stateRevision
  /\ q.document # p.document => q.document.roomRevision > p.document.roomRevision

\* The projections of planes.
LEMMA PlanesParts ==
  ASSUME NEW p \in Planes
  PROVE  /\ p.document \in Document /\ p.awareness \in Awareness
         /\ p.coordination \in Coordination
         /\ p.document.roomRevision \in Nat /\ p.document.content \in Contents
         /\ p.coordination.stateRevision \in Nat /\ p.coordination.roomRevision \in Nat
         /\ p.coordination.leases \in Leases
         /\ p.document = [roomRevision |-> p.document.roomRevision,
                          content |-> p.document.content]
         /\ p.coordination = [stateRevision |-> p.coordination.stateRevision,
                              roomRevision |-> p.coordination.roomRevision,
                              leases |-> p.coordination.leases]
         /\ p = [document |-> p.document, awareness |-> p.awareness,
                 coordination |-> p.coordination]
BY DEF Planes, Document, Coordination

LEMMA ReconcileLater ==
  ASSUME NEW p \in Planes, NEW t \in Nat, InOrder(p)
  PROVE  LET q == reconcileDerivedState(p, t)
         IN InOrder(q) /\ Later(p, q) /\ q.document = p.document
<1>. /\ p.document.roomRevision \in Nat
     /\ p.coordination.stateRevision \in Nat /\ p.coordination.roomRevision \in Nat
     /\ p.coordination.roomRevision = p.document.roomRevision
     /\ p.coordination.stateRevision >= p.coordination.roomRevision
  BY PlanesParts DEF InOrder
<1>1. CASE isLive(p, t)
  BY <1>1 DEF reconcileDerivedState, Later
<1>2. CASE ~isLive(p, t)
  <2>. DEFINE q == reconcileDerivedState(p, t)
  <2>1. /\ q.document = p.document
        /\ q.coordination.roomRevision = Max2(p.document.roomRevision, p.coordination.roomRevision)
        /\ q.coordination.stateRevision =
             Max2(p.coordination.stateRevision,
                  Max2(p.document.roomRevision, p.coordination.roomRevision)) + 1
    BY <1>2 DEF reconcileDerivedState
  <2>. HIDE DEF q
  <2>2. InOrder(q) /\ Later(p, q)
    BY <2>1, PlanesParts DEF InOrder, Later, Max2
  <2>. QED
    BY <2>1, <2>2 DEF q
<1>. QED
  BY <1>1, <1>2

LEMMA PresenceLater ==
  ASSUME NEW p \in Planes, NEW m \in Members, NEW seen \in Nat, NEW t \in Nat, InOrder(p)
  PROVE  LET q == presenceCommit(p, m, seen, t)
         IN InOrder(q) /\ Later(p, q) /\ q.document = p.document
<1>. DEFINE q == presenceCommit(p, m, seen, t)
            base == Max2(p.coordination.stateRevision, p.coordination.roomRevision)
<1>. /\ p.document.roomRevision \in Nat
     /\ p.coordination.stateRevision \in Nat /\ p.coordination.roomRevision \in Nat
     /\ p.coordination.roomRevision = p.document.roomRevision
     /\ p.coordination.stateRevision >= p.coordination.roomRevision
  BY PlanesParts DEF InOrder
<1>1. /\ q.document = p.document
      /\ q.coordination.roomRevision = p.coordination.roomRevision
      /\ q.coordination.stateRevision \in {base + 1, base + 2}
  BY DEF presenceCommit
<1>. HIDE DEF q
<1>2. InOrder(q) /\ Later(p, q)
  BY <1>1, PlanesParts DEF InOrder, Later, Max2
<1>. QED
  BY <1>1, <1>2 DEF q

\* Commits write what the updater returned, under revisions of their own.
LEMMA NormalizeContent ==
  ASSUME NEW p \in Planes, NEW room \in RoomState, InOrder(p)
  PROVE  LET q == normalizeMutationRevisions(p, room)
         IN /\ q.document.content = room.content
            /\ q.awareness = room.awareness
            /\ q.coordination.leases = room.leases
BY DEF normalizeMutationRevisions, splitRoomState, RoomState

\* The updater may leave the aggregate revision behind by one, as long as it
\* has not left the persisted one behind.
LEMMA NormalizeLater ==
  ASSUME NEW p \in Planes, NEW room \in RoomState, InOrder(p),
         room.roomRevision <= p.document.roomRevision + 1
  PROVE  LET q == normalizeMutationRevisions(p, room)
         IN InOrder(q) /\ Later(p, q) /\ (sameContent(p, q) => q = p)
<1>. DEFINE old == composeRoomState(p)
            q == normalizeMutationRevisions(p, room)
            newDocument == room.content # p.document.content
            moved == newDocument \/ room.awareness # p.awareness
                       \/ room.leases # p.coordination.leases
<1>. /\ p.document.roomRevision \in Nat
     /\ p.coordination.stateRevision \in Nat /\ p.coordination.roomRevision \in Nat
     /\ p.coordination.roomRevision = p.document.roomRevision
     /\ p.coordination.stateRevision >= p.coordination.roomRevision
  BY PlanesParts DEF InOrder
<1>1. /\ old.stateRevision = p.coordination.stateRevision
      /\ old.roomRevision = p.document.roomRevision
      /\ old.content = p.document.content
      /\ old.awareness = p.awareness /\ old.leases = p.coordination.leases
  BY PlanesParts DEF composeRoomState, InOrder, Max2
<1>2. /\ q.document = [roomRevision |-> IF newDocument
                                         THEN Max2(p.document.roomRevision + 1, room.roomRevision)
                                         ELSE p.document.roomRevision,
                       content |-> room.content]
      /\ q.awareness = room.awareness
      /\ q.coordination = [stateRevision |-> IF moved
                              THEN Max2(p.coordination.stateRevision + 1, room.stateRevision)
                              ELSE p.coordination.stateRevision,
                           roomRevision |-> q.document.roomRevision,
                           leases |-> room.leases]
      /\ q = [document |-> q.document, awareness |-> q.awareness,
              coordination |-> q.coordination]
  BY <1>1 DEF normalizeMutationRevisions, splitRoomState, RoomState
<1>. room.roomRevision \in Nat /\ room.stateRevision \in Nat
  BY DEF RoomState
<1>. HIDE DEF old, q
<1>3. InOrder(q)
  <2>1. /\ q.coordination.roomRevision = q.document.roomRevision
        /\ q.document.roomRevision = IF newDocument
                                     THEN Max2(p.document.roomRevision + 1, room.roomRevision)
                                     ELSE p.document.roomRevision
        /\ q.coordination.stateRevision = IF moved
                                          THEN Max2(p.coordination.stateRevision + 1, room.stateRevision)
                                          ELSE p.coordination.stateRevision
    BY <1>2
  <2>. QED
    BY <2>1, PlanesParts DEF InOrder, Max2
<1>4. ~newDocument => q.document = p.document
  BY <1>2, PlanesParts
<1>5. ~moved => q = p
  BY <1>2, <1>4, PlanesParts DEF InOrder
<1>6. Later(p, q)
  <2>1. moved => q.coordination.stateRevision > p.coordination.stateRevision
    BY <1>2, PlanesParts DEF Max2
  <2>2. newDocument => q.document.roomRevision > p.document.roomRevision
    BY <1>2, PlanesParts DEF Max2
  <2>. QED
    BY <2>1, <2>2, <1>4, <1>5 DEF Later
<1>7. sameContent(p, q) => q = p
  BY <1>2, <1>5 DEF sameContent
<1>. QED
  BY <1>3, <1>6, <1>7 DEF q

\* What the whole of a mutation, liveness derived first and revisions
\* normalised last, makes of planes in order.
LEMMA MutatedPlanes ==
  ASSUME NEW c \in Calls, NEW p \in Planes, NEW t \in Nat, InOrder(p)
  PROVE  LET q == mutated(c, p, t)
         IN /\ q \in Planes
            /\ InOrder(q) /\ Later(p, q)
            /\ sameContent(p, q) => q = p
            /\ \A d \in Calls : Landed(q.document.content, d)
                 = Landed(p.document.content, d) + (IF d = c /\ IsEdit(c) THEN 1 ELSE 0)
<1>. DEFINE live == reconcileDerivedState(p, t)
            room == composeRoomState(live)
            after == Update(c, room, t).room
<1>1. live \in Planes /\ live.document = p.document
  BY ReconcileType, ReconcileLater
<1>2. room \in RoomState
  BY <1>1, ComposeType
<1>3. /\ room.roomRevision = p.document.roomRevision
      /\ room.content = p.document.content
  BY <1>1 DEF composeRoomState
<1>4. updated(c, p, t).room = after
  BY DEF updated
<1>. HIDE DEF live, room
<1>5. after \in RoomState
  BY <1>2, UpdateType DEF UpdateResult
<1>6. after.roomRevision <= p.document.roomRevision + 1
  <2>1. after.roomRevision \in {room.roomRevision, room.roomRevision + 1}
    BY <1>2, UpdateRevisions
  <2>2. p.document.roomRevision \in Nat
    BY PlanesParts
  <2>. QED
    BY <2>1, <2>2, <1>3
<1>7. \A d \in Calls : Landed(after.content, d)
        = Landed(p.document.content, d) + (IF d = c /\ IsEdit(c) THEN 1 ELSE 0)
  BY <1>2, <1>3, UpdateContent
<1>. HIDE DEF after
<1>8. mutated(c, p, t) = normalizeMutationRevisions(p, after)
  BY <1>4 DEF mutated
<1>9. normalizeMutationRevisions(p, after).document.content = after.content
  BY <1>5, NormalizeContent
<1>. QED
  BY <1>5, <1>6, <1>7, <1>8, <1>9, NormalizeType, NormalizeLater

-----------------------------------------------------------------------------
(* The inductive invariant of the ledger. AtMostOnce alone is not          *)
(* inductive: a key without a receipt must not have let a mutation in.     *)

ReceiptsTell == \A c \in Calls : Keyed(c) /\ ReceiptOf(c) = NoReceipt => applied[c] = 0

LedgerInv ==
  /\ LedgerTypeOK
  /\ HotPathReady
  /\ ReceiptsTell
  /\ AtMostOnce
  /\ NoLostEdit

LEMMA LedgerInitInv == LedgerInit => LedgerInv
<1>. SUFFICES ASSUME LedgerInit PROVE LedgerInv
  OBVIOUS
<1>1. LedgerTypeOK
  BY LedgerAssumption DEF LedgerInit, LedgerTypeOK, Outcomes
<1>2. HotPathReady
  BY LedgerAssumption DEF LedgerInit, HotPathReady
<1>3. ReceiptsTell /\ AtMostOnce
  BY DEF LedgerInit, ReceiptsTell, AtMostOnce
<1>4. NoLostEdit
  BY LedgerAssumption DEF LedgerInit, NoLostEdit
<1>. QED
  BY <1>1, <1>2, <1>3, <1>4 DEF LedgerInv

\* The receipt a mutation leaves.
LEMMA ReceiptWritten ==
  ASSUME LedgerTypeOK, NEW c \in Calls, receipts' = withReceipt(c)
  PROVE  /\ receipts' \in [Keys -> Requests \cup {NoReceipt}]
         /\ Keyed(c) => KeyOf[c] \in Keys /\ receipts'[KeyOf[c]] = RequestOf[c]
                        /\ RequestOf[c] # NoReceipt
         /\ ~Keyed(c) => receipts' = receipts
         /\ \A k \in Keys : k # KeyOf[c] => receipts'[k] = receipts[k]
<1>1. RequestOf[c] \in Requests /\ RequestOf[c] # NoReceipt
  BY LedgerAssumption
<1>2. Keyed(c) => KeyOf[c] \in Keys
  BY LedgerAssumption DEF Keyed
<1>. QED
  BY <1>1, <1>2 DEF LedgerTypeOK, withReceipt

LEMMA TakeInv ==
  ASSUME LedgerInv, NEW c \in Calls, Take(c)
  PROVE  LedgerInv' /\ Later(planes, planes')
<1>. PICK t \in Times : planes' = mutated(c, planes, t)
  BY DEF Take
<1>. t \in Nat
  BY LedgerAssumption DEF Times
<1>1. planes \in Planes /\ InOrder(planes)
  BY DEF LedgerInv, LedgerTypeOK, HotPathReady, InOrder
<1>2. planes' \in Planes /\ InOrder(planes') /\ Later(planes, planes')
  BY <1>1, MutatedPlanes
<1>3. \A d \in Calls : Landed(planes'.document.content, d)
        = Landed(planes.document.content, d) + (IF d = c /\ IsEdit(c) THEN 1 ELSE 0)
  BY <1>1, MutatedPlanes
<1>4. /\ applied[c] = 0 /\ ReceiptOf(c) = NoReceipt
      /\ applied' = [applied EXCEPT ![c] = 1]
      /\ receipts' = withReceipt(c)
      /\ outcome' = outcome
  BY DEF Take
<1>5. LedgerTypeOK'
  BY <1>2, <1>4, ReceiptWritten DEF LedgerInv, LedgerTypeOK
<1>6. HotPathReady'
  BY <1>2 DEF HotPathReady, InOrder
<1>7. ReceiptsTell'
  <2>. SUFFICES ASSUME NEW d \in Calls, Keyed(d), receipts'[KeyOf[d]] = NoReceipt
                PROVE  applied'[d] = 0
    BY DEF ReceiptsTell, ReceiptOf, Keyed
  <2>. KeyOf[d] \in Keys
    BY LedgerAssumption DEF Keyed
  <2>. LedgerTypeOK
    BY DEF LedgerInv
  <2>1. d # c /\ (Keyed(c) => KeyOf[d] # KeyOf[c])
    BY <1>4, ReceiptWritten
  <2>2. receipts'[KeyOf[d]] = receipts[KeyOf[d]]
    BY <1>4, <2>1, ReceiptWritten
  <2>3. applied[d] = 0
    BY <2>2 DEF LedgerInv, ReceiptsTell, ReceiptOf
  <2>. QED
    BY <1>4, <2>1, <2>3 DEF LedgerTypeOK
<1>8. AtMostOnce'
  BY <1>4 DEF LedgerInv, LedgerTypeOK, AtMostOnce, ReceiptsTell, ReceiptOf, Keyed
<1>9. NoLostEdit'
  BY <1>3, <1>4 DEF LedgerInv, LedgerTypeOK, NoLostEdit, IsEdit, Landed
<1>. QED
  BY <1>2, <1>5, <1>6, <1>7, <1>8, <1>9 DEF LedgerInv

\* Heartbeats and liveness: the document stays as it is.
LEMMA LivenessInv ==
  ASSUME LedgerInv, Beat \/ Elapse
  PROVE  LedgerInv' /\ Later(planes, planes')
<1>1. planes \in Planes /\ InOrder(planes) /\ Times \subseteq Nat
  BY LedgerAssumption DEF LedgerInv, LedgerTypeOK, HotPathReady, InOrder, Times
<1>2. /\ planes' \in Planes /\ InOrder(planes') /\ Later(planes, planes')
      /\ planes'.document = planes.document
  <2>1. CASE Beat
    <3>0. PICK m \in Members, t \in Times :
            \E seen \in seenAfter(planes, m, t) : planes' = presenceCommit(planes, m, seen, t)
      BY <2>1 DEF Beat
    <3>1. PICK seen \in seenAfter(planes, m, t) : planes' = presenceCommit(planes, m, seen, t)
      BY <3>0
    <3>2. t \in Nat /\ seen \in Nat
      BY <1>1, SeenAfterType
    <3>. QED
      BY <1>1, <3>1, <3>2, PresenceType, PresenceLater
  <2>2. CASE Elapse
    BY <1>1, <2>2, ReconcileType, ReconcileLater DEF Elapse
  <2>. QED
    BY <2>1, <2>2
<1>3. UNCHANGED <<receipts, applied, outcome>>
  BY DEF Beat, Elapse
<1>. QED
  BY <1>2, <1>3 DEF LedgerInv, LedgerTypeOK, HotPathReady, InOrder, ReceiptsTell, ReceiptOf,
     AtMostOnce, NoLostEdit

LEMMA SettleInv ==
  ASSUME LedgerInv, NEW c \in Calls, Settle(c)
  PROVE  LedgerInv' /\ planes' = planes
BY DEF Settle, LedgerInv, LedgerTypeOK, HotPathReady, ReceiptsTell, ReceiptOf, AtMostOnce, NoLostEdit

LEMMA LedgerStep ==
  ASSUME LedgerInv, [LedgerNext]_ledgerVars
  PROVE  LedgerInv' /\ Later(planes, planes')
<1>1. CASE LedgerNext
  BY <1>1, TakeInv, SettleInv, LivenessInv DEF LedgerNext, Later
<1>2. CASE UNCHANGED ledgerVars
  BY <1>2 DEF ledgerVars, LedgerInv, LedgerTypeOK, HotPathReady, ReceiptsTell, ReceiptOf,
     AtMostOnce, NoLostEdit, Later
<1>. QED
  BY <1>1, <1>2

\* What has happened stays so.
LEMMA LedgerMonotone ==
  ASSUME LedgerInv, [LedgerNext]_ledgerVars, NEW c \in Calls
  PROVE  /\ applied'[c] >= applied[c]
         /\ ReceiptOf(c) # NoReceipt => ReceiptOf(c)' # NoReceipt
<1>. applied[c] \in Nat
  BY DEF LedgerInv, LedgerTypeOK
<1>1. ASSUME NEW d \in Calls, Take(d)
      PROVE  /\ applied'[c] >= applied[c]
             /\ ReceiptOf(c) # NoReceipt => ReceiptOf(c)' # NoReceipt
  <2>1. /\ applied' = [applied EXCEPT ![d] = 1] /\ applied[d] = 0
        /\ receipts' = withReceipt(d)
    BY <1>1 DEF Take
  <2>2. applied'[c] >= applied[c]
    BY <2>1 DEF LedgerInv, LedgerTypeOK
  <2>3. Keyed(c) => KeyOf[c] \in Keys
    BY LedgerAssumption DEF Keyed
  <2>4. LedgerTypeOK
    BY DEF LedgerInv
  <2>5. ASSUME Keyed(c), receipts[KeyOf[c]] # NoReceipt
        PROVE  receipts'[KeyOf[c]] # NoReceipt
    BY <2>1, <2>3, <2>4, <2>5, ReceiptWritten
  <2>. QED
    BY <2>2, <2>5 DEF ReceiptOf, Keyed
<1>2. ASSUME UNCHANGED <<receipts, applied>>
      PROVE  /\ applied'[c] >= applied[c]
             /\ ReceiptOf(c) # NoReceipt => ReceiptOf(c)' # NoReceipt
  BY <1>2 DEF ReceiptOf
<1>. QED
  BY <1>1, <1>2 DEF LedgerNext, Settle, Beat, Elapse, ledgerVars

\* Every ledger keeps an idempotency key to one mutation, every edit that
\* took effect exactly once in the document, and the fence in place.
THEOREM LedgerCorrect == LedgerSpec => []LedgerInv
<1>1. LedgerInv /\ [LedgerNext]_ledgerVars => LedgerInv'
  BY LedgerStep
<1>. QED
  BY <1>1, LedgerInitInv, PTL DEF LedgerSpec

\* Every change of a ledger's room moves the revisions forward that count it.
THEOREM LedgerAdvances == LedgerSpec => RevisionsAdvance
<1>1. LedgerInv /\ [LedgerNext]_ledgerVars =>
        [/\ planes' # planes =>
              planes'.coordination.stateRevision > planes.coordination.stateRevision
         /\ planes'.document # planes.document =>
              planes'.document.roomRevision > planes.document.roomRevision]_ledgerVars
  BY LedgerStep DEF Later
<1>. QED
  BY <1>1, LedgerCorrect, PTL DEF LedgerSpec, RevisionsAdvance
=============================================================================
