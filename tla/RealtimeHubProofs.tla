-------------------------- MODULE RealtimeHubProofs --------------------------
(***************************************************************************)
(* A browser shows real versions of the room only, and never an earlier    *)
(* one than it has shown, for any number of browsers and commits, whatever *)
(* connections, events, patches and HTTP replies do.                       *)
(*                                                                         *)
(* The argument: whatever is under way names a version the room has had,   *)
(* and every way of taking it into the view turns one version into         *)
(* another.  A patch and a delta do because revisions name documents: two  *)
(* versions with one roomRevision hold the same objects.                   *)
(***************************************************************************)
EXTENDS RealtimeHub, FiniteSetTheorems, WellFoundedInduction, SequenceTheorems, TLAPS

-----------------------------------------------------------------------------
(* Versions and their revisions.                                           *)

LEMMA Versions ==
  ASSUME commits \in Seq(Kinds)
  PROVE  version \in Nat
BY DEF version

LEMMA Documents ==
  ASSUME commits \in Seq(Kinds), NEW n \in 0..version
  PROVE  /\ documents(n) \subseteq 1..n
         /\ IsFiniteSet(documents(n))
         /\ roomRevision(n) \in 0..n
<1>1. documents(n) \subseteq 1..n
  BY DEF documents
<1>2. IsFiniteSet(1..n) /\ Cardinality(1..n) = n
  BY FS_Interval DEF version
<1>3. IsFiniteSet(documents(n)) /\ Cardinality(documents(n)) <= n
  BY <1>1, <1>2, FS_Subset
<1>4. Cardinality(documents(n)) \in Nat
  BY <1>3, FS_CardinalityType
<1> QED
  BY <1>1, <1>3, <1>4 DEF roomRevision, version

\* Revisions grow with versions, and one revision names one document.
LEMMA RevisionsNameDocuments ==
  ASSUME commits \in Seq(Kinds), NEW m \in 0..version, NEW n \in 0..version, m <= n
  PROVE  /\ documents(m) \subseteq documents(n)
         /\ roomRevision(m) <= roomRevision(n)
         /\ roomRevision(m) = roomRevision(n) => documents(m) = documents(n)
<1>1. documents(m) \subseteq documents(n)
  BY DEF documents, version
<1> QED
  BY <1>1, Documents, FS_Subset DEF roomRevision

-----------------------------------------------------------------------------
(* Types.                                                                  *)

\* What names a version of the room names it still after later commits.
LEMMA SetsGrow ==
  ASSUME NEW m \in Nat, NEW n \in Nat, m <= n
  PROVE  /\ Entries(m) \subseteq Entries(n)
         /\ Peers(m) \subseteq Peers(n)
         /\ Messages(m) \subseteq Messages(n)
         /\ Seq(Messages(m)) \subseteq Seq(Messages(n))
         /\ Browsers(m) \subseteq Browsers(n)
         /\ Replies(m) \subseteq Replies(n)
<1>1. Entries(m) \subseteq Entries(n)
  BY DEF Entries
<1>2. Seq(Entries(m)) \subseteq Seq(Entries(n))
  BY <1>1, SeqMonotonic
<1>3. Peers(m) \subseteq Peers(n)
  BY <1>2 DEF Peers
<1>4. Messages(m) \subseteq Messages(n)
  BY DEF Messages
<1>5. Seq(Messages(m)) \subseteq Seq(Messages(n))
  BY <1>4, SeqMonotonic
<1>6. Views(m) \subseteq Views(n)
  BY DEF Views
<1>7. Browsers(m) \subseteq Browsers(n)
  BY <1>6 DEF Browsers
<1>8. Replies(m) \subseteq Replies(n)
  BY DEF Replies
<1> QED
  BY <1>1, <1>3, <1>4, <1>5, <1>7, <1>8

\* The fields of a peer are set one at a time.
LEMMA PeerFields ==
  ASSUME NEW n \in Nat, NEW peer \in Peers(n)
  PROVE  /\ \A x \in {"no", "tail", "room", "send", "flush"} : [peer EXCEPT !.sync = x] \in Peers(n)
         /\ \A x \in BOOLEAN : [peer EXCEPT !.again = x] \in Peers(n)
         /\ \A x \in BOOLEAN : [peer EXCEPT !.ready = x] \in Peers(n)
         /\ \A x \in 0..n : [peer EXCEPT !.tail = x] \in Peers(n)
         /\ \A x \in 0..n : [peer EXCEPT !.room = x] \in Peers(n)
         /\ \A x \in 0..n : [peer EXCEPT !.cursor = x] \in Peers(n)
         /\ \A x \in 0..n : [peer EXCEPT !.state = x] \in Peers(n)
         /\ \A x \in 0..n : [peer EXCEPT !.doc = x] \in Peers(n)
         /\ \A x \in Seq(Entries(n)) : [peer EXCEPT !.pending = x] \in Peers(n)
<1>1. \A x \in {"no", "tail", "room", "send", "flush"} : [peer EXCEPT !.sync = x] \in Peers(n)
  BY DEF Peers
<1>2. \A x \in BOOLEAN : [peer EXCEPT !.again = x] \in Peers(n)
  BY DEF Peers
<1>3. \A x \in BOOLEAN : [peer EXCEPT !.ready = x] \in Peers(n)
  BY DEF Peers
<1>4. \A x \in 0..n : [peer EXCEPT !.tail = x] \in Peers(n)
  BY DEF Peers
<1>5. \A x \in 0..n : [peer EXCEPT !.room = x] \in Peers(n)
  BY DEF Peers
<1>6. \A x \in 0..n : [peer EXCEPT !.cursor = x] \in Peers(n)
  BY DEF Peers
<1>7. \A x \in 0..n : [peer EXCEPT !.state = x] \in Peers(n)
  BY DEF Peers
<1>8. \A x \in 0..n : [peer EXCEPT !.doc = x] \in Peers(n)
  BY DEF Peers
<1>9. \A x \in Seq(Entries(n)) : [peer EXCEPT !.pending = x] \in Peers(n)
  BY DEF Peers
<1> QED
  BY <1>1, <1>2, <1>3, <1>4, <1>5, <1>6, <1>7, <1>8, <1>9

LEMMA Delivered ==
  ASSUME commits \in Seq(Kinds), NEW peer \in Peers(version), NEW e \in 1..version,
         NEW cursor \in 0..version
  PROVE  LET d == deliverEvent(peer, e, cursor)
         IN  /\ d.peer \in Peers(version)
             /\ d.peer.ready = peer.ready /\ d.peer.sync = peer.sync
             /\ d.peer.pending = peer.pending
             /\ d.out \in Seq(Messages(version))
             /\ d.stale \in BOOLEAN
<1> DEFINE d == deliverEvent(peer, e, cursor)
           k == Larger(peer.cursor, cursor)
           moved == [peer EXCEPT !.state = e]
           acked == [peer EXCEPT !.cursor = k]
           both == [moved EXCEPT !.cursor = k]
           checkpoint == [type |-> "checkpoint", cursor |-> cursor]
           event == [type |-> "event", cursor |-> cursor, event |-> e]
<1>0. version \in Nat /\ e \in 0..version
  BY DEF version
<1>1. k \in 0..version
  BY DEF Peers, Larger
<1>2. acked \in Peers(version)
  BY <1>0, <1>1, PeerFields
<1>3. acked.ready = peer.ready /\ acked.sync = peer.sync /\ acked.pending = peer.pending
  BY DEF Peers
<1>4. both \in Peers(version)
  <2>1. moved \in Peers(version)
    BY <1>0, PeerFields
  <2> HIDE DEF moved, k
  <2> QED
    BY <1>0, <1>1, <2>1, PeerFields
<1>9. both.ready = peer.ready /\ both.sync = peer.sync /\ both.pending = peer.pending
  BY DEF Peers
<1>5. checkpoint \in Messages(version) /\ event \in Messages(version)
  BY DEF Messages
<1>6. CASE peerCoversEvent(peer, e)
  <2>1. d = [peer |-> acked, out |-> IF cursor > peer.cursor THEN <<checkpoint>> ELSE <<>>,
             stale |-> FALSE]
    BY <1>6, Zenon DEF deliverEvent
  <2> HIDE DEF d, acked, checkpoint
  <2> QED
    BY <2>1, <1>2, <1>3, <1>5 DEF d
<1>7. CASE ~peerCoversEvent(peer, e) /\ deltaFollows(peer, e)
  <2>1. d = [peer |-> both, out |-> <<event>>, stale |-> FALSE]
    BY <1>7, Zenon DEF deliverEvent
  <2> HIDE DEF d, both, event
  <2> QED
    BY <2>1, <1>4, <1>5, <1>9 DEF d
<1>8. CASE ~peerCoversEvent(peer, e) /\ ~deltaFollows(peer, e)
  <2>1. d = [peer |-> peer, out |-> <<>>, stale |-> TRUE]
    BY <1>8, Zenon DEF deliverEvent
  <2> HIDE DEF d
  <2> QED
    BY <2>1 DEF d
<1> QED
  BY <1>6, <1>7, <1>8

LEMMA Queued ==
  ASSUME version \in Nat, MaxPending \in Nat \ {0}, NEW pending \in Seq(Entries(version)),
         NEW e \in 1..version, NEW cursor \in 0..version
  PROVE  queuePending(pending, e, cursor) \in Seq(Entries(version))
<1>1. Entry(e, cursor) \in Entries(version)
  BY DEF Entry, Entries
<1>2. CASE \E i \in DOMAIN pending : pending[i].event = e
  <2>1. \A i \in DOMAIN pending : pending[i] \in Entries(version)
    OBVIOUS
  <2>2. \A i \in DOMAIN pending : Entry(e, Larger(pending[i].cursor, cursor)) \in Entries(version)
    BY <2>1 DEF Entry, Entries, Larger
  <2> QED
    BY <1>2, <2>1, <2>2 DEF queuePending
<1>3. CASE ~\E i \in DOMAIN pending : pending[i].event = e
  <2> DEFINE queue == Append(pending, Entry(e, cursor))
  <2>1. queue \in Seq(Entries(version)) /\ queue # <<>>
    BY <1>1
  <2>2. Tail(queue) \in Seq(Entries(version))
    BY <2>1
  <2> QED
    BY <1>3, <2>1, <2>2 DEF queuePending
<1> QED
  BY <1>2, <1>3

LEMMA Synchronized ==
  ASSUME NEW n \in Nat, NEW peer \in Peers(n)
  PROVE  /\ synchronized(peer) \in Peers(n)
         /\ synchronized(peer).ready <=> synchronized(peer).sync = "no"
<1> DEFINE again == [[[peer EXCEPT !.sync = "tail"] EXCEPT !.again = FALSE] EXCEPT !.ready = FALSE]
           over == [[peer EXCEPT !.sync = "no"] EXCEPT !.ready = TRUE]
<1>1. again \in Peers(n)
  <2> DEFINE p1 == [peer EXCEPT !.sync = "tail"]
             p2 == [p1 EXCEPT !.again = FALSE]
  <2>1. p1 \in Peers(n)
    BY PeerFields
  <2> HIDE DEF p1
  <2>2. p2 \in Peers(n)
    BY <2>1, PeerFields
  <2> HIDE DEF p2
  <2>3. [p2 EXCEPT !.ready = FALSE] \in Peers(n)
    BY <2>2, PeerFields
  <2> QED
    BY <2>3 DEF p1, p2
<1>2. over \in Peers(n)
  <2> DEFINE p1 == [peer EXCEPT !.sync = "no"]
  <2>1. p1 \in Peers(n)
    BY PeerFields
  <2> HIDE DEF p1
  <2>2. [p1 EXCEPT !.ready = TRUE] \in Peers(n)
    BY <2>1, PeerFields
  <2> QED
    BY <2>2 DEF p1
<1>3. again.ready = FALSE /\ again.sync = "tail" /\ over.ready = TRUE /\ over.sync = "no"
  BY DEF Peers
<1>4. synchronized(peer) = IF peer.again THEN again ELSE over
  BY Zenon DEF synchronized
<1> HIDE DEF again, over
<1> QED
  BY <1>1, <1>2, <1>3, <1>4

LEMMA Based ==
  ASSUME commits \in Seq(Kinds), NEW peer \in Peers(version)
  PROVE  /\ based(peer) \in Peers(version)
         /\ based(peer).ready = peer.ready
         /\ based(peer).sync = peer.sync
         /\ based(peer).pending = peer.pending
<1> DEFINE p1 == [peer EXCEPT !.state = peer.room]
           p2 == [p1 EXCEPT !.doc = roomRevision(peer.room)]
           p3 == [p2 EXCEPT !.cursor = peer.tail]
           p4 == [p3 EXCEPT !.tail = 0]
           p5 == [p4 EXCEPT !.room = 0]
<1>0. peer.room \in 0..version /\ peer.tail \in 0..version
  BY DEF Peers
<1>1. roomRevision(peer.room) \in 0..version /\ version \in Nat /\ 0 \in 0..version
  BY <1>0, Documents DEF version
<1>2. p5.ready = peer.ready /\ p5.sync = peer.sync /\ p5.pending = peer.pending
  BY DEF Peers
<1>3. based(peer) = p5
  BY Zenon DEF based
<1>4. p1 \in Peers(version)
  BY <1>0, <1>1, PeerFields
<1> HIDE DEF p1
<1>5. p2 \in Peers(version)
  BY <1>1, <1>4, PeerFields
<1> HIDE DEF p2
<1>6. p3 \in Peers(version)
  BY <1>0, <1>1, <1>5, PeerFields
<1> HIDE DEF p3
<1>7. p4 \in Peers(version)
  BY <1>1, <1>6, PeerFields
<1> HIDE DEF p4
<1>8. p5 \in Peers(version)
  BY <1>1, <1>7, PeerFields
<1> QED
  BY <1>2, <1>3, <1>8

-----------------------------------------------------------------------------
(* Views.                                                                  *)

\* A view is nothing yet, or one version of the room.
Real(view) == view = NoRoom \/ \E n \in 0..version : view = Room(n)

LEMMA Rooms ==
  ASSUME commits \in Seq(Kinds), NEW n \in 0..version
  PROVE  /\ Room(n) \in Views(version) /\ NoRoom \in Views(version)
         /\ Room(n) # NoRoom
         /\ Room(n).state = n /\ Room(n).doc = roomRevision(n)
         /\ Room(n).objects = documents(n) /\ Room(n).live = 1..n
<1>1. /\ documents(n) \subseteq 1..version
      /\ roomRevision(n) \in 0..version
      /\ 1..n \subseteq 1..version
      /\ version \in Nat
  BY Documents DEF version
<1> QED
  BY <1>1 DEF Room, NoRoom, Views

\* A snapshot or an HTTP reply: plane by plane, the later of two versions.
LEMMA SnapshotIsReal ==
  ASSUME commits \in Seq(Kinds), NEW view, Real(view), NEW n \in 0..version
  PROVE  /\ Real(reconcileRoomSnapshot(view, Room(n)))
         /\ reconcileRoomSnapshot(view, Room(n)).state >= view.state
<1> DEFINE next == reconcileRoomSnapshot(view, Room(n))
<1>0. Room(n).state = n /\ version \in Nat
  BY Rooms DEF version
<1>1. CASE view = NoRoom
  BY <1>0, <1>1 DEF reconcileRoomSnapshot, Real, NoRoom
<1>2. CASE view # NoRoom
  <2>1. PICK m \in 0..version : view = Room(m)
    BY <1>2 DEF Real
  <2>2. /\ next.state = Larger(m, n)
        /\ next = [state   |-> Larger(m, n),
                   live    |-> IF n >= m THEN 1..n ELSE 1..m,
                   doc     |-> Larger(roomRevision(m), roomRevision(n)),
                   objects |-> IF roomRevision(n) >= roomRevision(m) THEN documents(n)
                               ELSE documents(m)]
    <3> HIDE DEF next
    <3>1. next = [state   |-> Larger(view.state, Room(n).state),
                  live    |-> IF Room(n).state >= view.state THEN Room(n).live ELSE view.live,
                  doc     |-> Larger(view.doc, Room(n).doc),
                  objects |-> IF Room(n).doc >= view.doc THEN Room(n).objects ELSE view.objects]
      BY <1>2 DEF next, reconcileRoomSnapshot
    <3> QED
      BY <3>1, <2>1, Rooms
  <2>3. CASE n >= m
    <3>1. /\ roomRevision(m) <= roomRevision(n)
          /\ roomRevision(m) \in Nat /\ roomRevision(n) \in Nat
      BY <2>3, Documents, RevisionsNameDocuments
    <3>2. next = Room(n)
      BY <2>2, <2>3, <3>1 DEF Larger, Room
    <3> QED
      BY <3>2, <2>1, <2>3, Rooms DEF Real
  <2>4. CASE n < m
    <3>1. /\ roomRevision(n) <= roomRevision(m)
          /\ roomRevision(m) = roomRevision(n) => documents(m) = documents(n)
          /\ roomRevision(m) \in Nat /\ roomRevision(n) \in Nat
      BY <2>4, Documents, RevisionsNameDocuments
    <3>2. next = Room(m)
      BY <2>2, <2>4, <3>1 DEF Larger, Room
    <3> QED
      BY <3>2, <2>1, Rooms DEF Real
  <2> QED
    BY <2>3, <2>4
<1> QED
  BY <1>1, <1>2

\* A patch made for this version, or for nothing newer.
LEMMA PatchIsReal ==
  ASSUME commits \in Seq(Kinds), NEW view, Real(view), NEW patch, patch.room \in 0..version,
         patchApplies(view, patch)
  PROVE  /\ Real(applyRoomPatch(view, patch))
         /\ applyRoomPatch(view, patch).state >= view.state
<1> DEFINE n == patch.room
<1>1. PICK m \in 0..version : view = Room(m)
  BY DEF patchApplies, Real
<1>2. /\ view.state = m /\ view.doc = roomRevision(m) /\ view.objects = documents(m)
      /\ Room(n).state = n /\ Room(n).doc = roomRevision(n)
      /\ m \in Nat /\ n \in Nat /\ roomRevision(m) \in Nat /\ roomRevision(n) \in Nat
  <2>1. /\ view.state = m /\ view.doc = roomRevision(m) /\ view.objects = documents(m)
        /\ Room(n).state = n /\ Room(n).doc = roomRevision(n)
    BY <1>1, Rooms
  <2>2. roomRevision(m) \in Nat /\ roomRevision(n) \in Nat
    BY Documents
  <2> QED
    BY <2>1, <2>2 DEF version
<1>3. CASE ~isNewer(Room(n), view)
  BY <1>2, <1>3 DEF applyRoomPatch
<1>4. CASE isNewer(Room(n), view)
  <2>1. n > m
    <3>1. n > m \/ roomRevision(n) > roomRevision(m)
      BY <1>2, <1>4 DEF isNewer
    <3>2. n <= m => roomRevision(n) <= roomRevision(m)
      BY RevisionsNameDocuments
    <3> QED
      BY <1>2, <3>1, <3>2
  <2>2. patch.base.state = m
    BY <1>2, <1>4 DEF patchApplies
  <2>3. documents(m) \cup {i \in documents(n) : i > m} = documents(n)
    <3>1. documents(m) \subseteq documents(n)
      BY <2>1, <1>2, RevisionsNameDocuments
    <3>2. ASSUME NEW i \in documents(n), ~(i > m) PROVE i \in documents(m)
      BY <3>2, <1>2 DEF documents
    <3> QED
      BY <3>1, <3>2
  <2>4. applyRoomPatch(view, patch) = [Room(n) EXCEPT !.objects = documents(n)]
    BY <1>2, <1>4, <2>2, <2>3 DEF applyRoomPatch
  <2>5. applyRoomPatch(view, patch) = Room(n)
    BY <2>4 DEF Room
  <2> QED
    BY <2>1, <2>5, <1>2 DEF Real
<1> QED
  BY <1>3, <1>4

\* A presence delta of the next version, where no document was written.
LEMMA DeltaIsReal ==
  ASSUME commits \in Seq(Kinds), NEW view, Real(view), NEW n \in 0..version,
         deltaApplies(view, n)
  PROVE  /\ Real(applyPresenceDelta(view, n))
         /\ applyPresenceDelta(view, n).state >= view.state
<1>1. PICK m \in 0..version : view = Room(m)
  BY DEF deltaApplies, Real
<1>2. /\ view.state = m /\ view.doc = roomRevision(m) /\ view.objects = documents(m)
      /\ view.live = 1..m /\ n \in 0..version
  BY <1>1, Rooms DEF version
<1>3. CASE m >= n
  BY <1>2, <1>3 DEF applyPresenceDelta
<1>4. CASE m < n
  <2>1. n = m + 1 /\ roomRevision(n) = roomRevision(m)
    BY <1>2, <1>4 DEF deltaApplies
  <2>2. documents(n) = documents(m)
    BY <1>2, <1>4, <2>1, RevisionsNameDocuments
  <2>3. (1..m) \cup {n} = 1..n
    BY <2>1
  <2>4. applyPresenceDelta(view, n) = [view EXCEPT !.state = n, !.live = 1..n]
    <3>1. ~(view.state >= n)
      BY <1>2, <1>4
    <3> QED
      BY <3>1, <1>2, <2>3 DEF applyPresenceDelta
  <2>5. applyPresenceDelta(view, n) = Room(n)
    BY <1>1, <2>1, <2>2, <2>4 DEF Room
  <2> QED
    BY <1>2, <1>4, <2>5, Rooms DEF Real
<1> QED
  BY <1>2, <1>3, <1>4

-----------------------------------------------------------------------------
(* The browser.                                                            *)

Sound(b) == b \in Browsers(version) /\ Real(b.view)

LEMMA Viewing ==
  ASSUME commits \in Seq(Kinds), NEW b, Sound(b), NEW view, Real(view)
  PROVE  Sound([b EXCEPT !.view = view]) /\ [b EXCEPT !.view = view].view = view
<1>1. view \in Views(version)
  BY Rooms DEF Real, version
<1> QED
  BY <1>1 DEF Sound, Browsers

LEMMA Fields ==
  ASSUME NEW b, Sound(b)
  PROVE  /\ \A x \in {"offline", "open", "live"} :
              Sound([b EXCEPT !.conn = x]) /\ [b EXCEPT !.conn = x].view = b.view
         /\ \A x \in BOOLEAN :
              Sound([b EXCEPT !.awaiting = x]) /\ [b EXCEPT !.awaiting = x].view = b.view
         /\ \A x \in 0..version :
              Sound([b EXCEPT !.cursor = x]) /\ [b EXCEPT !.cursor = x].view = b.view
         /\ \A x \in 0..version :
              Sound([b EXCEPT !.wanted = x]) /\ [b EXCEPT !.wanted = x].view = b.view
<1>1. b \in Browsers(version) /\ Real(b.view)
  BY DEF Sound
<1>2. \A x \in {"offline", "open", "live"} :
        [b EXCEPT !.conn = x] \in Browsers(version) /\ [b EXCEPT !.conn = x].view = b.view
  BY <1>1 DEF Browsers
<1>3. \A x \in BOOLEAN :
        [b EXCEPT !.awaiting = x] \in Browsers(version) /\ [b EXCEPT !.awaiting = x].view = b.view
  BY <1>1 DEF Browsers
<1>4. \A x \in 0..version :
        [b EXCEPT !.cursor = x] \in Browsers(version) /\ [b EXCEPT !.cursor = x].view = b.view
  BY <1>1 DEF Browsers
<1>5. \A x \in 0..version :
        [b EXCEPT !.wanted = x] \in Browsers(version) /\ [b EXCEPT !.wanted = x].view = b.view
  BY <1>1 DEF Browsers
<1> QED
  BY <1>1, <1>2, <1>3, <1>4, <1>5 DEF Sound

\* What the browser makes of a step: sound, and showing nothing earlier.
Follows(next, b) == Sound(next) /\ next.view.state >= b.view.state

LEMMA Numbers ==
  ASSUME NEW b, Sound(b), version \in Nat
  PROVE  /\ b.cursor \in 0..version /\ b.wanted \in 0..version
         /\ b.view.state \in -1..version /\ b.view.state \in Int
         /\ \A k \in 0..version : Larger(b.cursor, k) \in 0..version
         /\ \A k \in 0..version : Larger(b.wanted, k) \in 0..version
<1>1. /\ b.cursor \in 0..version /\ b.wanted \in 0..version /\ b.view \in Views(version)
  BY DEF Sound, Browsers
<1> QED
  BY <1>1 DEF Larger, Views

LEMMA Settled ==
  ASSUME version \in Nat, NEW b, Sound(b)
  PROVE  Sound(settled(b)) /\ settled(b).view = b.view
<1>1. Sound([b EXCEPT !.wanted = 0]) /\ [b EXCEPT !.wanted = 0].view = b.view
  <2>1. 0 \in 0..version
    OBVIOUS
  <2> QED
    BY <2>1, Fields
<1> QED
  BY <1>1 DEF settled

LEMMA Presence ==
  ASSUME commits \in Seq(Kinds), NEW b, Sound(b), NEW n \in 0..version
  PROVE  Follows(acceptPresence(b, n), b)
<1>0. version \in Nat /\ n \in 0..version
  BY DEF version
<1>1. CASE deltaApplies(b.view, n)
  <2>1. /\ Real(applyPresenceDelta(b.view, n))
        /\ applyPresenceDelta(b.view, n).state >= b.view.state
    BY <1>1, DeltaIsReal DEF Sound
  <2> QED
    BY <1>1, <2>1, Viewing DEF acceptPresence, Follows
<1>2. CASE ~deltaApplies(b.view, n)
  <2>1. acceptPresence(b, n) = [b EXCEPT !.wanted = Larger(b.wanted, n)]
    BY <1>2 DEF acceptPresence
  <2>2. Larger(b.wanted, n) \in 0..version
    BY <1>0, Numbers
  <2>3. Sound([b EXCEPT !.wanted = Larger(b.wanted, n)])
        /\ [b EXCEPT !.wanted = Larger(b.wanted, n)].view = b.view
    BY <2>2, Fields
  <2>4. b.view.state \in Int
    BY <1>0, Numbers
  <2> QED
    BY <2>1, <2>3, <2>4 DEF Follows
<1> QED
  BY <1>1, <1>2

LEMMA Snapshots ==
  ASSUME commits \in Seq(Kinds), NEW b, Sound(b), NEW m, m.room \in 0..version,
         m.cursor \in 0..version
  PROVE  Follows(onSnapshot(b, m), b)
<1> DEFINE next == reconcileRoomSnapshot(b.view, Room(m.room))
           b1 == [b EXCEPT !.conn = "live"]
           b2 == [b1 EXCEPT !.awaiting = FALSE]
           b3 == [b2 EXCEPT !.cursor = m.cursor]
           b4 == [b3 EXCEPT !.view = next]
<1>1. Real(next) /\ next.state >= b.view.state
  BY SnapshotIsReal DEF Sound
<1>2. onSnapshot(b, m) = [[[[b EXCEPT !.conn = "live"] EXCEPT !.awaiting = FALSE]
                            EXCEPT !.cursor = m.cursor] EXCEPT !.view = next]
  BY Fields, Zenon DEF onSnapshot
<1>3. onSnapshot(b, m) = b4
  BY <1>2, Zenon
<1> HIDE DEF next
<1>4. Sound(b1) /\ b1.view = b.view
  BY Fields
<1> HIDE DEF b1
<1>5. Sound(b2) /\ b2.view = b.view
  BY <1>4, Fields
<1> HIDE DEF b2
<1>6. Sound(b3) /\ b3.view = b.view
  BY <1>5, Fields
<1> HIDE DEF b3
<1>7. Sound(b4) /\ b4.view = next
  BY <1>1, <1>6, Viewing
<1> QED
  BY <1>1, <1>3, <1>7 DEF Follows

LEMMA Patches ==
  ASSUME commits \in Seq(Kinds), NEW b, Sound(b), NEW m, m.room \in 0..version,
         m.cursor \in 0..version
  PROVE  Follows(onPatch(b, m), b)
<1>0. version \in Nat /\ b.view.state \in Int
  <2>1. version \in Nat
    BY Versions
  <2>2. b.view.state \in Int
    BY <2>1, Numbers
  <2> QED
    BY <2>1, <2>2
<1>1. CASE patchApplies(b.view, m)
  <2> DEFINE next == applyRoomPatch(b.view, m)
             b1 == [b EXCEPT !.cursor = Larger(b.cursor, m.cursor)]
             b2 == [b1 EXCEPT !.view = next]
  <2>1. Real(next) /\ next.state >= b.view.state
    BY <1>1, PatchIsReal DEF Sound
  <2>2. Larger(b.cursor, m.cursor) \in 0..version
    BY <1>0, Numbers
  <2>3. onPatch(b, m) = b2
    BY <1>1, Zenon DEF onPatch
  <2> HIDE DEF next
  <2>4. Sound(b1) /\ b1.view = b.view
    BY <2>2, Fields
  <2> HIDE DEF b1
  <2>5. Sound(b2) /\ b2.view = next
    BY <2>1, <2>4, Viewing
  <2> QED
    BY <2>1, <2>3, <2>5 DEF Follows
<1>2. CASE ~patchApplies(b.view, m)
  <2>1. onPatch(b, m) = [b EXCEPT !.awaiting = TRUE]
    BY <1>2 DEF onPatch
  <2>2. Sound([b EXCEPT !.awaiting = TRUE]) /\ [b EXCEPT !.awaiting = TRUE].view = b.view
    BY Fields
  <2> QED
    BY <1>0, <2>1, <2>2 DEF Follows
<1> QED
  BY <1>1, <1>2

LEMMA Events ==
  ASSUME commits \in Seq(Kinds), NEW b, Sound(b), NEW m, m.event \in 0..version,
         m.cursor \in 0..version
  PROVE  Follows(onEvent(b, m), b)
<1> DEFINE b1 == [b EXCEPT !.cursor = Larger(b.cursor, m.cursor)]
<1>1. Larger(b.cursor, m.cursor) \in 0..version
  BY Numbers, Versions
<1>2. Sound(b1) /\ b1.view = b.view
  BY <1>1, Fields
<1>3. onEvent(b, m) = acceptPresence(b1, m.event)
  BY Zenon DEF onEvent
<1> HIDE DEF b1
<1> QED
  BY <1>2, <1>3, Presence DEF Follows

LEMMA Handled ==
  ASSUME commits \in Seq(Kinds), NEW b, Sound(b), NEW m \in Messages(version)
  PROVE  Follows(handleServerMessage(b, m), b)
<1>0. version \in Nat /\ b.view.state \in Int
  <2>1. version \in Nat
    BY Versions
  <2>2. b.view.state \in Int
    BY <2>1, Numbers
  <2> QED
    BY <2>1, <2>2
<1>1. CASE m.type = "snapshot"
  <2>1. m.room \in 0..version /\ m.cursor \in 0..version
    BY <1>1 DEF Messages
  <2> QED
    BY <1>1, <2>1, Snapshots DEF handleServerMessage
<1>2. CASE m.type = "close"
  <2>1. handleServerMessage(b, m) = [b EXCEPT !.conn = "offline"]
    BY <1>2 DEF handleServerMessage
  <2>2. Sound([b EXCEPT !.conn = "offline"]) /\ [b EXCEPT !.conn = "offline"].view = b.view
    BY Fields
  <2> QED
    BY <1>0, <2>1, <2>2 DEF Follows
<1>3. CASE m.type = "patch" /\ ~b.awaiting
  <2>1. m.room \in 0..version /\ m.cursor \in 0..version
    BY <1>3 DEF Messages
  <2>2. handleServerMessage(b, m) = onPatch(b, m)
    BY <1>3 DEF handleServerMessage
  <2> QED
    BY <2>1, <2>2, Patches
<1>4. CASE m.type = "event" /\ ~b.awaiting
  <2>1. m.event \in 0..version /\ m.cursor \in 0..version
    BY <1>0, <1>4 DEF Messages
  <2>2. handleServerMessage(b, m) = onEvent(b, m)
    BY <1>4 DEF handleServerMessage
  <2> QED
    BY <2>1, <2>2, Events
<1>5. CASE m.type \in {"checkpoint", "draft"} /\ ~b.awaiting
  <2>1. m.cursor \in 0..version
    BY <1>5 DEF Messages
  <2>2. handleServerMessage(b, m) = [b EXCEPT !.cursor = Larger(b.cursor, m.cursor)]
    BY <1>5 DEF handleServerMessage
  <2>3. Larger(b.cursor, m.cursor) \in 0..version
    BY <1>0, <2>1, Numbers
  <2>4. Sound([b EXCEPT !.cursor = Larger(b.cursor, m.cursor)])
        /\ [b EXCEPT !.cursor = Larger(b.cursor, m.cursor)].view = b.view
    BY <2>3, Fields
  <2> QED
    BY <1>0, <2>2, <2>4 DEF Follows
<1>6. CASE /\ m.type \in {"patch", "event", "checkpoint", "draft"}
           /\ b.awaiting
  <2>1. handleServerMessage(b, m) = b
    BY <1>6 DEF handleServerMessage
  <2> QED
    BY <1>0, <2>1 DEF Follows
<1>7. m.type \in {"snapshot", "close", "patch", "event", "checkpoint", "draft"}
  BY DEF Messages
<1> QED
  BY <1>1, <1>2, <1>3, <1>4, <1>5, <1>6, <1>7

-----------------------------------------------------------------------------
(* The parts of the type invariant that steps disturb.                     *)

PeersOK ==
  /\ DOMAIN peers \subseteq Clients
  /\ peers \in [DOMAIN peers -> Peers(version)]
  /\ \A c \in DOMAIN peers : peers[c].ready <=> peers[c].sync = "no"

SignalsOK ==
  /\ DOMAIN signals \subseteq 1..version
  /\ signals \in [DOMAIN signals -> 0..version]
  /\ recon \in [phase : {"idle", "reading", "read"}, target : 0..version, room : 0..version]

ClientOK == client \in [Clients -> {b \in Browsers(version) : Real(b.view)}]

WireOK == wire \in [Clients -> Seq(Messages(version))]

RestOK ==
  /\ commits \in Seq(Kinds)
  /\ local \subseteq 1..version
  /\ reader \in Off..version
  /\ asked \in [Clients -> BOOLEAN]
  /\ replies \in [Clients -> SUBSET Replies(version)]
  /\ trouble \in 0..MaxTrouble

HubInv == PeersOK /\ SignalsOK /\ ClientOK /\ WireOK /\ RestOK

LEMMA InvariantParts == HubInv => HubTypeOK /\ ShowsARealRoom
<1> SUFFICES ASSUME HubInv PROVE HubTypeOK /\ ShowsARealRoom
  OBVIOUS
<1>1. client \in [Clients -> Browsers(version)]
  BY DEF HubInv, ClientOK
<1>2. HubTypeOK
  BY <1>1 DEF HubInv, PeersOK, SignalsOK, WireOK, RestOK, HubTypeOK
<1>3. ASSUME NEW c \in Clients, client[c].view # NoRoom
      PROVE  client[c].view = Room(client[c].view.state)
  <2>1. PICK n \in 0..version : client[c].view = Room(n)
    BY <1>3 DEF HubInv, ClientOK, Real
  <2> QED
    BY <2>1, Rooms DEF HubInv, RestOK
<1> QED
  BY <1>2, <1>3 DEF ShowsARealRoom

\* The hub and the browsers of a room that does not change.
LEMMA ConstantRoom ==
  ASSUME commits' = commits
  PROVE  /\ version' = version
         /\ \A view : Real(view) <=> Real(view)'
         /\ \A n : Room(n) = Room(n)'
BY DEF version, Real, Room, roomRevision, documents

\* One browser is changed, or one peer, or messages are sent to one browser.
LEMMA BrowserSet ==
  ASSUME commits' = commits, ClientOK, NEW c \in Clients, NEW b, Sound(b),
         client' = [client EXCEPT ![c] = b]
  PROVE  ClientOK'
BY ConstantRoom DEF ClientOK, Sound

LEMMA PeerSet ==
  ASSUME commits' = commits, PeersOK, NEW c \in DOMAIN peers, NEW p \in Peers(version),
         p.ready <=> p.sync = "no", peers' = [peers EXCEPT ![c] = p]
  PROVE  PeersOK'
BY ConstantRoom DEF PeersOK

LEMMA Sent ==
  ASSUME commits' = commits, WireOK, NEW c \in Clients, NEW messages \in Seq(Messages(version)),
         send(c, messages)
  PROVE  WireOK'
<1>1. wire[c] \o messages \in Seq(Messages(version))
  BY DEF WireOK
<1> QED
  BY <1>1, ConstantRoom DEF WireOK, send

LEMMA BrowserIsSound ==
  ASSUME ClientOK, NEW c \in Clients
  PROVE  Sound(client[c])
BY DEF ClientOK, Sound

LEMMA Signalled ==
  ASSUME commits \in Seq(Kinds), commits' = commits, SignalsOK, NEW e \in 1..version,
         NEW cursor \in 0..version, requestRoomReconciliation(e, cursor)
  PROVE  SignalsOK'
<1>1. DOMAIN signals' = DOMAIN signals \cup {e}
  BY DEF requestRoomReconciliation
<1>2. \A f \in DOMAIN signals \cup {e} : signals'[f] \in 0..version
  BY DEF requestRoomReconciliation, SignalsOK, Larger
<1>3. signals' \in [DOMAIN signals' -> 0..version]
  BY <1>1, <1>2 DEF requestRoomReconciliation
<1>4. recon' \in [phase : {"idle", "reading", "read"}, target : 0..version, room : 0..version]
  <2>1. recon \in [phase : {"idle", "reading", "read"}, target : 0..version, room : 0..version]
    BY DEF SignalsOK
  <2>2. e \in 0..version /\ 0 \in 0..version
    BY Versions
  <2>3. recon' = recon \/ recon' = [phase |-> "reading", target |-> e, room |-> 0]
    BY DEF requestRoomReconciliation
  <2> QED
    BY <2>1, <2>2, <2>3
<1> QED
  BY <1>1, <1>3, <1>4, ConstantRoom DEF SignalsOK

-----------------------------------------------------------------------------
(* One step per action.                                                    *)

HubAndBrowsers == <<peers, signals, recon, client, wire>>

LEMMA Untouched ==
  ASSUME commits' = commits
  PROVE  /\ PeersOK /\ UNCHANGED peers => PeersOK'
         /\ SignalsOK /\ UNCHANGED <<signals, recon>> => SignalsOK'
         /\ ClientOK /\ UNCHANGED client => ClientOK'
         /\ WireOK /\ UNCHANGED wire => WireOK'
<1>1. PeersOK /\ UNCHANGED peers => PeersOK'
  BY ConstantRoom DEF PeersOK
<1>2. SignalsOK /\ UNCHANGED <<signals, recon>> => SignalsOK'
  BY ConstantRoom DEF SignalsOK
<1>3. ClientOK /\ UNCHANGED client => ClientOK'
  BY ConstantRoom DEF ClientOK
<1>4. WireOK /\ UNCHANGED wire => WireOK'
  BY ConstantRoom DEF WireOK
<1> QED
  BY <1>1, <1>2, <1>3, <1>4

\* A peer is new, or taken away.
LEMMA PeersComeAndGo ==
  ASSUME commits \in Seq(Kinds), commits' = commits, PeersOK
  PROVE  /\ \A c \in Clients :
              peers' = [d \in DOMAIN peers \cup {c} |-> IF d = c THEN NewPeer ELSE peers[d]]
                => PeersOK'
         /\ \A gone : peers' = [c \in DOMAIN peers \ gone |-> peers[c]] => PeersOK'
<1>1. NewPeer \in Peers(version) /\ NewPeer.ready = FALSE /\ NewPeer.sync = "tail"
  <2>1. version \in Nat /\ <<>> \in Seq(Entries(version))
    BY Versions
  <2> QED
    BY <2>1 DEF NewPeer, Peers
<1>2. ASSUME NEW c \in Clients,
             peers' = [d \in DOMAIN peers \cup {c} |-> IF d = c THEN NewPeer ELSE peers[d]]
      PROVE  PeersOK'
  BY <1>1, <1>2, ConstantRoom DEF PeersOK
<1>3. ASSUME NEW gone, peers' = [c \in DOMAIN peers \ gone |-> peers[c]]
      PROVE  PeersOK'
  BY <1>3, ConstantRoom DEF PeersOK
<1> QED
  BY <1>2, <1>3

LEMMA CommitStep ==
  ASSUME HubInv, NEW kinds \in Writes, NEW here, NEW by \in SUBSET Clients,
         Commit(kinds, here, by)
  PROVE  HubInv' /\ version' > version /\ UNCHANGED client
<1> DEFINE last == version + Len(kinds)
<1>1. kinds \in Seq(Kinds) /\ Len(kinds) \in {1, 2}
  <2>1. \A k \in Kinds : <<k>> \in Seq(Kinds) /\ Len(<<k>>) = 1
    OBVIOUS
  <2>2. \A k, l \in Kinds : <<k, l>> \in Seq(Kinds) /\ Len(<<k, l>>) = 2
    OBVIOUS
  <2>3. {"document", "live", "presence"} \subseteq Kinds
    BY DEF Kinds
  <2> QED
    BY <2>1, <2>2, <2>3 DEF Writes
<1>2. /\ commits \in Seq(Kinds) /\ commits' = commits \o kinds
      /\ commits' \in Seq(Kinds)
      /\ version \in Nat
  BY <1>1, Versions DEF HubInv, RestOK, Commit
<1>3. version' = last /\ version < version' /\ version' \in Nat
  <2>1. Len(commits \o kinds) = Len(commits) + Len(kinds)
    BY <1>1, <1>2
  <2>2. version' = Len(commits \o kinds) /\ version = Len(commits)
    BY <1>2 DEF version
  <2>3. version' = last
    BY <2>1, <2>2
  <2>4. version \in Nat /\ Len(kinds) \in {1, 2}
    BY <1>1, <1>2
  <2> QED
    BY <2>3, <2>4
<1>4. \A n \in 0..version : documents(n) = documents(n)' /\ Room(n) = Room(n)'
  <2>1. \A i \in 1..version : commits'[i] = commits[i]
    BY <1>1, <1>2 DEF version
  <2>2. ASSUME NEW n \in 0..version PROVE documents(n) = documents(n)'
    <3>0. version \in Nat
      BY <1>2
    <3>1. \A i \in 1..n : commits'[i] = commits[i]
      BY <2>1, <3>0
    <3> QED
      BY <3>1 DEF documents
  <2> QED
    BY <2>2 DEF Room, roomRevision
<1>5. /\ Peers(version) \subseteq Peers(version') /\ Replies(version) \subseteq Replies(version')
      /\ Seq(Messages(version)) \subseteq Seq(Messages(version'))
      /\ Browsers(version) \subseteq Browsers(version')
  BY <1>2, <1>3, SetsGrow
<1>6. PeersOK'
  BY <1>5 DEF HubInv, PeersOK, Commit, hubVars
<1>7. SignalsOK'
  BY <1>2, <1>3 DEF HubInv, SignalsOK, Commit, hubVars
<1>8. ClientOK'
  <2>1. \A view : Real(view) => Real(view)'
    BY <1>2, <1>3, <1>4 DEF Real
  <2> QED
    BY <1>5, <2>1 DEF HubInv, ClientOK, Commit
<1>9. WireOK'
  BY <1>5 DEF HubInv, WireOK, Commit
<1>10. RestOK'
  <2>1. local' \subseteq 1..version'
    <3>1. local' = local \/ local' = local \cup (version + 1 .. last)
      BY DEF Commit
    <3>2. local \subseteq 1..version
      BY DEF HubInv, RestOK
    <3>3. version \in Nat /\ version' \in Nat /\ version' = last /\ version < version'
      BY <1>2, <1>3
    <3>4. 1..version \subseteq 1..version' /\ version + 1 .. version' \subseteq 1..version'
      BY <3>3
    <3>5. version + 1 .. last = version + 1 .. version'
      BY <3>3, Zenon
    <3> HIDE DEF last
    <3> QED
      BY <3>1, <3>2, <3>4, <3>5
  <2>2. reader' \in Off..version'
    BY <1>2, <1>3 DEF HubInv, RestOK, Commit, hubVars, Off
  <2>3. replies' \in [Clients -> SUBSET Replies(version')]
    <3>1. (kinds[Len(kinds)] = "presence") \in BOOLEAN
      OBVIOUS
    <3>2. last \in 0..version'
      BY <1>2, <1>3
    <3>3. [of |-> "own", delta |-> kinds[Len(kinds)] = "presence", room |-> last]
            \in Replies(version')
      BY <3>1, <3>2 DEF Replies
    <3>4. replies \in [Clients -> SUBSET Replies(version')]
      BY <1>5 DEF HubInv, RestOK
    <3> QED
      BY <3>3, <3>4 DEF Commit
  <2> QED
    BY <1>2, <2>1, <2>2, <2>3 DEF HubInv, RestOK, Commit
<1> QED
  BY <1>3, <1>6, <1>7, <1>8, <1>9, <1>10 DEF HubInv, Commit

\* Every other step leaves the room as it is.
LEMMA StepsOfOnePeer ==
  ASSUME HubInv, NEW c \in Clients,
         Attach(c) \/ RequestSynchronization(c) \/ ReadStreamTail(c) \/ ReadRoom(c)
  PROVE  HubInv' /\ UNCHANGED commits /\ \A d \in Clients : client'[d].view = client[d].view
<1>0. /\ commits \in Seq(Kinds) /\ commits' = commits /\ version' = version /\ version \in Nat
      /\ PeersOK /\ SignalsOK /\ ClientOK /\ WireOK /\ RestOK
  BY Versions, ConstantRoom DEF HubInv, RestOK, Attach, RequestSynchronization, ReadStreamTail, ReadRoom
<1>1. SignalsOK' /\ WireOK'
  BY <1>0, Untouched
     DEF Attach, RequestSynchronization, ReadStreamTail, ReadRoom
<1>2. RestOK'
  <2>1. reader' = reader \/ reader' = version
    BY DEF Attach, RequestSynchronization, ReadStreamTail, ReadRoom
  <2>2. reader' \in Off..version
    BY <1>0, <2>1 DEF RestOK, Off
  <2>3. asked' \in [Clients -> BOOLEAN]
    BY <1>0 DEF RestOK, Attach, RequestSynchronization, ReadStreamTail, ReadRoom
  <2>4. UNCHANGED <<commits, local, replies, trouble>>
    BY DEF Attach, RequestSynchronization, ReadStreamTail, ReadRoom
  <2> QED
    BY <1>0, <2>2, <2>3, <2>4 DEF RestOK
<1>3. CASE Attach(c)
  <2>1. PeersOK'
    BY <1>0, <1>3, PeersComeAndGo DEF Attach
  <2> DEFINE b1 == [client[c] EXCEPT !.conn = "open"]
             b2 == [b1 EXCEPT !.awaiting = FALSE]
  <2>2. client' = [client EXCEPT ![c] = b2]
    BY <1>3, Zenon DEF Attach
  <2>3. Sound(b1) /\ b1.view = client[c].view
    BY <1>0, BrowserIsSound, Fields
  <2> HIDE DEF b1
  <2>4. Sound(b2) /\ b2.view = client[c].view
    BY <2>3, Fields
  <2> HIDE DEF b2
  <2>5. ClientOK'
    BY <1>0, <2>2, <2>4, BrowserSet
  <2>6. \A d \in Clients : client'[d].view = client[d].view
    BY <1>0, <2>2, <2>4 DEF ClientOK
  <2> QED
    BY <1>0, <1>1, <1>2, <2>1, <2>5, <2>6 DEF HubInv
<1>4. CASE ~Attach(c)
  <2>1. client' = client
    BY <1>4 DEF RequestSynchronization, ReadStreamTail, ReadRoom
  <2>2. ClientOK'
    BY <1>0, <2>1, Untouched
  <2>3. PeersOK'
    <3>1. CASE RequestSynchronization(c)
      <4>1. CASE c \notin DOMAIN peers
        BY <1>0, <3>1, <4>1, Untouched DEF RequestSynchronization
      <4>2. CASE c \in DOMAIN peers
        <5>0. peers[c] \in Peers(version)
          BY <1>0, <4>2 DEF PeersOK
        <5> DEFINE p1 == [peers[c] EXCEPT !.sync = "tail"]
                   p2 == [p1 EXCEPT !.ready = FALSE]
                   q == [peers[c] EXCEPT !.again = TRUE]
        <5>1. p2.sync = "tail" /\ p2.ready = FALSE /\ q.sync = peers[c].sync
              /\ q.ready = peers[c].ready
          BY <5>0 DEF Peers
        <5>2. p1 \in Peers(version) /\ q \in Peers(version)
          BY <1>0, <5>0, PeerFields
        <5>3. peers' = [peers EXCEPT ![c] = p2] \/ peers' = [peers EXCEPT ![c] = q]
          BY <3>1, <4>2, Zenon DEF RequestSynchronization
        <5> HIDE DEF p1
        <5>4. p2 \in Peers(version)
          BY <1>0, <5>2, PeerFields
        <5> HIDE DEF p2, q
        <5>5. q.ready <=> q.sync = "no"
          BY <1>0, <4>2, <5>1 DEF PeersOK
        <5> QED
          BY <1>0, <4>2, <5>1, <5>2, <5>3, <5>4, <5>5, PeerSet
      <4> QED
        BY <4>1, <4>2
    <3>2. CASE ReadStreamTail(c)
      <4> DEFINE p1 == [peers[c] EXCEPT !.sync = "room"]
                 p2 == [p1 EXCEPT !.tail = version]
      <4>1. c \in DOMAIN peers /\ peers[c].sync = "tail" /\ peers[c] \in Peers(version)
            /\ version \in 0..version
        BY <1>0, <3>2 DEF ReadStreamTail, PeersOK
      <4>2. p2.sync = "room" /\ p2.ready = peers[c].ready
        BY <4>1 DEF Peers
      <4>3. p1 \in Peers(version)
        BY <1>0, <4>1, PeerFields
      <4>4. peers' = [peers EXCEPT ![c] = p2]
        BY <3>2, Zenon DEF ReadStreamTail
      <4> HIDE DEF p1
      <4>5. p2 \in Peers(version)
        BY <1>0, <4>1, <4>3, PeerFields
      <4>6. p2.ready <=> p2.sync = "no"
        BY <1>0, <4>1, <4>2 DEF PeersOK
      <4> HIDE DEF p2
      <4> QED
        BY <1>0, <4>1, <4>4, <4>5, <4>6, PeerSet
    <3>3. CASE ReadRoom(c)
      <4> DEFINE p1 == [peers[c] EXCEPT !.sync = "send"]
                 p2 == [p1 EXCEPT !.room = version]
      <4>1. c \in DOMAIN peers /\ peers[c].sync = "room" /\ peers[c] \in Peers(version)
            /\ version \in 0..version
        BY <1>0, <3>3 DEF ReadRoom, PeersOK
      <4>2. p2.sync = "send" /\ p2.ready = peers[c].ready
        BY <4>1 DEF Peers
      <4>3. p1 \in Peers(version)
        BY <1>0, <4>1, PeerFields
      <4>4. peers' = [peers EXCEPT ![c] = p2]
        BY <3>3, Zenon DEF ReadRoom
      <4> HIDE DEF p1
      <4>5. p2 \in Peers(version)
        BY <1>0, <4>1, <4>3, PeerFields
      <4>6. p2.ready <=> p2.sync = "no"
        BY <1>0, <4>1, <4>2 DEF PeersOK
      <4> HIDE DEF p2
      <4> QED
        BY <1>0, <4>1, <4>4, <4>5, <4>6, PeerSet
    <3> QED
      BY <1>4, <3>1, <3>2, <3>3
  <2> QED
    BY <1>0, <1>1, <1>2, <2>1, <2>2, <2>3 DEF HubInv
<1> QED
  BY <1>3, <1>4

LEMMA SynchronizeStep ==
  ASSUME HubInv, NEW c \in Clients, Synchronize(c)
  PROVE  HubInv' /\ UNCHANGED <<commits, client>>
<1>0. /\ commits \in Seq(Kinds) /\ commits' = commits /\ version' = version /\ version \in Nat
      /\ PeersOK /\ SignalsOK /\ ClientOK /\ WireOK /\ RestOK
  BY Versions, ConstantRoom DEF HubInv, RestOK, Synchronize
<1>1. c \in DOMAIN peers /\ peers[c] \in Peers(version) /\ peers[c].sync = "send"
      /\ (peers[c].ready <=> peers[c].sync = "no")
  BY <1>0 DEF Synchronize, PeersOK
<1>2. PeersOK'
  <2> DEFINE peer == based(peers[c])
             p == IF peer.pending = <<>> THEN synchronized(peer) ELSE [peer EXCEPT !.sync = "flush"]
  <2>1. peers' = [peers EXCEPT ![c] = p]
    BY DEF Synchronize
  <2>2. peer \in Peers(version) /\ peer.ready = peers[c].ready
    BY <1>0, <1>1, Based
  <2> HIDE DEF peer
  <2>3. synchronized(peer) \in Peers(version)
        /\ (synchronized(peer).ready <=> synchronized(peer).sync = "no")
    BY <1>0, <2>2, Synchronized
  <2>4. [peer EXCEPT !.sync = "flush"] \in Peers(version)
    BY <1>0, <2>2, PeerFields
  <2>5. [peer EXCEPT !.sync = "flush"].ready = peer.ready
        /\ [peer EXCEPT !.sync = "flush"].sync = "flush"
    BY <2>2 DEF Peers
  <2>6. p \in Peers(version) /\ (p.ready <=> p.sync = "no")
    BY <1>1, <2>2, <2>3, <2>4, <2>5
  <2> HIDE DEF p
  <2> QED
    BY <1>0, <1>1, <2>1, <2>6, PeerSet
<1>3. WireOK'
  <2> DEFINE m == [type |-> "snapshot", cursor |-> peers[c].tail, room |-> peers[c].room]
  <2>1. m \in Messages(version)
    BY <1>1 DEF Peers, Messages
  <2>2. <<m>> \in Seq(Messages(version)) /\ send(c, <<m>>)
    BY <2>1 DEF Synchronize
  <2> HIDE DEF m
  <2> QED
    BY <1>0, <2>2, Sent
<1>4. SignalsOK' /\ ClientOK'
  BY <1>0, Untouched DEF Synchronize
<1>5. RestOK'
  BY <1>0 DEF RestOK, Synchronize
<1> QED
  BY <1>2, <1>3, <1>4, <1>5 DEF HubInv, Synchronize

LEMMA FlushStep ==
  ASSUME HubInv, NEW c \in Clients, FlushPending(c)
  PROVE  HubInv' /\ UNCHANGED <<commits, client>>
<1>0. /\ commits \in Seq(Kinds) /\ commits' = commits /\ version' = version /\ version \in Nat
      /\ PeersOK /\ SignalsOK /\ ClientOK /\ WireOK /\ RestOK
  BY Versions, ConstantRoom DEF HubInv, RestOK, FlushPending
<1> DEFINE pending == peers[c].pending
           d(i) == deliverEvent(peers[c], pending[i].event, pending[i].cursor)
           left(i) == SubSeq(pending, 1, i - 1) \o SubSeq(pending, i + 1, Len(pending))
           peer(i) == [d(i).peer EXCEPT !.pending = left(i)]
<1>1. c \in DOMAIN peers /\ peers[c] \in Peers(version) /\ peers[c].sync = "flush"
      /\ (peers[c].ready <=> peers[c].sync = "no")
  BY <1>0 DEF FlushPending, PeersOK
<1>2. PICK i \in DOMAIN pending :
        /\ peers' = [peers EXCEPT ![c] =
             IF left(i) = <<>> THEN synchronized(peer(i)) ELSE peer(i)]
        /\ send(c, d(i).out)
        /\ requestRoomReconciliation(pending[i].event, pending[i].cursor)
             \/ UNCHANGED <<signals, recon>>
  BY Zenon DEF FlushPending
<1>3. pending \in Seq(Entries(version))
  BY <1>1 DEF Peers
<1>4. pending[i].event \in 1..version /\ pending[i].cursor \in 0..version
  <2> HIDE DEF pending
  <2>1. pending[i] \in Entries(version)
    BY <1>3
  <2> QED
    BY <2>1 DEF Entries
<1>5. left(i) \in Seq(Entries(version))
  <2>1. SubSeq(pending, 1, i - 1) \in Seq(Entries(version))
        /\ SubSeq(pending, i + 1, Len(pending)) \in Seq(Entries(version))
    <3>1. i \in 1..Len(pending) /\ Len(pending) \in Nat
      BY <1>3
    <3>2. \A j \in 1..Len(pending) : pending[j] \in Entries(version)
      BY <1>3
    <3>3. \A j \in 1..i - 1 : pending[j] \in Entries(version)
      BY <3>1, <3>2
    <3>4. \A j \in i + 1 .. Len(pending) : pending[j] \in Entries(version)
      BY <3>1, <3>2
    <3> HIDE DEF pending
    <3> QED
      BY <1>3, <3>1, <3>3, <3>4, SubSeqProperties
  <2> QED
    BY <2>1
<1>6. /\ d(i).peer \in Peers(version) /\ d(i).peer.ready = peers[c].ready
      /\ d(i).peer.sync = peers[c].sync /\ d(i).out \in Seq(Messages(version))
  BY <1>0, <1>1, <1>4, Delivered
<1>7. PeersOK'
  <2> HIDE DEF left, d
  <2>1. peer(i) \in Peers(version)
    BY <1>0, <1>5, <1>6, PeerFields
  <2>2. peer(i).ready = peers[c].ready /\ peer(i).sync = peers[c].sync
    BY <1>6 DEF Peers
  <2> HIDE DEF peer
  <2>3. synchronized(peer(i)) \in Peers(version)
        /\ (synchronized(peer(i)).ready <=> synchronized(peer(i)).sync = "no")
    BY <1>0, <2>1, Synchronized
  <2> DEFINE p == IF left(i) = <<>> THEN synchronized(peer(i)) ELSE peer(i)
  <2>4. p \in Peers(version) /\ (p.ready <=> p.sync = "no")
    BY <1>1, <2>1, <2>2, <2>3
  <2>5. peers' = [peers EXCEPT ![c] = p]
    BY <1>2
  <2> HIDE DEF p
  <2> QED
    BY <1>0, <1>1, <2>4, <2>5, PeerSet
<1>8. WireOK'
  <2> HIDE DEF d
  <2> QED
    BY <1>0, <1>2, <1>6, Sent
<1>9. SignalsOK'
  BY <1>0, <1>2, <1>4, Signalled, Untouched
<1>10. ClientOK'
  BY <1>0, Untouched DEF FlushPending
<1>11. RestOK'
  BY <1>0 DEF RestOK, FlushPending
<1> QED
  BY <1>7, <1>8, <1>9, <1>10, <1>11 DEF HubInv, FlushPending

LEMMA Broadcast ==
  ASSUME HubInv, commits' = commits, NEW e \in 1..version, NEW cursor \in 0..version,
         broadcastEvent(e, cursor)
  PROVE  PeersOK' /\ SignalsOK' /\ WireOK'
<1>0. /\ commits \in Seq(Kinds) /\ version' = version /\ version \in Nat
      /\ PeersOK /\ SignalsOK /\ WireOK
  BY Versions, ConstantRoom DEF HubInv, RestOK
<1> DEFINE d(c) == deliverEvent(peers[c], e, cursor)
           ready == {c \in DOMAIN peers : peers[c].ready}
           queued(c) == [peers[c] EXCEPT !.pending = queuePending(peers[c].pending, e, cursor)]
<1>1. ASSUME NEW c \in DOMAIN peers
      PROVE  /\ d(c).peer \in Peers(version) /\ d(c).out \in Seq(Messages(version))
             /\ d(c).peer.ready <=> d(c).peer.sync = "no"
             /\ queued(c) \in Peers(version)
             /\ queued(c).ready <=> queued(c).sync = "no"
  <2>1. peers[c] \in Peers(version) /\ (peers[c].ready <=> peers[c].sync = "no")
    BY <1>0 DEF PeersOK
  <2>2. /\ d(c).peer \in Peers(version) /\ d(c).out \in Seq(Messages(version))
        /\ d(c).peer.ready = peers[c].ready /\ d(c).peer.sync = peers[c].sync
    BY <1>0, <2>1, Delivered
  <2>3. peers[c].pending \in Seq(Entries(version))
    BY <2>1 DEF Peers
  <2>4. queuePending(peers[c].pending, e, cursor) \in Seq(Entries(version))
    BY <1>0, <2>3, HubAssumption, Queued
  <2>5. queued(c) \in Peers(version)
    BY <1>0, <2>1, <2>4, PeerFields
  <2>6. queued(c).ready = peers[c].ready /\ queued(c).sync = peers[c].sync
    BY <2>1 DEF Peers
  <2> QED
    BY <2>1, <2>2, <2>5, <2>6
<1>2. PeersOK'
  <2>1. peers' = [c \in DOMAIN peers |-> IF c \in ready THEN d(c).peer ELSE queued(c)]
    BY Zenon DEF broadcastEvent
  <2> HIDE DEF d, queued, ready
  <2>2. \A c \in DOMAIN peers :
          peers'[c] \in Peers(version) /\ (peers'[c].ready <=> peers'[c].sync = "no")
    BY <1>1, <2>1
  <2> QED
    BY <1>0, <2>1, <2>2 DEF PeersOK
<1>3. WireOK'
  <2>1. wire' = [c \in Clients |-> IF c \in ready THEN wire[c] \o d(c).out ELSE wire[c]]
    BY Zenon DEF broadcastEvent
  <2>2. ready \subseteq DOMAIN peers
    OBVIOUS
  <2> HIDE DEF d, ready
  <2>3. ASSUME NEW c \in Clients PROVE wire'[c] \in Seq(Messages(version))
    <3>1. wire[c] \in Seq(Messages(version))
      BY <1>0 DEF WireOK
    <3>2. c \in ready => d(c).out \in Seq(Messages(version))
      BY <1>1, <2>2
    <3>3. c \in ready => wire[c] \o d(c).out \in Seq(Messages(version))
      BY <3>1, <3>2
    <3> QED
      BY <2>1, <3>1, <3>3
  <2> QED
    BY <1>0, <2>1, <2>3 DEF WireOK
<1>4. SignalsOK'
  <2>1. requestRoomReconciliation(e, cursor) \/ UNCHANGED <<signals, recon>>
    BY DEF broadcastEvent
  <2> QED
    BY <1>0, <2>1, Signalled, Untouched
<1> QED
  BY <1>2, <1>3, <1>4

LEMMA BroadcastStep ==
  ASSUME HubInv, ReadStream \/ \E e \in local : PublishLocal(e)
  PROVE  HubInv' /\ UNCHANGED <<commits, client>>
<1>0. /\ commits \in Seq(Kinds) /\ commits' = commits /\ version' = version /\ version \in Nat
      /\ ClientOK /\ RestOK /\ client' = client
  BY Versions, ConstantRoom DEF HubInv, RestOK, ReadStream, PublishLocal
<1>1. PeersOK' /\ SignalsOK' /\ WireOK'
  <2>1. CASE ReadStream
    <3>1. reader' \in 1..version /\ reader' \in 0..version
      BY <1>0, <2>1 DEF ReadStream, RestOK, Off
    <3>2. broadcastEvent(reader', reader')
      BY <2>1 DEF ReadStream
    <3>3. PICK e \in 1..version : e = reader' /\ e \in 0..version
      BY <3>1
    <3>4. broadcastEvent(e, e)
      BY <3>2, <3>3
    <3> QED
      BY <1>0, <3>3, <3>4, Broadcast
  <2>2. ASSUME NEW e \in local, PublishLocal(e) PROVE PeersOK' /\ SignalsOK' /\ WireOK'
    <3>1. e \in 1..version /\ 0 \in 0..version
      BY <1>0 DEF RestOK
    <3> QED
      BY <1>0, <2>2, <3>1, Broadcast DEF PublishLocal
  <2> QED
    BY <2>1, <2>2
<1>2. RestOK'
  <2>1. reader' \in Off..version
    BY <1>0 DEF RestOK, ReadStream, PublishLocal, Off
  <2>2. local' \subseteq 1..version
    BY <1>0 DEF RestOK, ReadStream, PublishLocal
  <2>3. UNCHANGED <<asked, replies, trouble>>
    BY DEF ReadStream, PublishLocal
  <2> QED
    BY <1>0, <2>1, <2>2, <2>3 DEF RestOK
<1> QED
  BY <1>0, <1>1, <1>2, Untouched DEF HubInv

LEMMA CaughtUp ==
  ASSUME commits \in Seq(Kinds), NEW peer \in Peers(version), NEW n \in 0..version,
         NEW cursor \in 0..version, NEW whole \in BOOLEAN
  PROVE  /\ caughtUp(peer, n, cursor) \in Peers(version)
         /\ caughtUp(peer, n, cursor).ready = peer.ready
         /\ caughtUp(peer, n, cursor).sync = peer.sync
         /\ catchUpMessages(peer, n, cursor, whole) \in Seq(Messages(version))
<1>0. version \in Nat /\ roomRevision(n) \in 0..version
  BY Versions, Documents
<1> DEFINE p1 == [peer EXCEPT !.state = n]
           p2 == [p1 EXCEPT !.doc = roomRevision(n)]
           p3 == [p2 EXCEPT !.cursor = cursor]
           q == [peer EXCEPT !.cursor = cursor]
<1>1. caughtUp(peer, n, cursor) \in {p3, q}
  BY Zenon DEF caughtUp
<1>2. p3.ready = peer.ready /\ p3.sync = peer.sync /\ q.ready = peer.ready /\ q.sync = peer.sync
  BY DEF Peers
<1>3. q \in Peers(version) /\ p1 \in Peers(version)
  BY <1>0, PeerFields
<1>4. p3 \in Peers(version)
  <2> HIDE DEF p1
  <2>1. p2 \in Peers(version)
    BY <1>0, <1>3, PeerFields
  <2> HIDE DEF p2
  <2> QED
    BY <1>0, <2>1, PeerFields
<1>5. catchUpMessages(peer, n, cursor, whole) \in Seq(Messages(version))
  <2> DEFINE snapshot == [type |-> "snapshot", cursor |-> cursor, room |-> n]
             patch == [type |-> "patch", cursor |-> cursor, room |-> n,
                       base |-> [state |-> peer.state, doc |-> peer.doc]]
             checkpoint == [type |-> "checkpoint", cursor |-> cursor]
  <2>1. snapshot \in Messages(version) /\ checkpoint \in Messages(version)
    BY DEF Messages
  <2>2. patch \in Messages(version)
    <3>1. [state |-> peer.state, doc |-> peer.doc] \in [state : -1..version, doc : -1..version]
      BY DEF Peers
    <3> QED
      BY <3>1 DEF Messages
  <2>3. catchUpMessages(peer, n, cursor, whole) \in {<<snapshot>>, <<patch>>, <<checkpoint>>, <<>>}
    BY Zenon DEF catchUpMessages
  <2> HIDE DEF snapshot, patch, checkpoint
  <2>4. /\ <<snapshot>> \in Seq(Messages(version)) /\ <<patch>> \in Seq(Messages(version))
        /\ <<checkpoint>> \in Seq(Messages(version)) /\ <<>> \in Seq(Messages(version))
    BY <2>1, <2>2
  <2> QED
    BY <2>3, <2>4, Zenon
<1> HIDE DEF p3, q
<1> QED
  BY <1>1, <1>2, <1>3, <1>4, <1>5

\* A draft's event moves cursors on, and says so; it touches nothing else.
Drafted(c) ==
  /\ peers[c].ready
  /\ peers'[c] = [peers[c] EXCEPT !.cursor = reader]
  /\ wire'[c] = Append(wire[c], [type |-> "draft", cursor |-> reader])

LEMMA DraftRead ==
  ASSUME HubInv, ReadDraft
  PROVE  /\ UNCHANGED <<commits, local, reader, signals, recon, asked, client, replies, trouble>>
         /\ reader \in 0..version
         /\ peers' = [c \in DOMAIN peers |-> peers'[c]] /\ wire' = [c \in Clients |-> wire'[c]]
         /\ \A c \in DOMAIN peers : Drafted(c) \/ (peers'[c] = peers[c] /\ wire'[c] = wire[c])
         /\ \A c \in Clients \ DOMAIN peers : wire'[c] = wire[c]
<1> DEFINE behind == {c \in DOMAIN peers : peers[c].ready /\ peers[c].cursor < reader}
<1>1. /\ UNCHANGED <<commits, local, reader, signals, recon, asked, client, replies, trouble>>
      /\ peers' = [c \in DOMAIN peers |->
           IF c \in behind THEN [peers[c] EXCEPT !.cursor = reader] ELSE peers[c]]
      /\ wire' = [c \in Clients |->
           IF c \in behind THEN Append(wire[c], [type |-> "draft", cursor |-> reader]) ELSE wire[c]]
      /\ behind # {}
  BY DEF ReadDraft
<1>2. DOMAIN peers \subseteq Clients /\ DOMAIN wire = Clients
  BY DEF HubInv, PeersOK, WireOK
<1>3. reader \in 0..version
  <2>1. PICK c \in DOMAIN peers : peers[c].cursor < reader
    BY <1>1
  <2>2. peers[c].cursor \in 0..version /\ reader \in -1..version /\ version \in Nat
    BY Versions DEF HubInv, PeersOK, RestOK, Peers, Off
  <2> QED
    BY <2>1, <2>2
<1>4. ASSUME NEW c \in DOMAIN peers
      PROVE  Drafted(c) \/ (peers'[c] = peers[c] /\ wire'[c] = wire[c])
  <2>1. CASE c \in behind
    BY <1>1, <1>2, <2>1 DEF Drafted
  <2>2. CASE c \notin behind
    BY <1>1, <1>2, <2>2
  <2> QED
    BY <2>1, <2>2
<1> QED
  BY <1>1, <1>2, <1>3, <1>4

LEMMA DraftStep ==
  ASSUME HubInv, ReadDraft
  PROVE  HubInv' /\ UNCHANGED <<commits, client>>
<1>0. /\ commits \in Seq(Kinds) /\ commits' = commits /\ version' = version /\ version \in Nat
      /\ PeersOK /\ WireOK /\ reader \in 0..version
  BY Versions, ConstantRoom, DraftRead DEF HubInv, RestOK
<1>1. ASSUME NEW c \in DOMAIN peers
      PROVE  /\ peers'[c] \in Peers(version) /\ (peers'[c].ready <=> peers'[c].sync = "no")
             /\ wire'[c] \in Seq(Messages(version))
  <2>1. /\ peers[c] \in Peers(version) /\ (peers[c].ready <=> peers[c].sync = "no")
        /\ wire[c] \in Seq(Messages(version))
    BY <1>0 DEF PeersOK, WireOK
  <2>2. CASE Drafted(c)
    <3> DEFINE q == [peers[c] EXCEPT !.cursor = reader]
               m == [type |-> "draft", cursor |-> reader]
    <3>1. q \in Peers(version) /\ q.ready = peers[c].ready /\ q.sync = peers[c].sync
      BY <1>0, <2>1 DEF Peers
    <3>2. m \in Messages(version)
      BY <1>0 DEF Messages
    <3>3. peers'[c] = q /\ wire'[c] = Append(wire[c], m)
      BY <2>2 DEF Drafted
    <3> HIDE DEF q, m
    <3> QED
      BY <2>1, <3>1, <3>2, <3>3
  <2>3. CASE peers'[c] = peers[c] /\ wire'[c] = wire[c]
    BY <2>1, <2>3
  <2> QED
    BY <2>2, <2>3, DraftRead
<1>2. PeersOK'
  <2>1. DOMAIN peers' = DOMAIN peers /\ peers' = [c \in DOMAIN peers |-> peers'[c]]
    BY DraftRead
  <2> QED
    BY <1>0, <1>1, <2>1 DEF PeersOK
<1>3. WireOK'
  <2>1. wire' = [c \in Clients |-> wire'[c]] /\ \A c \in Clients \ DOMAIN peers : wire'[c] = wire[c]
    BY DraftRead
  <2>2. \A c \in Clients : wire'[c] \in Seq(Messages(version))
    BY <1>0, <1>1, <2>1 DEF WireOK
  <2> QED
    BY <1>0, <2>1, <2>2 DEF WireOK
<1>4. SignalsOK' /\ ClientOK' /\ client' = client
  BY <1>0, Untouched, DraftRead DEF HubInv
<1>5. RestOK'
  BY <1>0, DraftRead DEF HubInv, RestOK
<1> QED
  BY <1>0, <1>2, <1>3, <1>4, <1>5 DEF HubInv

LEMMA ReadReconciledStep ==
  ASSUME HubInv, ReadReconciledRoom
  PROVE  HubInv' /\ UNCHANGED <<commits, client>>
<1>0. /\ commits \in Seq(Kinds) /\ commits' = commits /\ version' = version /\ version \in Nat
      /\ SignalsOK /\ RestOK
  BY Versions, ConstantRoom DEF HubInv, RestOK, ReadReconciledRoom
<1>1. SignalsOK'
  <2>1. recon' \in [phase : {"idle", "reading", "read"}, target : 0..version, room : 0..version]
    <3>1. recon \in [phase : {"idle", "reading", "read"}, target : 0..version, room : 0..version]
      BY <1>0 DEF SignalsOK
    <3>2. recon' = [recon EXCEPT !.phase = "read", !.room = version] /\ version \in 0..version
      BY <1>0 DEF ReadReconciledRoom
    <3> QED
      BY <3>1, <3>2
  <2> QED
    BY <1>0, <2>1 DEF SignalsOK, ReadReconciledRoom
<1>2. RestOK'
  BY <1>0 DEF RestOK, ReadReconciledRoom
<1> QED
  BY <1>0, <1>1, <1>2, Untouched DEF HubInv, ReadReconciledRoom

\* The greatest of a peer's cursor and the cursors of the signals satisfied.
LEMMA GreatestCursor ==
  ASSUME NEW n \in Nat, NEW K \in SUBSET (0..n), K # {}
  PROVE  /\ (CHOOSE k \in K : \A l \in K : l <= k) \in K
         /\ (CHOOSE k \in K : \A l \in K : l <= k) \in 0..n
         /\ \A m \in K : m <= (CHOOSE k \in K : \A l \in K : l <= k)
<1> DEFINE S == {n - k : k \in K}
<1>1. \A s \in S : s \in Nat
  OBVIOUS
<1>2. S \subseteq Nat /\ S # {}
  BY <1>1
<1>3. PICK s \in S : \A t \in S : ~(<<t, s>> \in OpToRel(<, Nat))
  <2> HIDE DEF S
  <2> QED
    BY <1>2, NatLessThanWellFounded, WFMin
<1>4. \A t \in S : ~(t < s)
  BY <1>1, <1>3 DEF OpToRel
<1>5. \E k \in K : \A l \in K : l <= k
  <2>1. PICK k \in K : s = n - k
    OBVIOUS
  <2>2. ASSUME NEW l \in K PROVE l <= k
    <3>1. n - l \in S
      OBVIOUS
    <3>2. ~(n - l < n - k)
      BY <1>4, <2>1, <3>1
    <3>3. k \in Int /\ l \in Int
      OBVIOUS
    <3> QED
      BY <3>2, <3>3
  <2> QED
    BY <2>2
<1> QED
  BY <1>5

LEMMA ReconcileStep ==
  ASSUME HubInv, NEW whole \in BOOLEAN, ReconcileRoom(whole)
  PROVE  HubInv' /\ UNCHANGED <<commits, client>>
<1>0. /\ commits \in Seq(Kinds) /\ commits' = commits /\ version' = version /\ version \in Nat
      /\ PeersOK /\ SignalsOK /\ ClientOK /\ WireOK /\ RestOK
      /\ UNCHANGED <<local, reader, asked, client, replies, trouble>>
  BY Versions, ConstantRoom DEF HubInv, RestOK, ReconcileRoom
<1>1. RestOK' /\ ClientOK'
  BY <1>0, Untouched DEF RestOK
<1>2. CASE DOMAIN peers = {}
  <2>1. signals' = NoEvents /\ recon' = Idle /\ UNCHANGED <<peers, wire>>
    BY <1>2 DEF ReconcileRoom
  <2>2. SignalsOK'
    BY <1>0, <2>1 DEF SignalsOK, NoEvents, Idle
  <2> QED
    BY <1>0, <1>1, <2>1, <2>2, Untouched DEF HubInv
<1>3. CASE DOMAIN peers # {}
  <2> DEFINE n == recon.room
             satisfied == {e \in DOMAIN signals : e <= n}
             rest == DOMAIN signals \ satisfied
             cursors(peer) == {peer.cursor} \cup {signals[e] : e \in satisfied}
             cursorOf(peer) == CHOOSE k \in cursors(peer) : \A l \in cursors(peer) : l <= k
             next(c) == caughtUp(peers[c], n, cursorOf(peers[c]))
             messages(c) == catchUpMessages(peers[c], n, cursorOf(peers[c]), whole)
  <2>1. /\ peers' = [c \in DOMAIN peers |-> IF peers[c].ready THEN next(c) ELSE peers[c]]
        /\ wire' = [c \in Clients |->
             IF c \in DOMAIN peers /\ peers[c].ready THEN wire[c] \o messages(c) ELSE wire[c]]
        /\ signals' = [e \in rest |-> signals[e]]
        /\ recon' = IF rest = {} THEN Idle
                    ELSE [phase |-> "reading", room |-> 0,
                          target |-> CHOOSE e \in rest : \A f \in rest : f <= e]
    BY <1>3, Zenon DEF ReconcileRoom
  <2>2. n \in 0..version
    BY <1>0 DEF SignalsOK
  <2>3. ASSUME NEW c \in DOMAIN peers
        PROVE  /\ next(c) \in Peers(version) /\ next(c).ready = peers[c].ready
               /\ next(c).sync = peers[c].sync
               /\ messages(c) \in Seq(Messages(version))
    <3>1. peers[c] \in Peers(version)
      BY <1>0 DEF PeersOK
    <3>2. cursors(peers[c]) \in SUBSET (0..version) /\ cursors(peers[c]) # {}
      <4>1. peers[c].cursor \in 0..version
        BY <3>1 DEF Peers
      <4>2. \A e \in satisfied : signals[e] \in 0..version
        BY <1>0 DEF SignalsOK
      <4> QED
        BY <4>1, <4>2
    <3>3. cursorOf(peers[c]) \in 0..version
      <4> HIDE DEF cursors
      <4> QED
        BY <1>0, <3>2, GreatestCursor
    <3> HIDE DEF cursorOf, n
    <3> QED
      BY <1>0, <2>2, <3>1, <3>3, CaughtUp
  <2> HIDE DEF next, messages
  <2>4. PeersOK'
    <3>1. \A c \in DOMAIN peers :
            peers'[c] \in Peers(version) /\ (peers'[c].ready <=> peers'[c].sync = "no")
      BY <1>0, <2>1, <2>3 DEF PeersOK
    <3> QED
      BY <1>0, <2>1, <3>1 DEF PeersOK
  <2>5. WireOK'
    <3>1. ASSUME NEW c \in Clients PROVE wire'[c] \in Seq(Messages(version))
      <4>1. wire[c] \in Seq(Messages(version))
        BY <1>0 DEF WireOK
      <4>2. c \in DOMAIN peers => wire[c] \o messages(c) \in Seq(Messages(version))
        BY <2>3, <4>1
      <4> QED
        BY <2>1, <4>1, <4>2
    <3> QED
      BY <1>0, <2>1, <3>1 DEF WireOK
  <2>6. SignalsOK'
    <3>1. rest \subseteq 1..version /\ rest \in SUBSET (0..version)
      BY <1>0 DEF SignalsOK
    <3> HIDE DEF rest
    <3>2. recon' \in [phase : {"idle", "reading", "read"}, target : 0..version, room : 0..version]
      <4>1. CASE rest = {}
        BY <1>0, <2>1, <4>1 DEF Idle
      <4>2. CASE rest # {}
        <5> DEFINE target == CHOOSE e \in rest : \A f \in rest : f <= e
        <5>1. target \in 0..version /\ 0 \in 0..version
          <6>1. target \in 0..version
            BY <1>0, <3>1, <4>2, GreatestCursor
          <6> QED
            BY <1>0, <6>1
        <5>2. recon' = [phase |-> "reading", room |-> 0, target |-> target]
          BY <2>1, <4>2
        <5> HIDE DEF target
        <5> QED
          BY <5>1, <5>2
      <4> QED
        BY <4>1, <4>2
    <3>3. \A e \in rest : signals[e] \in 0..version
      BY <1>0 DEF SignalsOK, rest
    <3>4. DOMAIN signals' = rest /\ signals' \in [rest -> 0..version]
      BY <2>1, <3>3
    <3> QED
      BY <1>0, <3>1, <3>2, <3>4 DEF SignalsOK
  <2> QED
    BY <1>0, <1>1, <2>4, <2>5, <2>6 DEF HubInv
<1> QED
  BY <1>2, <1>3

\* Connections break, reads fail, a browser asks for a new snapshot.
LEMMA TroubleStep ==
  ASSUME HubInv,
         Trouble \/ \E c \in Clients : RequestSync(c)
  PROVE  HubInv' /\ UNCHANGED commits /\ \A d \in Clients : client'[d].view = client[d].view
<1>0. /\ commits \in Seq(Kinds) /\ commits' = commits /\ version' = version /\ version \in Nat
      /\ PeersOK /\ SignalsOK /\ ClientOK /\ WireOK /\ RestOK
      /\ UNCHANGED <<local, replies>>
  BY Versions, ConstantRoom
     DEF HubInv, RestOK, Trouble, RequestSync, SynchronizationFails, ReconciliationFails, Disconnect
<1>1. trouble' \in 0..MaxTrouble
  <2>1. countTrouble
    BY DEF Trouble, RequestSync, SynchronizationFails, ReconciliationFails, Disconnect
  <2> QED
    BY <1>0, <2>1, HubAssumption DEF RestOK, countTrouble
<1>2. PeersOK'
  <2>1. CASE UNCHANGED peers
    BY <1>0, <2>1, Untouched
  <2>2. CASE \E gone : detached(gone)
    BY <1>0, <2>2, PeersComeAndGo DEF detached
  <2> QED
    BY <2>1, <2>2
       DEF Trouble, RequestSync, SynchronizationFails, ReconciliationFails, Disconnect, hubVars
<1>3. reader' \in Off..version
  <2>1. reader' = reader \/ reader' = Off
    BY DEF Trouble, RequestSync, SynchronizationFails, ReconciliationFails, Disconnect, hubVars,
           detached
  <2> QED
    BY <1>0, <2>1 DEF RestOK, Off
<1>4. asked' \in [Clients -> BOOLEAN]
  BY <1>0
     DEF RestOK, Trouble, RequestSync, SynchronizationFails, ReconciliationFails, Disconnect
<1>5. RestOK'
  BY <1>0, <1>1, <1>3, <1>4 DEF RestOK
<1>6. SignalsOK'
  <2>1. CASE UNCHANGED <<signals, recon>>
    BY <1>0, <2>1, Untouched
  <2>2. CASE signals' = NoEvents /\ recon' = Idle
    BY <1>0, <2>2 DEF SignalsOK, NoEvents, Idle
  <2> QED
    BY <2>1, <2>2
       DEF Trouble, RequestSync, SynchronizationFails, ReconciliationFails, Disconnect, hubVars
<1>7. WireOK'
  <2> DEFINE m == [type |-> "close"]
  <2>1. m \in Messages(version)
    BY DEF Messages
  <2>2. <<m>> \in Seq(Messages(version)) /\ <<>> \in Seq(Messages(version))
    BY <2>1
  <2>3. CASE UNCHANGED wire
    BY <1>0, <2>3, Untouched
  <2>4. CASE \E c \in Clients : send(c, <<m>>)
    BY <1>0, <2>2, <2>4, Sent
  <2>5. CASE \E c \in Clients : wire' = [wire EXCEPT ![c] = <<>>]
    BY <1>0, <2>2, <2>5 DEF WireOK
  <2>6. CASE wire' = [c \in Clients |-> IF c \in DOMAIN peers THEN Append(wire[c], m) ELSE wire[c]]
    <3>1. \A c \in Clients : Append(wire[c], m) \in Seq(Messages(version))
      BY <1>0, <2>1 DEF WireOK
    <3> HIDE DEF m
    <3> QED
      BY <1>0, <2>6, <3>1 DEF WireOK
  <2> QED
    BY <2>3, <2>4, <2>5, <2>6
       DEF Trouble, RequestSync, SynchronizationFails, ReconciliationFails, Disconnect
<1>8. ClientOK' /\ \A d \in Clients : client'[d].view = client[d].view
  <2>1. CASE UNCHANGED client
    BY <1>0, <2>1, Untouched
  <2>2. CASE \E c \in Clients : client' = [client EXCEPT ![c] = [client[c] EXCEPT !.conn = "offline"]]
    <3>1. PICK c \in Clients : client' = [client EXCEPT ![c] = [client[c] EXCEPT !.conn = "offline"]]
      BY <2>2
    <3> DEFINE b == [client[c] EXCEPT !.conn = "offline"]
    <3>2. Sound(b) /\ b.view = client[c].view
      BY <1>0, BrowserIsSound, Fields
    <3>3. client' = [client EXCEPT ![c] = b]
      BY <3>1
    <3> HIDE DEF b
    <3>4. ClientOK'
      BY <1>0, <3>2, <3>3, BrowserSet
    <3> QED
      BY <1>0, <3>2, <3>3, <3>4 DEF ClientOK
  <2> QED
    BY <2>1, <2>2
       DEF Trouble, RequestSync, SynchronizationFails, ReconciliationFails, Disconnect
<1> QED
  BY <1>0, <1>2, <1>5, <1>6, <1>7, <1>8 DEF HubInv

\* What a browser takes in, from its socket or by HTTP, never takes it back.
Advances == \A d \in Clients : client'[d].view.state >= client[d].view.state

LEMMA BrowserStep ==
  ASSUME HubInv, NEW c \in Clients, Browser(c)
  PROVE  HubInv' /\ UNCHANGED commits /\ Advances
         /\ \A d \in Clients \ {c} : client'[d] = client[d]
<1>0. /\ commits \in Seq(Kinds) /\ commits' = commits /\ version' = version /\ version \in Nat
      /\ PeersOK /\ SignalsOK /\ ClientOK /\ WireOK /\ RestOK
      /\ UNCHANGED <<local, hubVars, trouble>>
  BY Versions, ConstantRoom DEF HubInv, RestOK, Browser, Refresh, AcceptReply, Receive
<1>1. PeersOK' /\ SignalsOK'
  BY <1>0, Untouched DEF hubVars
<1>2. Sound(client[c]) /\ \A d \in Clients : client[d].view.state \in Int
  BY <1>0, BrowserIsSound, Numbers
<1>3. ASSUME NEW b, Follows(b, client[c]), client' = [client EXCEPT ![c] = b]
      PROVE  ClientOK' /\ Advances /\ \A d \in Clients \ {c} : client'[d] = client[d]
  <2>1. ClientOK'
    BY <1>0, <1>3, BrowserSet DEF Follows
  <2>2. \A d \in Clients \ {c} : client'[d] = client[d]
    BY <1>0, <1>3 DEF ClientOK
  <2>3. client'[c] = b
    BY <1>0, <1>3 DEF ClientOK
  <2> QED
    BY <1>2, <1>3, <2>1, <2>2, <2>3 DEF Advances, Follows
<1>4. CASE Receive(c)
  <2> DEFINE m == Head(wire[c])
             b == handleServerMessage(client[c], m)
  <2>1. wire[c] \in Seq(Messages(version)) /\ wire[c] # <<>>
    BY <1>0, <1>4 DEF Receive, WireOK
  <2>2. m \in Messages(version) /\ Tail(wire[c]) \in Seq(Messages(version))
        /\ <<>> \in Seq(Messages(version))
    BY <2>1
  <2>3. client' = [client EXCEPT ![c] = settled(b)]
    BY <1>4 DEF Receive
  <2> HIDE DEF m
  <2>4. Follows(b, client[c])
    BY <1>0, <1>2, <2>2, Handled
  <2> HIDE DEF b
  <2>5. Follows(settled(b), client[c])
    BY <1>0, <2>4, Settled DEF Follows
  <2>6. WireOK'
    <3>1. \E w \in {<<>>, Tail(wire[c])} : wire' = [wire EXCEPT ![c] = w]
      BY <1>4 DEF Receive
    <3> QED
      BY <1>0, <2>2, <3>1 DEF WireOK
  <2>7. asked' \in [Clients -> BOOLEAN]
    <3>1. \E x \in BOOLEAN : asked' = [asked EXCEPT ![c] = x]
      BY <1>4, Zenon DEF Receive
    <3> QED
      BY <1>0, <3>1 DEF RestOK
  <2>8. RestOK'
    BY <1>0, <1>4, <2>7 DEF RestOK, Receive, hubVars
  <2> QED
    BY <1>0, <1>1, <1>3, <2>3, <2>5, <2>6, <2>8 DEF HubInv
<1>5. ASSUME NEW r, AcceptReply(c, r)
      PROVE  HubInv' /\ UNCHANGED commits /\ Advances
             /\ \A d \in Clients \ {c} : client'[d] = client[d]
  <2>1. r \in Replies(version)
    BY <1>0, <1>5 DEF AcceptReply, RestOK
  <2> DEFINE b == accepted(client[c], r)
  <2>2. client' = [client EXCEPT ![c] = settled(b)]
    BY <1>5 DEF AcceptReply
  <2>3. Follows(b, client[c])
    <3>1. CASE r.delta
      BY <1>0, <1>2, <2>1, <3>1, Presence DEF Replies, accepted
    <3>2. CASE ~r.delta
      BY <1>0, <1>2, <2>1, <3>2, SnapshotIsReal, Viewing
         DEF Replies, Follows, Sound, accepted
    <3> QED
      BY <3>1, <3>2
  <2> HIDE DEF b
  <2>4. Follows(settled(b), client[c])
    BY <1>0, <2>3, Settled DEF Follows
  <2>5. RestOK'
    BY <1>0, <1>5 DEF RestOK, AcceptReply, hubVars
  <2>6. WireOK'
    BY <1>0, <1>5, Untouched DEF AcceptReply
  <2> QED
    BY <1>0, <1>1, <1>3, <2>2, <2>4, <2>5, <2>6 DEF HubInv
<1>6. ASSUME NEW of \in {"poll", "event"}, Refresh(c, of)
      PROVE  HubInv' /\ UNCHANGED commits /\ Advances
             /\ \A d \in Clients \ {c} : client'[d] = client[d]
  <2>1. client' = client /\ UNCHANGED wire
    BY <1>6 DEF Refresh
  <2>2. [of |-> of, delta |-> FALSE, room |-> version] \in Replies(version)
    BY <1>0 DEF Replies
  <2>3. RestOK'
    BY <1>0, <1>6, <2>2 DEF RestOK, Refresh, hubVars
  <2> QED
    BY <1>0, <1>1, <1>2, <2>1, <2>3, Untouched DEF HubInv, Advances
<1> QED
  BY <1>4, <1>5, <1>6 DEF Browser

LEMMA InitialState == Init => HubInv
<1> SUFFICES ASSUME Init PROVE HubInv
  OBVIOUS
<1>1. commits = <<>> /\ commits \in Seq(Kinds) /\ version = 0
  BY DEF Init, version
<1>2. PeersOK /\ SignalsOK
  BY <1>1 DEF Init, PeersOK, SignalsOK, NoEvents, Idle
<1>3. ClientOK
  <2>1. NoRoom \in Views(version)
    BY <1>1 DEF NoRoom, Views
  <2> QED
    BY <1>1, <2>1 DEF Init, ClientOK, Real, Browsers
<1>4. WireOK
  <2>1. <<>> \in Seq(Messages(version))
    OBVIOUS
  <2> QED
    BY <2>1 DEF Init, WireOK
<1>5. RestOK
  BY <1>1, HubAssumption DEF Init, RestOK, Off
<1> QED
  BY <1>2, <1>3, <1>4, <1>5 DEF HubInv

\* One step of the hub, the browsers or the room: the invariant is kept, and a
\* browser's view moves on only, and only by the browser's own step.
LEMMA NextStep ==
  ASSUME HubInv, Next
  PROVE  /\ HubInv'
         /\ \/ version' > version /\ UNCHANGED client
            \/ UNCHANGED commits /\ \A d \in Clients : client'[d].view = client[d].view
            \/ /\ UNCHANGED commits /\ Advances
               /\ \E c \in Clients : \A d \in Clients \ {c} : client'[d] = client[d]
<1>1. ASSUME NEW kinds \in Writes, NEW here \in Here, NEW by \in {{}} \cup {{c} : c \in Clients},
             Commit(kinds, here, by)
      PROVE  HubInv' /\ version' > version /\ UNCHANGED client
  <2>1. by \in SUBSET Clients
    OBVIOUS
  <2> QED
    BY <1>1, <2>1, CommitStep
<1>2. ASSUME NEW c \in Clients, Attach(c) \/ RequestSync(c) \/ Browser(c)
      PROVE  /\ HubInv' /\ UNCHANGED commits
             /\ \/ \A d \in Clients : client'[d].view = client[d].view
                \/ Advances /\ \A d \in Clients \ {c} : client'[d] = client[d]
  BY <1>2, StepsOfOnePeer, TroubleStep, BrowserStep
<1>3. ASSUME Hub
      PROVE  HubInv' /\ UNCHANGED commits /\ \A d \in Clients : client'[d].view = client[d].view
  BY <1>3, BroadcastStep, ReadReconciledStep, StepsOfOnePeer, ReconcileStep, SynchronizeStep,
     FlushStep DEF Hub
<1>4. ASSUME Trouble
      PROVE  HubInv' /\ UNCHANGED commits /\ \A d \in Clients : client'[d].view = client[d].view
  BY <1>4, TroubleStep
<1>5. ASSUME ReadDraft
      PROVE  HubInv' /\ UNCHANGED commits /\ \A d \in Clients : client'[d].view = client[d].view
  BY <1>5, DraftStep
<1> QED
  BY <1>1, <1>2, <1>3, <1>4, <1>5 DEF Next

LEMMA HubInvariant == Spec => []HubInv
<1>1. Init => HubInv
  BY InitialState
<1>2. HubInv /\ [Next]_vars => HubInv'
  <2> SUFFICES ASSUME HubInv, [Next]_vars PROVE HubInv'
    OBVIOUS
  <2>1. CASE Next
    BY <2>1, NextStep
  <2>2. CASE UNCHANGED vars
    <3>1. commits' = commits
      BY <2>2 DEF vars
    <3>2. PeersOK' /\ SignalsOK' /\ ClientOK' /\ WireOK'
      BY <2>2, <3>1, Untouched DEF HubInv, vars, hubVars
    <3>3. RestOK'
      BY <2>2, ConstantRoom DEF HubInv, RestOK, vars, hubVars
    <3> QED
      BY <3>2, <3>3 DEF HubInv
  <2> QED
    BY <2>1, <2>2
<1> QED
  BY <1>1, <1>2, PTL DEF Spec

\* Nothing under way names a version the room has not had, and a peer is ready
\* exactly while no synchronization of it runs, whatever the hub, the browsers
\* and the connections do.
THEOREM HubTypes == Spec => []HubTypeOK
<1>1. HubInv => HubTypeOK
  BY InvariantParts
<1> QED
  BY <1>1, HubInvariant, PTL

\* However snapshots, patches, presence deltas and HTTP replies cross, what a
\* browser shows is one version the room really had.
THEOREM RealRooms == Spec => []ShowsARealRoom
<1>1. HubInv => ShowsARealRoom
  BY InvariantParts
<1> QED
  BY <1>1, HubInvariant, PTL

\* The safety part of MirrorsTheRoom: the realtime path starts as a mirror does
\* and each of its steps is a commit, one browser moving on, or nothing a
\* browser would see.
THEOREM RealtimeMirrors == Spec => Mirror!Init /\ [][Mirror!Next]_Mirror!vars
<1> DEFINE shown == [c \in Clients |-> Larger(client[c].view.state, 0)]
<1>1. Init => Mirror!Init
  BY DEF Init, Mirror!Init, version, NoRoom, Larger
<1>2. HubInv /\ HubInv' /\ [Next]_vars => [Mirror!Next]_Mirror!vars
  <2> SUFFICES ASSUME HubInv, HubInv', [Next]_vars PROVE [Mirror!Next]_Mirror!vars
    OBVIOUS
  <2>1. version \in Nat /\ version' \in Nat
    BY Versions DEF HubInv, RestOK, version
  <2>2. ASSUME NEW d \in Clients
        PROVE  client[d].view.state \in -1..version /\ client'[d].view.state \in -1..version'
    <3>1. client[d] \in Browsers(version) /\ client'[d] \in Browsers(version')
      BY DEF HubInv, ClientOK
    <3>2. client[d].view \in Views(version) /\ client'[d].view \in Views(version')
      BY <3>1 DEF Browsers
    <3> QED
      BY <3>2 DEF Views
  <2>3. /\ shown \in [Clients -> Nat]
        /\ \A d \in Clients : shown[d] = Larger(client[d].view.state, 0)
        /\ \A d \in Clients : shown'[d] = Larger(client'[d].view.state, 0)
        /\ shown' = [c \in Clients |-> Larger(client'[c].view.state, 0)]
    BY <2>1, <2>2 DEF Larger
  <2>4. Mirror!vars = <<version, shown>> /\ Mirror!vars' = <<version', shown'>>
    BY DEF Mirror!vars
  <2>5. CASE version' > version /\ UNCHANGED client
    BY <2>1, <2>5 DEF Mirror!Next, Mirror!Commit
  <2>6. CASE commits' = commits /\ \A d \in Clients : client'[d].view = client[d].view
    BY <2>4, <2>6, ConstantRoom
  <2>7. CASE /\ commits' = commits /\ Advances
             /\ \E c \in Clients : \A d \in Clients \ {c} : client'[d] = client[d]
    <3>1. version' = version
      BY <2>7, ConstantRoom
    <3>2. PICK c \in Clients : \A d \in Clients \ {c} : client'[d] = client[d]
      BY <2>7
    <3>3. \A d \in Clients \ {c} : shown'[d] = shown[d]
      BY <3>2
    <3>4. shown'[c] \in shown[c] .. version
      <4>1. client'[c].view.state >= client[c].view.state
        BY <2>7 DEF Advances
      <4> QED
        BY <2>1, <2>2, <2>3, <3>1, <4>1 DEF Larger
    <3> HIDE DEF shown
    <3>5. shown' = [shown EXCEPT ![c] = shown'[c]]
      BY <2>3, <3>3
    <3>6. CASE shown'[c] = shown[c]
      <4>1. shown' = shown
        BY <2>3, <3>5, <3>6
      <4> QED
        BY <2>4, <3>1, <4>1
    <3>7. CASE shown'[c] # shown[c]
      <4>0. shown[c] \in Nat
        BY <2>3
      <4>1. shown'[c] \in shown[c] + 1 .. version
        BY <2>1, <3>4, <3>7, <4>0
      <4>2. Mirror!Show(c)
        BY <3>1, <3>5, <4>1 DEF Mirror!Show, shown
      <4> QED
        BY <4>2 DEF Mirror!Next
    <3> QED
      BY <3>6, <3>7
  <2>8. CASE UNCHANGED vars
    BY <2>8, ConstantRoom DEF vars, Mirror!vars
  <2> QED
    BY <2>5, <2>6, <2>7, <2>8, NextStep
<1> QED
  BY <1>1, <1>2, HubInvariant, PTL DEF Spec
==============================================================================
