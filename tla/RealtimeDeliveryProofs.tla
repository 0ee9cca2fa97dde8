------------------------ MODULE RealtimeDeliveryProofs ------------------------
(***************************************************************************)
(* No signal is lost between the room and the browsers, and nothing that a *)
(* browser has acknowledged, for any number of browsers and commits.       *)
(*                                                                         *)
(* The argument: the hub keeps a base for each peer and sends from it; the *)
(* browser applies what it is sent, in order, to its view.  Each message   *)
(* that carries content ends at a level, the version it brings the view    *)
(* to.  Whatever HTTP replies do in between, when a message arrives the    *)
(* browser has reached the level of the last one before it, or is waiting  *)
(* for a snapshot and takes nothing else.  So an event, sent when the      *)
(* peer's base was the version before it, finds that version.              *)
(*                                                                         *)
(* What the stream has delivered is in the base of each peer, in its queue *)
(* or signalled to be reconciled.  So with nothing under way a live        *)
(* browser shows the room's last version, and a cursor, which never passes *)
(* both the stream's reader and the peer's base, is shown or still owed.   *)
(* That holds while no queue of a synchronizing peer is full, because a    *)
(* full one drops the event that came first, which need not be the oldest. *)
(***************************************************************************)
EXTENDS RealtimeHubProofs

\* The messages that bring a view to a version, and that version.
Levelled(m) == m.type \in {"snapshot", "patch", "event"}

level(m) == IF m.type = "event" THEN m.event ELSE m.room

\* The version a message counts on.
need(m) == IF m.type = "event" THEN m.event - 1 ELSE -1

\* What travels as an event is a presence delta.
Stamped(m) == m.type = "event" => commits[m.event] = "presence"

Holds(b, n) == b.awaiting \/ b.view.state >= n

\* Between places j and i of the wire nothing brings a view anywhere.
Silent(w, j, i) == \A k \in j + 1 .. i - 1 : ~Levelled(w[k])

\* By the time the browser takes the message at i it has version n, or waits
\* for a snapshot.
Reaches(w, b, i, n) ==
  /\ \A j \in 1 .. i - 1 : Levelled(w[j]) /\ Silent(w, j, i) => level(w[j]) >= n
  /\ Silent(w, 0, i) => Holds(b, n)

\* One browser and what is on its way to it.
OnPath(w, b) ==
  /\ \A i \in DOMAIN w : Stamped(w[i]) /\ Reaches(w, b, i, need(w[i]))
  /\ b.conn = "offline" => w = <<>>

\* The peer's base is where its browser will be.
Attended(w, b, p) ==
  /\ Reaches(w, b, Len(w) + 1, p.state)
  /\ b.conn # "offline"
  /\ \A i \in DOMAIN w : w[i].type # "close"

PeerOK(p) ==
  /\ p.sync \in {"no", "flush"} => p.state >= 0 /\ p.doc = roomRevision(p.state)
  /\ p.sync = "send" => p.tail <= p.room /\ p.state <= p.room
  /\ \A i \in DOMAIN p.pending : p.pending[i].cursor <= p.pending[i].event

PathOK(c) ==
  /\ OnPath(wire[c], client[c])
  /\ c \in DOMAIN peers => Attended(wire[c], client[c], peers[c]) /\ PeerOK(peers[c])

SignalsInOrder == \A e \in DOMAIN signals : signals[e] <= e

Paths == \A d \in Clients : PathOK(d)

DeliveryInv == HubInv /\ Paths /\ SignalsInOrder

-----------------------------------------------------------------------------
(* The wire.                                                               *)

LEMMA MessageShapes ==
  ASSUME version \in Nat, NEW m \in Messages(version)
  PROVE  /\ m.type \in {"snapshot", "patch", "event", "checkpoint", "draft", "close"}
         /\ Levelled(m) => level(m) \in 0..version /\ m.cursor \in 0..version
         /\ need(m) \in -1..version
         /\ m.type = "event" => m.event \in 1..version /\ m.cursor \in 0..version
         /\ m.type \in {"snapshot", "patch"} => m.room \in 0..version /\ m.cursor \in 0..version
         /\ m.type # "close" => m.cursor \in 0..version
<1>1. CASE m \in [type : {"snapshot"}, cursor : 0..version, room : 0..version]
  BY <1>1 DEF Levelled, level, need
<1>2. CASE m \in [type : {"patch"}, cursor : 0..version, room : 0..version,
                  base : [state : -1..version, doc : -1..version]]
  BY <1>2 DEF Levelled, level, need
<1>3. CASE m \in [type : {"event"}, cursor : 0..version, event : 1..version]
  BY <1>3 DEF Levelled, level, need
<1>4. CASE m \in [type : {"checkpoint", "draft"}, cursor : 0..version]
  BY <1>4 DEF Levelled, level, need
<1>5. CASE m \in [type : {"close"}]
  BY <1>5 DEF Levelled, level, need
<1> QED
  BY <1>1, <1>2, <1>3, <1>4, <1>5 DEF Messages

\* A later message changes nothing for the ones before it.
LEMMA AppendKeeps ==
  ASSUME NEW S, NEW w \in Seq(S), NEW m \in S, NEW b, NEW i \in 1 .. Len(w) + 1, NEW n,
         Reaches(w, b, i, n)
  PROVE  Reaches(Append(w, m), b, i, n)
<1>1. \A k \in 1 .. i - 1 : Append(w, m)[k] = w[k]
  OBVIOUS
<1>2. ASSUME NEW j \in 0 .. i - 1, Silent(Append(w, m), j, i)
      PROVE  Silent(w, j, i)
  BY <1>1, <1>2 DEF Silent
<1>3. ASSUME NEW j \in 1 .. i - 1, Levelled(Append(w, m)[j]), Silent(Append(w, m), j, i)
      PROVE  level(Append(w, m)[j]) >= n
  <2>1. Levelled(w[j]) /\ Silent(w, j, i) /\ Append(w, m)[j] = w[j]
    BY <1>1, <1>2, <1>3
  <2> QED
    BY <2>1 DEF Reaches
<1>4. Silent(Append(w, m), 0, i) => Holds(b, n)
  BY <1>2 DEF Reaches
<1> QED
  BY <1>3, <1>4 DEF Reaches

\* After a message: its level, or what the wire reached before it.
LEMMA AppendReaches ==
  ASSUME version \in Nat, NEW w \in Seq(Messages(version)), NEW m \in Messages(version),
         NEW b, b.view.state \in Int, NEW p \in Int, NEW n \in Int,
         Reaches(w, b, Len(w) + 1, p),
         IF Levelled(m) THEN n <= level(m) ELSE n <= p
  PROVE  Reaches(Append(w, m), b, Len(w) + 2, n)
<1> DEFINE u == Append(w, m)
           l == Len(w) + 1
<1>1. l \in Nat \ {0} /\ u[l] = m /\ \A k \in 1 .. Len(w) : u[k] = w[k]
  OBVIOUS
<1> HIDE DEF u
<1>2. CASE Levelled(m)
  <2>1. ASSUME NEW j \in 1 .. l, Levelled(u[j]), Silent(u, j, l + 1)
        PROVE  level(u[j]) >= n
    <3>1. CASE j = l
      <4>1. level(m) \in Int
        BY <1>2, MessageShapes
      <4> QED
        BY <4>1, <3>1, <1>1, <1>2
    <3>2. CASE j < l
      <4>1. l \in j + 1 .. (l + 1) - 1
        BY <1>1, <3>2
      <4> QED
        BY <4>1, <2>1, <1>1, <1>2 DEF Silent
    <3> QED
      BY <3>1, <3>2
  <2>2. ~Silent(u, 0, l + 1)
    <3>1. l \in 0 + 1 .. (l + 1) - 1
      BY <1>1
    <3> QED
      BY <3>1, <1>1, <1>2 DEF Silent
  <2> QED
    BY <2>1, <2>2 DEF Reaches, u
<1>3. CASE ~Levelled(m)
  <2>1. ASSUME NEW j \in 0 .. Len(w), Silent(u, j, l + 1)
        PROVE  Silent(w, j, l)
    BY <1>1, <2>1 DEF Silent
  <2>2. ASSUME NEW j \in 1 .. l, Levelled(u[j]), Silent(u, j, l + 1)
        PROVE  level(u[j]) >= n
    <3>1. j # l
      BY <1>1, <1>3, <2>2
    <3>2. j \in 1 .. Len(w) /\ j \in 0 .. Len(w) /\ j \in 1 .. l - 1
      BY <3>1, <1>1
    <3>3. u[j] = w[j] /\ Levelled(w[j]) /\ Silent(w, j, l)
      BY <3>2, <2>1, <2>2, <1>1
    <3>4. level(w[j]) >= p
      BY <3>2, <3>3 DEF Reaches
    <3>5. level(w[j]) \in Int
      BY <3>2, <3>3, MessageShapes
    <3> QED
      BY <3>3, <3>4, <3>5, <1>3
  <2>3. Silent(u, 0, l + 1) => Holds(b, n)
    <3>1. SUFFICES ASSUME Silent(u, 0, l + 1) PROVE Holds(b, n)
      OBVIOUS
    <3>2. Silent(w, 0, l)
      BY <2>1, <3>1
    <3>3. Holds(b, p)
      BY <3>2 DEF Reaches
    <3> QED
      BY <3>3, <1>3 DEF Holds
  <2> QED
    BY <2>2, <2>3 DEF Reaches, u
<1> QED
  BY <1>2, <1>3

\* What the browser makes of a message: the next one finds what it counts on.
Reads(b, next, m) ==
  /\ Levelled(m) => Holds(next, level(m))
  /\ b.awaiting => next.awaiting \/ Levelled(m)
  /\ next.view.state >= b.view.state

LEMMA TailReaches ==
  ASSUME version \in Nat, NEW w \in Seq(Messages(version)), w # <<>>, NEW b, NEW next,
         b.view.state \in Int, next.view.state \in Int, Reads(b, next, w[1]),
         NEW i \in 1 .. Len(w), NEW n \in Int, Reaches(w, b, i + 1, n)
  PROVE  Reaches(Tail(w), next, i, n)
<1> DEFINE u == Tail(w)
<1>1. \A k \in 1 .. i - 1 : u[k] = w[k + 1]
  OBVIOUS
<1> HIDE DEF u
<1>2. ASSUME NEW j \in 0 .. i - 1, Silent(u, j, i) PROVE Silent(w, j + 1, i + 1)
  <2>1. SUFFICES ASSUME NEW k \in j + 2 .. i PROVE ~Levelled(w[k])
    BY DEF Silent
  <2>2. k - 1 \in 1 .. i - 1 /\ k - 1 \in j + 1 .. i - 1 /\ (k - 1) + 1 = k
    OBVIOUS
  <2> QED
    BY <2>2, <1>1, <1>2 DEF Silent
<1>3. ASSUME NEW j \in 1 .. i - 1, Levelled(u[j]), Silent(u, j, i)
      PROVE  level(u[j]) >= n
  <2>1. j + 1 \in 1 .. (i + 1) - 1 /\ j \in 0 .. i - 1
    OBVIOUS
  <2>2. Levelled(w[j + 1]) /\ Silent(w, j + 1, i + 1) /\ u[j] = w[j + 1]
    BY <1>1, <1>2, <1>3, <2>1
  <2>3. level(w[j + 1]) >= n
    BY <2>1, <2>2 DEF Reaches
  <2> QED
    BY <2>2, <2>3
<1>4. ASSUME Silent(u, 0, i) PROVE Holds(next, n)
  <2>1. Silent(w, 1, i + 1)
    BY <1>2, <1>4
  <2>2. CASE Levelled(w[1])
    <3>1. 1 \in 1 .. (i + 1) - 1
      OBVIOUS
    <3>2. level(w[1]) >= n
      BY <2>1, <2>2, <3>1 DEF Reaches
    <3>3. level(w[1]) \in Int
      BY <2>2, MessageShapes
    <3> QED
      BY <2>2, <3>2, <3>3 DEF Reads, Holds
  <2>3. CASE ~Levelled(w[1])
    <3>1. Silent(w, 0, i + 1)
      BY <2>1, <2>3 DEF Silent
    <3>2. Holds(b, n)
      BY <3>1 DEF Reaches
    <3> QED
      BY <2>3, <3>2 DEF Reads, Holds
  <2> QED
    BY <2>2, <2>3
<1> QED
  BY <1>3, <1>4 DEF Reaches, u

\* A view that grows on its own.
LEMMA GrowthReaches ==
  ASSUME NEW w, NEW b, NEW next, b.view.state \in Int, next.view.state \in Int,
         next.awaiting = b.awaiting, next.view.state >= b.view.state,
         NEW i, NEW n \in Int, Reaches(w, b, i, n)
  PROVE  Reaches(w, next, i, n)
<1>1. Holds(b, n) => Holds(next, n)
  BY DEF Holds
<1> QED
  BY <1>1 DEF Reaches

-----------------------------------------------------------------------------
(* What a hub sends to a peer it moves from p to q.                        *)

Passes(m, p, q) ==
  /\ m.type # "close" /\ Stamped(m)
  /\ need(m) <= p.state
  /\ q.state = IF Levelled(m) THEN level(m) ELSE p.state

Sends(out, p, q) ==
  \/ out = <<>> /\ q.state = p.state
  \/ \E m \in Messages(version) : out = <<m>> /\ Passes(m, p, q)

LEMMA SentOnPath ==
  ASSUME version \in Nat, NEW w \in Seq(Messages(version)), NEW b, b.view.state \in Int,
         NEW p, NEW q, p.state \in Int, q.state \in Int,
         OnPath(w, b), Attended(w, b, p), NEW out, Sends(out, p, q)
  PROVE  OnPath(w \o out, b) /\ Attended(w \o out, b, q)
<1>1. CASE out = <<>> /\ q.state = p.state
  <2>1. w \o out = w
    BY <1>1
  <2> QED
    BY <2>1, <1>1 DEF Attended
<1>2. ASSUME NEW m \in Messages(version), out = <<m>>, Passes(m, p, q)
      PROVE  OnPath(w \o out, b) /\ Attended(w \o out, b, q)
  <2> DEFINE u == Append(w, m)
             l == Len(w) + 1
  <2>1. w \o out = u
    BY <1>2
  <2>2. /\ l \in Nat \ {0} /\ DOMAIN u = 1 .. l /\ Len(u) = l /\ u[l] = m
        /\ \A k \in 1 .. Len(w) : u[k] = w[k]
        /\ DOMAIN w = 1 .. Len(w) /\ l - 1 = Len(w)
    OBVIOUS
  <2>3. \A i \in DOMAIN w : w[i] \in Messages(version) /\ Stamped(w[i]) /\ Reaches(w, b, i, need(w[i]))
    BY DEF OnPath
  <2>4. Reaches(w, b, Len(w) + 1, p.state)
    BY DEF Attended
  <2>5. ASSUME NEW i \in DOMAIN u PROVE Stamped(u[i]) /\ Reaches(u, b, i, need(u[i]))
    <3>1. CASE i = l
      <4>1. \A j \in 1 .. l - 1 : Levelled(w[j]) /\ Silent(w, j, l) => level(w[j]) >= need(m)
        <5>1. need(m) \in Int
          BY MessageShapes
        <5>2. SUFFICES ASSUME NEW j \in 1 .. l - 1, Levelled(w[j]), Silent(w, j, l)
                       PROVE  level(w[j]) >= need(m)
          OBVIOUS
        <5>3. level(w[j]) >= p.state
          BY <2>4, <5>2 DEF Reaches
        <5>4. level(w[j]) \in Int
          BY <2>2, <2>3, <5>2, MessageShapes
        <5> QED
          BY <1>2, <5>1, <5>3, <5>4 DEF Passes
      <4>2. Silent(w, 0, l) => Holds(b, need(m))
        <5>1. need(m) \in Int
          BY MessageShapes
        <5> QED
          BY <1>2, <2>4, <5>1 DEF Passes, Reaches, Holds
      <4>3. Reaches(w, b, l, need(m))
        BY <4>1, <4>2 DEF Reaches
      <4>4. l \in 1 .. Len(w) + 1
        BY <2>2
      <4>5. Reaches(u, b, l, need(m))
        BY <4>3, <4>4, AppendKeeps
      <4> HIDE DEF u, l
      <4> QED
        BY <3>1, <4>5, <2>2, <1>2 DEF Passes
    <3>2. CASE i # l
      <4>1. i \in 1 .. Len(w) /\ i \in DOMAIN w /\ i \in 1 .. Len(w) + 1 /\ u[i] = w[i]
        BY <2>2, <3>2
      <4>2. Stamped(w[i]) /\ Reaches(w, b, i, need(w[i]))
        BY <2>3, <4>1
      <4>3. Reaches(u, b, i, need(w[i]))
        BY <4>1, <4>2, AppendKeeps
      <4> HIDE DEF u
      <4> QED
        BY <4>1, <4>2, <4>3
    <3> QED
      BY <3>1, <3>2
  <2>6. Reaches(u, b, Len(w) + 2, q.state)
    <3>1. IF Levelled(m) THEN q.state <= level(m) ELSE q.state <= p.state
      <4>1. Levelled(m) => level(m) \in Int
        BY MessageShapes
      <4> QED
        BY <1>2, <4>1 DEF Passes
    <3> QED
      BY <2>4, <3>1, AppendReaches
  <2>7. b.conn # "offline"
    BY DEF OnPath, Attended
  <2>8. \A i \in DOMAIN u : u[i].type # "close"
    <3>1. \A i \in DOMAIN w : w[i].type # "close"
      BY DEF Attended
    <3> HIDE DEF u
    <3>2. ASSUME NEW i \in DOMAIN u PROVE u[i].type # "close"
      <4>1. CASE i = l
        BY <4>1, <2>2, <1>2 DEF Passes
      <4>2. CASE i # l
        <5>1. i \in DOMAIN w /\ u[i] = w[i]
          BY <4>2, <2>2
        <5> QED
          BY <5>1, <3>1
      <4> QED
        BY <4>1, <4>2
    <3> QED
      BY <3>2
  <2>9. Len(u) + 1 = Len(w) + 2
    BY <2>2
  <2> HIDE DEF u
  <2>10. OnPath(u, b)
    BY <2>5, <2>7 DEF OnPath
  <2>11. Attended(u, b, q)
    BY <2>6, <2>7, <2>8, <2>9 DEF Attended
  <2> QED
    BY <2>1, <2>10, <2>11
<1> QED
  BY <1>1, <1>2 DEF Sends

LEMMA PeerShape ==
  ASSUME version \in Nat, NEW p \in Peers(version)
  PROVE  /\ p.state \in -1 .. version /\ p.doc \in -1 .. version /\ p.cursor \in 0 .. version
         /\ p.tail \in 0 .. version /\ p.room \in 0 .. version
         /\ p.pending \in Seq(Entries(version))
BY DEF Peers

\* An event delivered: nothing, a checkpoint of what the peer covers, or the
\* presence delta of the next version.
LEMMA DeliveredSends ==
  ASSUME commits \in Seq(Kinds), NEW peer \in Peers(version), NEW e \in 1 .. version,
         NEW cursor \in 0 .. version, PeerOK(peer), peer.sync \in {"no", "flush"}
  PROVE  /\ Sends(deliverEvent(peer, e, cursor).out, peer, deliverEvent(peer, e, cursor).peer)
         /\ PeerOK(deliverEvent(peer, e, cursor).peer)
<1> DEFINE d == deliverEvent(peer, e, cursor)
           k == Larger(peer.cursor, cursor)
           acked == [peer EXCEPT !.cursor = k]
           both == [peer EXCEPT !.state = e, !.cursor = k]
           checkpoint == [type |-> "checkpoint", cursor |-> cursor]
           event == [type |-> "event", cursor |-> cursor, event |-> e]
<1>0. /\ version \in Nat /\ peer.state \in Int /\ peer.cursor \in Nat /\ cursor \in Nat /\ e \in Nat
      /\ peer.state >= 0 /\ peer.doc = roomRevision(peer.state)
  BY PeerShape, Versions DEF PeerOK
<1>1. checkpoint \in Messages(version) /\ event \in Messages(version)
  BY DEF Messages
<1>2. CASE peerCoversEvent(peer, e)
  <2>1. d = [peer |-> acked, out |-> IF cursor > peer.cursor THEN <<checkpoint>> ELSE <<>>,
             stale |-> FALSE]
    BY <1>2, Zenon DEF deliverEvent
  <2>2. /\ acked.state = peer.state /\ acked.doc = peer.doc /\ acked.cursor = k
        /\ acked.sync = peer.sync /\ acked.tail = peer.tail /\ acked.room = peer.room
        /\ acked.pending = peer.pending
    BY DEF Peers
  <2> HIDE DEF acked, k
  <2>4. PeerOK(acked)
    BY <1>0, <2>2 DEF PeerOK
  <2>5. Passes(checkpoint, peer, acked)
    BY <1>0, <2>2 DEF Passes, Stamped, Levelled, need
  <2> HIDE DEF d, checkpoint
  <2>6. d.peer = acked /\ d.out \in {<<checkpoint>>, <<>>}
    BY <2>1
  <2>7. Sends(d.out, peer, acked)
    BY <1>1, <2>2, <2>5, <2>6 DEF Sends
  <2> QED
    BY <2>4, <2>6, <2>7 DEF d
<1>3. CASE ~peerCoversEvent(peer, e) /\ deltaFollows(peer, e)
  <2>1. d = [peer |-> both, out |-> <<event>>, stale |-> FALSE]
    BY <1>3, Zenon DEF deliverEvent
  <2>2. /\ both.state = e /\ both.doc = peer.doc /\ both.cursor = k
        /\ both.sync = peer.sync /\ both.tail = peer.tail /\ both.room = peer.room
        /\ both.pending = peer.pending
    BY DEF Peers
  <2>3. commits[e] = "presence" /\ peer.doc = roomRevision(e) /\ peer.state = e - 1
    BY <1>0, <1>3 DEF deltaFollows
  <2> HIDE DEF both, k
  <2>4. PeerOK(both)
    BY <1>0, <2>2, <2>3 DEF PeerOK
  <2>5. Passes(event, peer, both)
    BY <1>0, <2>2, <2>3 DEF Passes, Stamped, Levelled, need, level
  <2> HIDE DEF d, event
  <2>6. d.peer = both /\ d.out = <<event>>
    BY <2>1
  <2>7. Sends(d.out, peer, both)
    BY <1>1, <2>5, <2>6 DEF Sends
  <2> QED
    BY <2>4, <2>6, <2>7 DEF d
<1>4. CASE ~peerCoversEvent(peer, e) /\ ~deltaFollows(peer, e)
  <2>1. d = [peer |-> peer, out |-> <<>>, stale |-> TRUE]
    BY <1>4, Zenon DEF deliverEvent
  <2> HIDE DEF d
  <2>2. d.peer = peer /\ d.out = <<>>
    BY <2>1
  <2> QED
    BY <2>2 DEF d, Sends
<1> QED
  BY <1>2, <1>3, <1>4

\* A peer that is caught up with version n: the patch or the snapshot of n, or
\* a checkpoint.
LEMMA CaughtUpSends ==
  ASSUME commits \in Seq(Kinds), NEW peer \in Peers(version), NEW n \in 0 .. version,
         NEW cursor \in 0 .. version, NEW whole \in BOOLEAN,
         PeerOK(peer), peer.sync = "no"
  PROVE  /\ Sends(catchUpMessages(peer, n, cursor, whole), peer, caughtUp(peer, n, cursor))
         /\ PeerOK(caughtUp(peer, n, cursor))
<1> DEFINE moved == [peer EXCEPT !.state = n, !.doc = roomRevision(n), !.cursor = cursor]
           acked == [peer EXCEPT !.cursor = cursor]
           snapshot == [type |-> "snapshot", cursor |-> cursor, room |-> n]
           patch == [type |-> "patch", cursor |-> cursor, room |-> n,
                     base |-> [state |-> peer.state, doc |-> peer.doc]]
           checkpoint == [type |-> "checkpoint", cursor |-> cursor]
           out == catchUpMessages(peer, n, cursor, whole)
           next == caughtUp(peer, n, cursor)
<1>0. /\ version \in Nat /\ peer.state \in 0 .. version /\ peer.cursor \in Nat /\ cursor \in Nat
      /\ n \in Nat /\ peer.doc = roomRevision(peer.state)
  BY PeerShape, Versions DEF PeerOK
<1>1. /\ snapshot \in Messages(version) /\ checkpoint \in Messages(version)
      /\ patch \in Messages(version)
  <2>1. [state |-> peer.state, doc |-> peer.doc] \in [state : -1 .. version, doc : -1 .. version]
    BY DEF Peers
  <2> QED
    BY <2>1 DEF Messages
<1>2. CASE n > peer.state
  <2>1. next = moved
    BY <1>2, Zenon DEF caughtUp
  <2>2. out = <<snapshot>> \/ out = <<patch>>
    BY <1>2, Zenon DEF catchUpMessages
  <2>3. /\ moved.state = n /\ moved.doc = roomRevision(n) /\ moved.cursor = cursor
        /\ moved.sync = peer.sync /\ moved.tail = peer.tail /\ moved.room = peer.room
        /\ moved.pending = peer.pending
    BY DEF Peers
  <2> HIDE DEF moved
  <2>5. PeerOK(moved)
    BY <1>0, <2>3 DEF PeerOK
  <2>6. Passes(snapshot, peer, moved) /\ Passes(patch, peer, moved)
    BY <1>0, <2>3 DEF Passes, Stamped, Levelled, need, level
  <2> HIDE DEF snapshot, patch, out, next
  <2>7. Sends(out, peer, moved)
    BY <1>1, <2>2, <2>6 DEF Sends
  <2> QED
    BY <2>1, <2>5, <2>7 DEF out, next
<1>3. CASE ~(n > peer.state)
  <2>1. ~(roomRevision(n) > peer.doc)
    <3>1. roomRevision(n) <= roomRevision(peer.state)
      BY <1>0, <1>3, RevisionsNameDocuments
    <3>2. roomRevision(n) \in Nat /\ roomRevision(peer.state) \in Nat
      BY <1>0, Documents
    <3> QED
      BY <1>0, <3>1, <3>2
  <2>2. next = acked
    BY <1>3, <2>1, Zenon DEF caughtUp
  <2>3. out = IF cursor > peer.cursor THEN <<checkpoint>> ELSE <<>>
    BY <1>3, <2>1, Zenon DEF catchUpMessages
  <2>4. /\ acked.state = peer.state /\ acked.doc = peer.doc /\ acked.cursor = cursor
        /\ acked.sync = peer.sync /\ acked.tail = peer.tail /\ acked.room = peer.room
        /\ acked.pending = peer.pending
    BY DEF Peers
  <2> HIDE DEF acked
  <2>6. PeerOK(acked)
    BY <1>0, <2>4 DEF PeerOK
  <2>7. Passes(checkpoint, peer, acked)
    BY <1>0, <2>4 DEF Passes, Stamped, Levelled, need
  <2> HIDE DEF checkpoint, out, next
  <2>8. Sends(out, peer, acked)
    BY <1>1, <2>3, <2>4, <2>7 DEF Sends
  <2> QED
    BY <2>2, <2>6, <2>8 DEF out, next
<1> QED
  BY <1>2, <1>3

-----------------------------------------------------------------------------
(* What a browser takes.                                                   *)

Takes(b, next, m) ==
  /\ Reads(b, next, m)
  /\ IF m.type = "close" THEN next.conn = "offline" ELSE b.conn # "offline" => next.conn # "offline"

LEMMA BrowserShape ==
  ASSUME version \in Nat, NEW b, Sound(b)
  PROVE  /\ b.view.state \in -1 .. version /\ b.cursor \in 0 .. version
         /\ b.awaiting \in BOOLEAN /\ b.conn \in {"offline", "open", "live"}
BY DEF Sound, Browsers, Views

\* A presence commit writes no document.
LEMMA PresenceKeepsRevision ==
  ASSUME commits \in Seq(Kinds), NEW e \in 1 .. version, commits[e] = "presence"
  PROVE  roomRevision(e) = roomRevision(e - 1)
<1>1. documents(e) = documents(e - 1)
  <2>1. e \in Nat /\ e >= 1
    BY DEF version
  <2>2. ASSUME NEW i \in documents(e) PROVE i \in documents(e - 1)
    BY <2>1, <2>2 DEF documents
  <2>3. ASSUME NEW i \in documents(e - 1) PROVE i \in documents(e)
    BY <2>1, <2>3 DEF documents
  <2> QED
    BY <2>2, <2>3
<1> QED
  BY <1>1 DEF roomRevision

\* Each way of taking a version into a view reaches it.
LEMMA ViewsReach ==
  ASSUME commits \in Seq(Kinds), NEW view, Real(view), NEW n \in 0 .. version
  PROVE  /\ view.state \in -1 .. version
         /\ reconcileRoomSnapshot(view, Room(n)).state >= n
         /\ \A patch : patch.room = n => applyRoomPatch(view, patch).state >= n
         /\ deltaApplies(view, n) => applyPresenceDelta(view, n).state >= n
<1>0. version \in Nat /\ view.state \in -1 .. version /\ Room(n).state = n
  <2>1. version \in Nat /\ Room(n).state = n
    BY Versions, Rooms
  <2>2. view.state \in -1 .. version
    BY <2>1, Rooms DEF Real, NoRoom
  <2> QED
    BY <2>1, <2>2
<1>1. reconcileRoomSnapshot(view, Room(n)).state >= n
  BY <1>0 DEF reconcileRoomSnapshot, Larger
<1>2. ASSUME NEW patch, patch.room = n PROVE applyRoomPatch(view, patch).state >= n
  <2>1. CASE isNewer(Room(n), view)
    <3>1. \A x : [Room(n) EXCEPT !.objects = x].state = n
      BY <1>0 DEF Room
    <3>2. applyRoomPatch(view, patch) = [Room(n) EXCEPT !.objects =
            view.objects \cup {i \in documents(n) : i > patch.base.state}]
      BY <1>2, <2>1 DEF applyRoomPatch
    <3> QED
      BY <3>1, <3>2, <1>0
  <2>2. CASE ~isNewer(Room(n), view)
    BY <1>0, <1>2, <2>2 DEF applyRoomPatch, isNewer
  <2> QED
    BY <2>1, <2>2
<1>3. ASSUME deltaApplies(view, n) PROVE applyPresenceDelta(view, n).state >= n
  <2>1. CASE view.state >= n
    BY <2>1 DEF applyPresenceDelta
  <2>2. CASE ~(view.state >= n)
    <3>1. view # NoRoom
      BY <1>3 DEF deltaApplies
    <3>2. PICK k \in 0 .. version : view = Room(k)
      BY <3>1 DEF Real
    <3>3. applyPresenceDelta(view, n) = [view EXCEPT !.state = n, !.live = @ \cup {n}]
      BY <2>2 DEF applyPresenceDelta
    <3>4. applyPresenceDelta(view, n).state = n
      BY <3>2, <3>3 DEF Room
    <3> QED
      BY <3>4, <1>0
  <2> QED
    BY <2>1, <2>2
<1> QED
  BY <1>0, <1>1, <1>2, <1>3

LEMMA SnapshotTaken ==
  ASSUME commits \in Seq(Kinds), NEW b, Sound(b), NEW m \in Messages(version), m.type = "snapshot"
  PROVE  Takes(b, onSnapshot(b, m), m)
<1> DEFINE view == reconcileRoomSnapshot(b.view, Room(m.room))
           next == onSnapshot(b, m)
<1>0. /\ version \in Nat /\ m.room \in 0 .. version /\ m.cursor \in 0 .. version
      /\ Real(b.view) /\ b \in Browsers(version)
  BY MessageShapes, Versions DEF Sound
<1>1. view.state >= m.room /\ view.state >= b.view.state /\ Real(view)
  BY <1>0, ViewsReach, SnapshotIsReal
<1>2. /\ next.view = view /\ next.cursor = m.cursor /\ next.conn = "live" /\ next.awaiting = FALSE
  <2> HIDE DEF view
  <2>1. next = [b EXCEPT !.conn = "live", !.awaiting = FALSE, !.cursor = m.cursor, !.view = view]
    BY Zenon DEF onSnapshot, view
  <2> HIDE DEF next
  <2> QED
    BY <2>1, <1>0 DEF Browsers
<1>3. Levelled(m) /\ level(m) = m.room
  BY DEF Levelled, level
<1>4. view.state \in Int
  <2> HIDE DEF view
  <2> QED
    BY <1>0, <1>1, ViewsReach
<1> HIDE DEF view, next
<1> QED
  BY <1>0, <1>1, <1>2, <1>3, <1>4 DEF Takes, Reads, Holds, next

LEMMA PatchTaken ==
  ASSUME commits \in Seq(Kinds), NEW b, Sound(b), NEW m \in Messages(version),
         m.type = "patch", ~b.awaiting
  PROVE  Takes(b, onPatch(b, m), m)
<1> DEFINE next == onPatch(b, m)
<1>0. /\ version \in Nat /\ m.room \in 0 .. version /\ m.cursor \in 0 .. version
      /\ Real(b.view) /\ b \in Browsers(version)
      /\ b.view.state \in -1 .. version /\ b.cursor \in 0 .. version
  BY MessageShapes, Versions, BrowserShape DEF Sound
<1>1. Levelled(m) /\ level(m) = m.room
  BY DEF Levelled, level
<1>2. CASE patchApplies(b.view, m)
  <2> DEFINE view == applyRoomPatch(b.view, m)
             k == Larger(b.cursor, m.cursor)
  <2>1. view.state >= m.room /\ view.state >= b.view.state /\ Real(view)
    BY <1>0, <1>2, ViewsReach, PatchIsReal
  <2>2. next.view = view /\ next.cursor = k /\ next.conn = b.conn /\ next.awaiting = b.awaiting
    <3>1. next = [b EXCEPT !.cursor = k, !.view = view]
      BY <1>2, Zenon DEF onPatch
    <3> HIDE DEF next, view, k
    <3> QED
      BY <3>1, <1>0 DEF Browsers
  <2>3. view.state \in Int
    BY <1>0, <2>1, ViewsReach
  <2> HIDE DEF view, k, next
  <2> QED
    BY <1>0, <1>1, <2>1, <2>2, <2>3 DEF Takes, Reads, Holds, next
<1>3. CASE ~patchApplies(b.view, m)
  <2>1. next = [b EXCEPT !.awaiting = TRUE]
    BY <1>3 DEF onPatch
  <2>2. /\ next.view = b.view /\ next.cursor = b.cursor /\ next.conn = b.conn /\ next.awaiting = TRUE
    BY <2>1, <1>0 DEF Browsers
  <2> HIDE DEF next
  <2> QED
    BY <1>0, <1>1, <2>2 DEF Takes, Reads, Holds, next
<1> QED
  BY <1>2, <1>3

\* An event finds the version before it: what it brings applies.
LEMMA EventTaken ==
  ASSUME commits \in Seq(Kinds), NEW b, Sound(b), NEW m \in Messages(version),
         Stamped(m), m.type = "event", ~b.awaiting, Holds(b, need(m))
  PROVE  Takes(b, onEvent(b, m), m)
<1> DEFINE e == m.event
           k == Larger(b.cursor, m.cursor)
           b1 == [b EXCEPT !.cursor = k]
           view == applyPresenceDelta(b.view, e)
           next == onEvent(b, m)
<1>0. /\ version \in Nat /\ e \in 1 .. version /\ e \in 0 .. version /\ m.cursor \in 0 .. version
      /\ Real(b.view) /\ b \in Browsers(version)
      /\ b.view.state \in -1 .. version /\ b.cursor \in 0 .. version
  BY MessageShapes, Versions, BrowserShape DEF Sound
<1>1. Levelled(m) /\ level(m) = e /\ need(m) = e - 1 /\ commits[e] = "presence"
  BY DEF Stamped, Levelled, level, need
<1>2. b.view.state >= e - 1
  BY <1>1 DEF Holds
<1>3. deltaApplies(b.view, e)
  <2>1. b.view # NoRoom
    BY <1>0, <1>2 DEF NoRoom
  <2>2. PICK j \in 0 .. version : b.view = Room(j)
    BY <1>0, <2>1 DEF Real
  <2>3. b.view.state = j /\ b.view.doc = roomRevision(j)
    BY <2>2, Rooms
  <2>4. b.view.state < e => e = b.view.state + 1 /\ roomRevision(e) = b.view.doc
    <3>1. SUFFICES ASSUME b.view.state < e
                   PROVE  e = b.view.state + 1 /\ roomRevision(e) = b.view.doc
      OBVIOUS
    <3>2. j = e - 1 /\ e = b.view.state + 1
      BY <3>1, <1>0, <1>2, <2>3
    <3>3. roomRevision(e) = roomRevision(e - 1)
      BY <1>0, <1>1, PresenceKeepsRevision
    <3> QED
      BY <3>2, <3>3, <2>3
  <2> QED
    BY <2>1, <2>4 DEF deltaApplies
<1>4. view.state >= e /\ view.state >= b.view.state /\ Real(view)
  BY <1>0, <1>3, ViewsReach, DeltaIsReal
<1>5. view.state \in Int
  BY <1>0, <1>4, ViewsReach
<1>6. next.view = view /\ next.cursor = k /\ next.conn = b.conn /\ next.awaiting = b.awaiting
  <2>1. b1.view = b.view /\ b1.cursor = k /\ b1.conn = b.conn /\ b1.awaiting = b.awaiting
        /\ \A x : /\ [b1 EXCEPT !.view = x].view = x /\ [b1 EXCEPT !.view = x].cursor = k
                  /\ [b1 EXCEPT !.view = x].conn = b.conn
                  /\ [b1 EXCEPT !.view = x].awaiting = b.awaiting
    <3> HIDE DEF k
    <3> QED
      BY <1>0 DEF Browsers
  <2>2. next = acceptPresence(b1, e)
    BY Zenon DEF onEvent
  <2> HIDE DEF b1, next, view
  <2>3. next = [b1 EXCEPT !.view = applyPresenceDelta(b1.view, e)]
    BY <2>1, <2>2, <1>3 DEF acceptPresence
  <2>4. next = [b1 EXCEPT !.view = view]
    BY <2>1, <2>3 DEF view
  <2> QED
    BY <2>1, <2>4
<1> HIDE DEF view, k, next, b1, e
<1> QED
  BY <1>0, <1>1, <1>4, <1>5, <1>6 DEF Takes, Reads, Holds, next

LEMMA MessageTaken ==
  ASSUME commits \in Seq(Kinds), NEW b, Sound(b), NEW m \in Messages(version),
         Stamped(m), Holds(b, need(m))
  PROVE  Takes(b, handleServerMessage(b, m), m)
<1>0. /\ version \in Nat /\ b \in Browsers(version)
      /\ b.view.state \in -1 .. version /\ b.cursor \in 0 .. version
      /\ m.type \in {"snapshot", "patch", "event", "checkpoint", "draft", "close"}
  BY MessageShapes, Versions, BrowserShape DEF Sound
<1>1. CASE m.type = "snapshot"
  BY <1>1, SnapshotTaken DEF handleServerMessage
<1>2. CASE m.type = "close"
  <2> DEFINE next == [b EXCEPT !.conn = "offline"]
  <2>1. handleServerMessage(b, m) = next
    BY <1>2 DEF handleServerMessage
  <2>2. /\ next.view = b.view /\ next.cursor = b.cursor /\ next.conn = "offline"
        /\ next.awaiting = b.awaiting
    BY <1>0 DEF Browsers
  <2> HIDE DEF next
  <2> QED
    BY <1>0, <1>2, <2>1, <2>2 DEF Takes, Reads, Holds, Levelled
<1>3. CASE m.type = "patch" /\ ~b.awaiting
  BY <1>3, PatchTaken DEF handleServerMessage
<1>4. CASE m.type = "event" /\ ~b.awaiting
  BY <1>4, EventTaken DEF handleServerMessage
<1>5. CASE m.type \in {"checkpoint", "draft"} /\ ~b.awaiting
  <2> DEFINE k == Larger(b.cursor, m.cursor)
             next == [b EXCEPT !.cursor = k]
  <2>1. handleServerMessage(b, m) = next
    BY <1>5 DEF handleServerMessage
  <2>2. /\ next.view = b.view /\ next.cursor = k /\ next.conn = b.conn
        /\ next.awaiting = b.awaiting
    BY <1>0 DEF Browsers
  <2> HIDE DEF next, k
  <2> QED
    BY <1>0, <1>5, <2>1, <2>2 DEF Takes, Reads, Holds, Levelled
<1>6. CASE m.type \in {"patch", "event", "checkpoint", "draft"} /\ b.awaiting
  <2>1. handleServerMessage(b, m) = b
    BY <1>6 DEF handleServerMessage
  <2> QED
    BY <1>0, <1>6, <2>1 DEF Takes, Reads, Holds, Levelled
<1> QED
  BY <1>0, <1>1, <1>2, <1>3, <1>4, <1>5, <1>6

LEMMA SettledKeeps ==
  ASSUME NEW b, Sound(b)
  PROVE  /\ settled(b).view = b.view /\ settled(b).cursor = b.cursor
         /\ settled(b).conn = b.conn /\ settled(b).awaiting = b.awaiting
BY DEF settled, Sound, Browsers

-----------------------------------------------------------------------------
(* How one browser's path moves.                                           *)

LEMMA PathFacts ==
  ASSUME HubInv, NEW c \in Clients
  PROVE  /\ commits \in Seq(Kinds) /\ version \in Nat
         /\ wire[c] \in Seq(Messages(version))
         /\ Sound(client[c]) /\ client[c].view.state \in Int
         /\ c \in DOMAIN peers => peers[c] \in Peers(version) /\ peers[c].state \in Int
                                  /\ (peers[c].ready <=> peers[c].sync = "no")
<1>1. commits \in Seq(Kinds) /\ version \in Nat
  BY Versions DEF HubInv, RestOK
<1>2. wire[c] \in Seq(Messages(version))
  BY DEF HubInv, WireOK
<1>3. Sound(client[c])
  BY BrowserIsSound DEF HubInv
<1>4. client[c].view.state \in Int
  BY <1>1, <1>3, BrowserShape
<1>5. c \in DOMAIN peers => peers[c] \in Peers(version) /\ (peers[c].ready <=> peers[c].sync = "no")
  BY DEF HubInv, PeersOK
<1>6. c \in DOMAIN peers => peers[c].state \in Int
  BY <1>1, <1>5, PeerShape
<1> QED
  BY <1>1, <1>2, <1>3, <1>4, <1>5, <1>6

LEMMA PathMoves ==
  ASSUME commits' = commits, NEW c \in Clients, OnPath(wire'[c], client'[c]),
         c \in DOMAIN peers' => Attended(wire'[c], client'[c], peers'[c]) /\ PeerOK(peers'[c])
  PROVE  PathOK(c)'
<1>1. \A m : Stamped(m)' <=> Stamped(m)
  BY DEF Stamped
<1>2. OnPath(wire[c], client[c])'
  BY <1>1 DEF OnPath
<1>3. ASSUME c \in DOMAIN peers'
      PROVE  Attended(wire[c], client[c], peers[c])' /\ PeerOK(peers[c])'
  BY <1>3 DEF PeerOK, roomRevision, documents
<1> QED
  BY <1>2, <1>3 DEF PathOK

\* Nothing is sent or taken, and the peer keeps its base or is gone.
LEMMA PathStays ==
  ASSUME commits' = commits, NEW c \in Clients, PathOK(c),
         wire'[c] = wire[c], client'[c] = client[c],
         c \in DOMAIN peers' => /\ c \in DOMAIN peers /\ PeerOK(peers'[c])
                                /\ peers'[c].state = peers[c].state
  PROVE  PathOK(c)'
<1>1. OnPath(wire'[c], client'[c])
  BY DEF PathOK
<1>2. c \in DOMAIN peers' => Attended(wire'[c], client'[c], peers'[c])
  BY DEF PathOK, Attended
<1> QED
  BY <1>1, <1>2, PathMoves

\* The hub moves the peer and sends what that takes.
LEMMA PathServed ==
  ASSUME HubInv, commits' = commits, NEW c \in Clients, c \in DOMAIN peers, PathOK(c),
         client'[c] = client[c], peers'[c].state \in Int, PeerOK(peers'[c]),
         NEW out, Sends(out, peers[c], peers'[c]), wire'[c] = wire[c] \o out
  PROVE  PathOK(c)'
<1>1. OnPath(wire[c], client[c]) /\ Attended(wire[c], client[c], peers[c])
  BY DEF PathOK
<1>2. OnPath(wire'[c], client'[c]) /\ Attended(wire'[c], client'[c], peers'[c])
  BY <1>1, PathFacts, SentOnPath
<1> QED
  BY <1>2, PathMoves

\* The hub closes the socket.
LEMMA PathCloses ==
  ASSUME HubInv, commits' = commits, NEW c \in Clients, c \in DOMAIN peers, PathOK(c),
         client'[c] = client[c], c \notin DOMAIN peers',
         wire'[c] = Append(wire[c], [type |-> "close"])
  PROVE  PathOK(c)'
<1> DEFINE w == wire[c]
           m == [type |-> "close"]
           u == Append(w, m)
           b == client[c]
<1>1. /\ version \in Nat /\ w \in Seq(Messages(version)) /\ b.view.state \in Int
      /\ OnPath(w, b) /\ b.conn # "offline"
  BY PathFacts DEF PathOK, Attended
<1>2. m \in Messages(version) /\ Stamped(m) /\ need(m) = -1
  BY DEF Messages, Stamped, Levelled, need
<1>3. b.view.state >= -1
  BY <1>1, PathFacts, BrowserShape
<1>4. /\ DOMAIN u = 1 .. Len(w) + 1 /\ u[Len(w) + 1] = m /\ DOMAIN w = 1 .. Len(w)
      /\ \A k \in 1 .. Len(w) : u[k] = w[k]
  BY <1>1
<1> HIDE DEF w, m, b
<1>5. Reaches(w, b, Len(w) + 1, -1)
  <2>1. ASSUME NEW j \in 1 .. (Len(w) + 1) - 1, Levelled(w[j]) PROVE level(w[j]) >= -1
    <3>1. w[j] \in Messages(version)
      BY <1>1
    <3>2. level(w[j]) \in 0 .. version
      BY <1>1, <3>1, <2>1, MessageShapes
    <3> QED
      BY <1>1, <3>2
  <2>2. Holds(b, -1)
    BY <1>3 DEF Holds
  <2> QED
    BY <2>1, <2>2 DEF Reaches
<1>6. ASSUME NEW i \in DOMAIN u PROVE Stamped(u[i]) /\ Reaches(u, b, i, need(u[i]))
  <2>1. CASE i = Len(w) + 1
    <3>1. i \in 1 .. Len(w) + 1
      BY <1>1, <2>1
    <3>2. Reaches(u, b, i, -1)
      BY <1>1, <1>2, <1>5, <2>1, <3>1, AppendKeeps
    <3> QED
      BY <3>2, <1>2, <1>4, <2>1
  <2>2. CASE i # Len(w) + 1
    <3>1. i \in DOMAIN w /\ i \in 1 .. Len(w) + 1 /\ u[i] = w[i]
      BY <1>1, <1>4, <2>2
    <3>2. Stamped(w[i]) /\ Reaches(w, b, i, need(w[i]))
      BY <1>1, <3>1 DEF OnPath
    <3>3. Reaches(u, b, i, need(w[i]))
      BY <1>1, <1>2, <3>1, <3>2, AppendKeeps
    <3> QED
      BY <3>1, <3>2, <3>3
  <2> QED
    BY <2>1, <2>2
<1>7. OnPath(u, b)
  BY <1>1, <1>6 DEF OnPath
<1>8. wire'[c] = u /\ client'[c] = b
  BY DEF w, b, m
<1> HIDE DEF u
<1>9. OnPath(wire'[c], client'[c])
  BY <1>7, <1>8
<1> QED
  BY <1>9, PathMoves

\* The browser takes the next message.
LEMMA PathTaken ==
  ASSUME HubInv, HubInv', commits' = commits, peers' = peers, NEW c \in Clients, PathOK(c),
         wire[c] # <<>>, client'[c] = settled(handleServerMessage(client[c], Head(wire[c]))),
         wire'[c] = IF client'[c].conn = "offline" THEN <<>> ELSE Tail(wire[c])
  PROVE  PathOK(c)'
<1> DEFINE w == wire[c]
           m == Head(w)
           b == client[c]
           taken == handleServerMessage(b, m)
           next == client'[c]
<1>1. /\ commits \in Seq(Kinds) /\ version \in Nat /\ w \in Seq(Messages(version)) /\ Sound(b)
      /\ b.view.state \in Int /\ OnPath(w, b) /\ w # <<>>
  BY PathFacts DEF PathOK
<1>2. m = w[1] /\ 1 \in DOMAIN w /\ m \in Messages(version) /\ DOMAIN w = 1 .. Len(w)
      /\ Len(Tail(w)) + 1 = Len(w) /\ \A i \in 1 .. Len(w) - 1 : Tail(w)[i] = w[i + 1]
      /\ Tail(w) \in Seq(Messages(version)) /\ DOMAIN Tail(w) = 1 .. Len(w) - 1 /\ Len(w) \in Nat
  BY <1>1
<1>3. Stamped(m) /\ Holds(b, need(m))
  <2>1. Stamped(m) /\ Reaches(w, b, 1, need(m))
    BY <1>1, <1>2 DEF OnPath
  <2>2. Silent(w, 0, 1)
    BY DEF Silent
  <2>3. Holds(b, need(m))
    BY <2>1, <2>2 DEF Reaches
  <2> QED
    BY <1>1, <2>1, <2>3 DEF OnPath
<1>4. Takes(b, taken, m) /\ Sound(taken)
  <2> HIDE DEF b, m
  <2>1. Sound(taken)
    BY <1>1, <1>2, Handled DEF Follows
  <2> HIDE DEF taken
  <2> QED
    BY <1>1, <1>2, <1>3, <2>1, MessageTaken DEF taken
<1>5. /\ next.view = taken.view /\ next.cursor = taken.cursor /\ next.conn = taken.conn
      /\ next.awaiting = taken.awaiting
  <2> HIDE DEF b, m, taken
  <2>1. next = settled(taken)
    BY DEF taken, m, w, b
  <2> HIDE DEF next
  <2> QED
    BY <2>1, <1>4, SettledKeeps
<1>6. wire'[c] = IF next.conn = "offline" THEN <<>> ELSE Tail(w)
  BY DEF w
<1>7. next.view.state \in Int
  BY <1>4, <1>5, <1>1, BrowserShape
<1>8. Reads(b, next, w[1])
  <2> HIDE DEF b, m, taken, next, w
  <2> QED
    BY <1>2, <1>4, <1>5 DEF Takes, Reads, Holds
<1>9. m.type # "close" /\ b.conn # "offline" => next.conn # "offline"
  <2> HIDE DEF b, m, taken, next, w
  <2> QED
    BY <1>4, <1>5 DEF Takes
<1>10. c \in DOMAIN peers => Attended(w, b, peers[c]) /\ PeerOK(peers[c]) /\ peers[c].state \in Int
  BY PathFacts DEF PathOK
<1>11. \A i \in 1 .. Len(w) : w[i] \in Messages(version)
  BY <1>1
<1> HIDE DEF w, b, m, taken, next
<1>12. c \in DOMAIN peers => next.conn # "offline"
  BY <1>2, <1>9, <1>10 DEF Attended
<1>13. CASE next.conn = "offline"
  <2>1. wire'[c] = <<>>
    BY <1>6, <1>13
  <2>2. OnPath(<<>>, next)
    <3>1. DOMAIN <<>> = {}
      OBVIOUS
    <3> QED
      BY <1>8, <3>1 DEF OnPath
  <2>3. c \notin DOMAIN peers'
    BY <1>12, <1>13
  <2>4. OnPath(wire'[c], client'[c])
    BY <2>1, <2>2 DEF next
  <2> QED
    BY <2>3, <2>4, PathMoves
<1>14. CASE next.conn # "offline"
  <2>1. wire'[c] = Tail(w)
    BY <1>6, <1>14
  <2>2. ASSUME NEW i \in 1 .. Len(w), NEW n \in Int, Reaches(w, b, i + 1, n)
        PROVE  Reaches(Tail(w), next, i, n)
    BY <2>2, <1>1, <1>7, <1>8, TailReaches
  <2>3. ASSUME NEW i \in DOMAIN Tail(w)
        PROVE  Stamped(Tail(w)[i]) /\ Reaches(Tail(w), next, i, need(Tail(w)[i]))
    <3>1. i \in 1 .. Len(w) /\ i + 1 \in DOMAIN w /\ Tail(w)[i] = w[i + 1]
      BY <1>2
    <3>2. Stamped(w[i + 1]) /\ Reaches(w, b, i + 1, need(w[i + 1]))
      BY <1>1, <3>1 DEF OnPath
    <3>3. need(w[i + 1]) \in Int
      <4>1. w[i + 1] \in Messages(version)
        BY <1>2, <1>11, <3>1
      <4> QED
        BY <4>1, <1>1, MessageShapes
    <3> QED
      BY <3>1, <3>2, <3>3, <2>2
  <2>4. OnPath(Tail(w), next)
    BY <2>3, <1>8, <1>14 DEF OnPath
  <2>5. ASSUME c \in DOMAIN peers'
        PROVE  Attended(Tail(w), next, peers'[c]) /\ PeerOK(peers'[c])
    <3>1. Attended(w, b, peers[c]) /\ PeerOK(peers[c]) /\ peers[c].state \in Int
      BY <1>10, <2>5
    <3>2. Len(w) \in 1 .. Len(w)
      BY <1>2
    <3>3. Reaches(Tail(w), next, Len(w), peers[c].state)
      BY <2>2, <3>1, <3>2 DEF Attended
    <3>4. \A i \in DOMAIN Tail(w) : Tail(w)[i].type # "close"
      <4>1. SUFFICES ASSUME NEW i \in DOMAIN Tail(w) PROVE Tail(w)[i].type # "close"
        OBVIOUS
      <4>2. i + 1 \in DOMAIN w /\ Tail(w)[i] = w[i + 1]
        BY <1>2
      <4> QED
        BY <4>2, <3>1 DEF Attended
    <3> QED
      BY <3>1, <3>3, <3>4, <1>2, <1>14 DEF Attended
  <2>6. OnPath(wire'[c], client'[c])
    BY <2>1, <2>4 DEF next
  <2>7. c \in DOMAIN peers' => Attended(wire'[c], client'[c], peers'[c]) /\ PeerOK(peers'[c])
    BY <2>1, <2>5 DEF next
  <2> QED
    BY <2>6, <2>7, PathMoves
<1> QED
  BY <1>13, <1>14

\* The browser's view grows by an HTTP reply.
LEMMA PathGrows ==
  ASSUME HubInv, commits' = commits, peers' = peers, NEW c \in Clients, PathOK(c),
         wire'[c] = wire[c], client'[c].view.state \in Int,
         client'[c].view.state >= client[c].view.state,
         client'[c].conn = client[c].conn, client'[c].awaiting = client[c].awaiting
  PROVE  PathOK(c)'
<1> DEFINE w == wire[c]
           b == client[c]
           next == client'[c]
<1>1. /\ version \in Nat /\ w \in Seq(Messages(version)) /\ b.view.state \in Int
      /\ Sound(b) /\ OnPath(w, b)
  BY PathFacts DEF PathOK
<1>2. ASSUME NEW i, NEW n \in Int, Reaches(w, b, i, n) PROVE Reaches(w, next, i, n)
  BY <1>1, <1>2, GrowthReaches
<1>3. ASSUME NEW i \in DOMAIN w
      PROVE  Stamped(w[i]) /\ Reaches(w, next, i, need(w[i]))
  <2>1. Stamped(w[i]) /\ Reaches(w, b, i, need(w[i]))
    BY <1>1 DEF OnPath
  <2>2. need(w[i]) \in Int
    <3>1. w[i] \in Messages(version)
      BY <1>1
    <3> QED
      BY <3>1, <1>1, MessageShapes
  <2> QED
    BY <2>1, <2>2, <1>2
<1>5. OnPath(w, next)
  <2>1. next.conn = "offline" => w = <<>>
    BY <1>1 DEF OnPath
  <2> HIDE DEF w, next
  <2> QED
    BY <1>3, <2>1 DEF OnPath
<1>6. ASSUME c \in DOMAIN peers PROVE Attended(w, next, peers[c]) /\ PeerOK(peers[c])
  <2>1. Attended(w, b, peers[c]) /\ PeerOK(peers[c]) /\ peers[c].state \in Int
    BY <1>6, PathFacts DEF PathOK
  <2>2. Reaches(w, next, Len(w) + 1, peers[c].state)
    BY <2>1, <1>2 DEF Attended
  <2> QED
    BY <2>1, <2>2 DEF Attended
<1> QED
  BY <1>5, <1>6, PathMoves

-----------------------------------------------------------------------------
(* One step per action.                                                    *)

\* Only one peer's record is touched, and its base stays.
LEMMA OnePeerStays ==
  ASSUME Paths, UNCHANGED <<commits, wire, client>>, NEW c \in DOMAIN peers, NEW p,
         peers' = [peers EXCEPT ![c] = p], PeerOK(p), p.state = peers[c].state
  PROVE  Paths'
<1>1. ASSUME NEW d \in Clients PROVE PathOK(d)'
  <2>1. PathOK(d)
    BY DEF Paths
  <2>2. wire'[d] = wire[d] /\ client'[d] = client[d] /\ commits' = commits
    OBVIOUS
  <2>3. ASSUME d \in DOMAIN peers'
        PROVE  /\ d \in DOMAIN peers /\ PeerOK(peers'[d])
               /\ peers'[d].state = peers[d].state
    <3>1. d \in DOMAIN peers
      BY <2>3
    <3>2. CASE d = c
      BY <3>1, <3>2
    <3>3. CASE d # c
      <4>1. peers'[d] = peers[d]
        BY <3>1, <3>3
      <4> QED
        BY <4>1, <3>1, <2>1 DEF PathOK
    <3> QED
      BY <3>2, <3>3
  <2> QED
    BY <2>1, <2>2, <2>3, PathStays
<1> QED
  BY <1>1 DEF Paths

\* Only one browser is served.
LEMMA OnePeerServed ==
  ASSUME HubInv, Paths, UNCHANGED <<commits, client>>, NEW c \in Clients, c \in DOMAIN peers,
         NEW p, peers' = [peers EXCEPT ![c] = p], p.state \in Int, PeerOK(p),
         NEW out, Sends(out, peers[c], p), send(c, out)
  PROVE  Paths'
<1>0. wire' = [wire EXCEPT ![c] = wire[c] \o out] /\ DOMAIN wire = Clients
  BY DEF send, HubInv, WireOK
<1>1. ASSUME NEW d \in Clients PROVE PathOK(d)'
  <2>1. PathOK(d) /\ client'[d] = client[d] /\ commits' = commits
    BY DEF Paths
  <2>2. CASE d = c
    <3>1. peers'[d] = p /\ d \in DOMAIN peers
      BY <2>2
    <3>2. wire'[d] = wire[d] \o out
      BY <1>0, <2>2
    <3>3. Sends(out, peers[d], peers'[d]) /\ PeerOK(peers'[d]) /\ peers'[d].state \in Int
      BY <2>2, <3>1
    <3> QED
      BY <2>1, <3>1, <3>2, <3>3, PathServed
  <2>3. CASE d # c
    <3>1. wire'[d] = wire[d]
      BY <1>0, <2>3
    <3>2. d \in DOMAIN peers' => d \in DOMAIN peers /\ peers'[d] = peers[d]
      BY <2>3
    <3>3. d \in DOMAIN peers => PeerOK(peers[d])
      BY <2>1 DEF PathOK
    <3> QED
      BY <2>1, <3>1, <3>2, <3>3, PathStays
  <2> QED
    BY <2>2, <2>3
<1> QED
  BY <1>1 DEF Paths

LEMMA AttachPath ==
  ASSUME HubInv, Paths, NEW c \in Clients, Attach(c)
  PROVE  Paths'
<1> DEFINE b == [client[c] EXCEPT !.conn = "open", !.awaiting = FALSE]
<1>0. /\ client[c].conn = "offline" /\ c \notin DOMAIN peers
      /\ client' = [client EXCEPT ![c] = b] /\ DOMAIN client = Clients
      /\ peers' = [d \in DOMAIN peers \cup {c} |-> IF d = c THEN NewPeer ELSE peers[d]]
      /\ wire' = wire /\ commits' = commits
  BY DEF Attach, HubInv, ClientOK
<1>1. Sound(client[c]) /\ version \in Nat /\ client[c] \in Browsers(version)
  BY PathFacts DEF Sound
<1>2. b.view = client[c].view /\ b.cursor = client[c].cursor /\ b.conn = "open"
  BY <1>1 DEF Browsers
<1>3. client'[c] = b /\ \A d \in Clients \ {c} : client'[d] = client[d]
  BY <1>0
<1> HIDE DEF b
<1>4. OnPath(wire[c], client[c]) /\ wire[c] = <<>> /\ wire'[c] = <<>>
  BY <1>0 DEF Paths, PathOK, OnPath
<1>5. DOMAIN <<>> = {} /\ Len(<<>>) = 0
  OBVIOUS
<1>6. OnPath(<<>>, b)
  BY <1>2, <1>4, <1>5 DEF OnPath
<1>7. peers'[c] = NewPeer /\ c \in DOMAIN peers'
  BY <1>0
<1>8. Attended(<<>>, b, NewPeer)
  <2>1. b.view.state >= -1
    BY <1>1, <1>2, BrowserShape
  <2>2. Reaches(<<>>, b, 1, -1)
    BY <2>1 DEF Reaches, Holds
  <2>3. NewPeer.state = -1
    BY DEF NewPeer
  <2> QED
    BY <2>2, <2>3, <1>2, <1>5 DEF Attended
<1>9. PeerOK(NewPeer)
  BY <1>5 DEF PeerOK, NewPeer
<1>10. PathOK(c)'
  BY <1>0, <1>3, <1>4, <1>6, <1>7, <1>8, <1>9, PathMoves
<1>11. ASSUME NEW d \in Clients, d # c PROVE PathOK(d)'
  <2>1. PathOK(d) /\ wire'[d] = wire[d] /\ client'[d] = client[d]
    BY <1>0, <1>3, <1>11 DEF Paths
  <2>2. d \in DOMAIN peers' => d \in DOMAIN peers /\ peers'[d] = peers[d]
    BY <1>0, <1>11
  <2>3. d \in DOMAIN peers => PeerOK(peers[d])
    BY <2>1 DEF PathOK
  <2> QED
    BY <1>0, <2>1, <2>2, <2>3, PathStays
<1> QED
  BY <1>10, <1>11 DEF Paths

LEMMA SynchronizingPath ==
  ASSUME HubInv, Paths, NEW c \in Clients,
         RequestSynchronization(c) \/ ReadStreamTail(c) \/ ReadRoom(c)
  PROVE  Paths'
<1>0. UNCHANGED <<commits, wire, client>>
  BY DEF RequestSynchronization, ReadStreamTail, ReadRoom
<1>1. CASE peers' = peers
  <2>1. ASSUME NEW d \in Clients PROVE PathOK(d)'
    <3>1. PathOK(d) /\ wire'[d] = wire[d] /\ client'[d] = client[d]
      BY <1>0 DEF Paths
    <3>2. d \in DOMAIN peers => PeerOK(peers[d])
      BY <3>1 DEF PathOK
    <3> QED
      BY <1>0, <1>1, <3>1, <3>2, PathStays
  <2> QED
    BY <2>1 DEF Paths
<1>2. CASE c \in DOMAIN peers
  <2> DEFINE p == peers[c]
             q1 == [p EXCEPT !.sync = "tail", !.ready = FALSE]
             q2 == [p EXCEPT !.again = TRUE]
             q3 == [p EXCEPT !.sync = "room", !.tail = version]
             q4 == [p EXCEPT !.sync = "send", !.room = version]
  <2>1. p \in Peers(version) /\ version \in Nat
    BY <1>2, PathFacts
  <2>2. PeerOK(p)
    BY <1>2 DEF Paths, PathOK
  <2>3. /\ p.tail \in 0 .. version /\ p.state \in -1 .. version
        /\ q1.sync = "tail" /\ q1.state = p.state /\ q1.pending = p.pending
        /\ q2.sync = p.sync /\ q2.state = p.state /\ q2.pending = p.pending
        /\ q2.cursor = p.cursor /\ q2.doc = p.doc /\ q2.tail = p.tail /\ q2.room = p.room
        /\ q3.sync = "room" /\ q3.state = p.state /\ q3.pending = p.pending
        /\ q4.sync = "send" /\ q4.state = p.state /\ q4.pending = p.pending
        /\ q4.tail = p.tail /\ q4.room = version
    BY <2>1 DEF Peers
  <2>4. \/ peers' = [peers EXCEPT ![c] = q1] \/ peers' = [peers EXCEPT ![c] = q2]
        \/ peers' = [peers EXCEPT ![c] = q3] \/ peers' = [peers EXCEPT ![c] = q4]
    BY <1>2, Zenon DEF RequestSynchronization, ReadStreamTail, ReadRoom
  <2> HIDE DEF p, q1, q2, q3, q4
  <2>5. PeerOK(q1) /\ PeerOK(q2) /\ PeerOK(q3) /\ PeerOK(q4)
    BY <2>1, <2>2, <2>3 DEF PeerOK
  <2>6. /\ q1.state = peers[c].state /\ q2.state = peers[c].state
        /\ q3.state = peers[c].state /\ q4.state = peers[c].state
    BY <2>3 DEF p
  <2>7. CASE peers' = [peers EXCEPT ![c] = q1]
    BY <1>0, <1>2, <2>5, <2>6, <2>7, OnePeerStays
  <2>8. CASE peers' = [peers EXCEPT ![c] = q2]
    BY <1>0, <1>2, <2>5, <2>6, <2>8, OnePeerStays
  <2>9. CASE peers' = [peers EXCEPT ![c] = q3]
    BY <1>0, <1>2, <2>5, <2>6, <2>9, OnePeerStays
  <2>10. CASE peers' = [peers EXCEPT ![c] = q4]
    BY <1>0, <1>2, <2>5, <2>6, <2>10, OnePeerStays
  <2> QED
    BY <2>4, <2>7, <2>8, <2>9, <2>10
<1> QED
  BY <1>1, <1>2 DEF RequestSynchronization, ReadStreamTail, ReadRoom

\* A synchronization that is over keeps its peer's base.
LEMMA SynchronizedKeeps ==
  ASSUME version \in Nat, NEW p \in Peers(version), p.state >= 0,
         p.doc = roomRevision(p.state),
         \A i \in DOMAIN p.pending : p.pending[i].cursor <= p.pending[i].event
  PROVE  synchronized(p).state = p.state /\ PeerOK(synchronized(p))
<1> DEFINE q1 == [p EXCEPT !.sync = "tail", !.again = FALSE, !.ready = FALSE]
           q2 == [p EXCEPT !.sync = "no", !.ready = TRUE]
<1>1. /\ q1.sync = "tail" /\ q1.state = p.state /\ q1.pending = p.pending
      /\ q2.sync = "no" /\ q2.state = p.state /\ q2.pending = p.pending
      /\ q2.doc = p.doc
  BY DEF Peers
<1>2. synchronized(p) = IF p.again THEN q1 ELSE q2
  BY Zenon DEF synchronized
<1> HIDE DEF q1, q2
<1>3. PeerOK(q1) /\ PeerOK(q2)
  BY <1>1 DEF PeerOK
<1> QED
  BY <1>1, <1>2, <1>3

LEMMA SynchronizePath ==
  ASSUME HubInv, Paths, NEW c \in Clients, Synchronize(c)
  PROVE  Paths'
<1> DEFINE p == peers[c]
           base == based(p)
           flushing == [base EXCEPT !.sync = "flush"]
           next == IF base.pending = <<>> THEN synchronized(base) ELSE flushing
           m == [type |-> "snapshot", cursor |-> p.tail, room |-> p.room]
<1>1. /\ c \in DOMAIN peers /\ p.sync = "send" /\ p \in Peers(version) /\ version \in Nat
      /\ commits \in Seq(Kinds) /\ PeerOK(p)
  BY PathFacts DEF Synchronize, Paths, PathOK
<1>2. /\ p.tail \in 0 .. version /\ p.room \in 0 .. version /\ p.tail <= p.room
      /\ p.state \in -1 .. version
  BY <1>1, PeerShape DEF PeerOK
<1>3. base \in Peers(version) /\ base.sync = "send" /\ base.pending = p.pending
  BY <1>1, Based
<1>4. /\ base.state = p.room /\ base.doc = roomRevision(p.room) /\ base.cursor = p.tail
      /\ base.tail = 0 /\ base.room = 0
  <2>1. base = [p EXCEPT !.state = p.room, !.doc = roomRevision(p.room), !.cursor = p.tail,
                         !.tail = 0, !.room = 0]
    BY Zenon DEF based
  <2> HIDE DEF base, p
  <2> QED
    BY <2>1, <1>1 DEF Peers
<1>5. peers' = [peers EXCEPT ![c] = next] /\ send(c, <<m>>) /\ UNCHANGED <<commits, client>>
  BY Zenon DEF Synchronize
<1> HIDE DEF base
<1>6. /\ flushing.sync = "flush" /\ flushing.state = base.state /\ flushing.pending = base.pending
      /\ flushing.cursor = base.cursor /\ flushing.doc = base.doc
  BY <1>3 DEF Peers
<1> HIDE DEF flushing, p
<1>7. /\ PeerOK(flushing)
      /\ \A i \in DOMAIN base.pending : base.pending[i].cursor <= base.pending[i].event
  BY <1>1, <1>2, <1>3, <1>4, <1>6 DEF PeerOK
<1>8. PeerOK(next) /\ next.state = p.room
  <2>1. synchronized(base).state = base.state /\ PeerOK(synchronized(base))
    BY <1>1, <1>2, <1>3, <1>4, <1>7, SynchronizedKeeps
  <2> QED
    BY <2>1, <1>4, <1>6, <1>7
<1>9. Sends(<<m>>, p, next)
  <2>1. m \in Messages(version)
    BY <1>2 DEF Messages
  <2>2. Passes(m, p, next)
    BY <1>2, <1>8 DEF Passes, Stamped, Levelled, level, need
  <2> HIDE DEF m, next
  <2> QED
    BY <2>1, <2>2 DEF Sends
<1>10. next.state \in Int
  BY <1>2, <1>8
<1> HIDE DEF next, m
<1> QED
  BY <1>1, <1>5, <1>8, <1>9, <1>10, OnePeerServed DEF p

LEMMA SignalsStay ==
  ASSUME SignalsInOrder, NEW e, NEW cursor, cursor <= e,
         requestRoomReconciliation(e, cursor) \/ UNCHANGED <<signals, recon>>
  PROVE  SignalsInOrder'
BY DEF SignalsInOrder, requestRoomReconciliation, Larger

LEMMA FlushPath ==
  ASSUME HubInv, Paths, SignalsInOrder, NEW c \in Clients, FlushPending(c)
  PROVE  Paths' /\ SignalsInOrder'
<1> DEFINE p == peers[c]
           pending == p.pending
           d(i) == deliverEvent(p, pending[i].event, pending[i].cursor)
           left(i) == SubSeq(pending, 1, i - 1) \o SubSeq(pending, i + 1, Len(pending))
           q(i) == [d(i).peer EXCEPT !.pending = left(i)]
           next(i) == IF left(i) = <<>> THEN synchronized(q(i)) ELSE q(i)
<1>1. /\ c \in DOMAIN peers /\ p.sync = "flush" /\ p \in Peers(version) /\ version \in Nat
      /\ commits \in Seq(Kinds) /\ PeerOK(p)
  BY PathFacts DEF FlushPending, Paths, PathOK
<1>2. PICK i \in DOMAIN pending :
        /\ peers' = [peers EXCEPT ![c] = next(i)]
        /\ send(c, d(i).out)
        /\ requestRoomReconciliation(pending[i].event, pending[i].cursor)
             \/ UNCHANGED <<signals, recon>>
  BY Zenon DEF FlushPending
<1>3. UNCHANGED <<commits, client>>
  BY DEF FlushPending
<1> DEFINE e == pending[i].event
           k == pending[i].cursor
<1>4. e \in 1 .. version /\ k \in 0 .. version /\ k <= e
  <2>1. pending \in Seq(Entries(version))
    BY <1>1, PeerShape
  <2>2. pending[i].cursor <= pending[i].event
    BY <1>1 DEF PeerOK
  <2> HIDE DEF pending
  <2>3. pending[i] \in Entries(version)
    BY <2>1, <1>2
  <2> QED
    BY <2>2, <2>3 DEF Entries
<1>5. left(i) \in Seq(Entries(version)) /\ \A j \in DOMAIN left(i) : left(i)[j].cursor <= left(i)[j].event
  <2> DEFINE u == SubSeq(pending, 1, i - 1)
             v == SubSeq(pending, i + 1, Len(pending))
             Ordered == {x \in Entries(version) : x.cursor <= x.event}
  <2>1. pending \in Seq(Entries(version)) /\ i \in 1 .. Len(pending) /\ Len(pending) \in Nat
    BY <1>1, <1>2, PeerShape
  <2>2. \A j \in 1 .. Len(pending) : pending[j] \in Ordered
    BY <2>1, <1>1 DEF PeerOK
  <2> HIDE DEF pending, Ordered
  <2>3. pending \in Seq(Ordered)
    BY <2>1, <2>2
  <2>4. /\ \A j \in 1 .. i - 1 : pending[j] \in Ordered
        /\ \A j \in i + 1 .. Len(pending) : pending[j] \in Ordered
    BY <2>1, <2>2
  <2>5. u \in Seq(Ordered) /\ v \in Seq(Ordered)
    BY <2>1, <2>3, <2>4, SubSeqProperties
  <2>6. u \o v \in Seq(Ordered)
    BY <2>5
  <2>7. left(i) = u \o v
    OBVIOUS
  <2> HIDE DEF left, u, v
  <2>8. left(i) \in Seq(Ordered) /\ Ordered \subseteq Entries(version)
    BY <2>6, <2>7 DEF Ordered
  <2>9. left(i) \in Seq(Entries(version))
    BY <2>8, SeqMonotonic
  <2>10. \A j \in DOMAIN left(i) : left(i)[j] \in Ordered
    BY <2>8
  <2> QED
    BY <2>9, <2>10 DEF Ordered
<1> HIDE DEF left
<1>6. /\ d(i).peer \in Peers(version) /\ d(i).peer.sync = p.sync
      /\ Sends(d(i).out, p, d(i).peer) /\ PeerOK(d(i).peer)
  <2> HIDE DEF p, pending
  <2>1. d(i).peer \in Peers(version) /\ d(i).peer.sync = p.sync
    BY <1>1, <1>4, Delivered
  <2>2. Sends(d(i).out, p, d(i).peer) /\ PeerOK(d(i).peer)
    BY <1>1, <1>4, DeliveredSends
  <2> QED
    BY <2>1, <2>2
<1> HIDE DEF d
<1>7. /\ q(i).state = d(i).peer.state /\ q(i).doc = d(i).peer.doc /\ q(i).sync = "flush"
      /\ q(i).cursor = d(i).peer.cursor /\ q(i).pending = left(i)
  BY <1>1, <1>6 DEF Peers
<1>8. q(i) \in Peers(version)
  BY <1>1, <1>5, <1>6, PeerFields
<1> HIDE DEF q, p
<1>9. q(i).state >= 0 /\ q(i).doc = roomRevision(q(i).state)
  BY <1>1, <1>6, <1>7 DEF PeerOK
<1>10. PeerOK(q(i))
  BY <1>5, <1>7, <1>9 DEF PeerOK
<1>11. PeerOK(next(i)) /\ next(i).state = d(i).peer.state
  <2>1. synchronized(q(i)).state = q(i).state /\ PeerOK(synchronized(q(i)))
    BY <1>1, <1>8, <1>9, <1>10, SynchronizedKeeps DEF PeerOK
  <2> QED
    BY <2>1, <1>7, <1>10
<1>12. next(i).state \in Int
  BY <1>1, <1>6, <1>11, PeerShape
<1> HIDE DEF next
<1>13. Sends(d(i).out, p, next(i))
  BY <1>6, <1>11 DEF Sends, Passes
<1>14. Paths'
  BY <1>1, <1>2, <1>3, <1>11, <1>12, <1>13, OnePeerServed DEF p
<1>15. SignalsInOrder'
  BY <1>2, <1>4, SignalsStay
<1> QED
  BY <1>14, <1>15

LEMMA QueuedInOrder ==
  ASSUME version \in Nat, NEW pending \in Seq(Entries(version)), NEW e \in 1 .. version,
         NEW cursor \in 0 .. version, cursor <= e,
         \A i \in DOMAIN pending : pending[i].cursor <= pending[i].event
  PROVE  \A i \in DOMAIN queuePending(pending, e, cursor) :
           queuePending(pending, e, cursor)[i].cursor <= queuePending(pending, e, cursor)[i].event
<1> DEFINE queue == Append(pending, Entry(e, cursor))
<1>0. \A x, y : Entry(x, y).event = x /\ Entry(x, y).cursor = y
  BY DEF Entry
<1>1. Entry(e, cursor) \in Entries(version)
  BY DEF Entry, Entries
<1>2. \A i \in DOMAIN pending : pending[i] \in Entries(version)
  OBVIOUS
<1>3. CASE \E i \in DOMAIN pending : pending[i].event = e
  <2> DEFINE merged == [i \in DOMAIN pending |->
               IF pending[i].event = e THEN Entry(e, Larger(pending[i].cursor, cursor))
               ELSE pending[i]]
  <2>1. queuePending(pending, e, cursor) = merged
    BY <1>3, Zenon DEF queuePending
  <2>2. ASSUME NEW i \in DOMAIN merged PROVE merged[i].cursor <= merged[i].event
    <3>1. i \in DOMAIN pending
      OBVIOUS
    <3>2. CASE pending[i].event = e
      <4>1. merged[i] = Entry(e, Larger(pending[i].cursor, cursor))
        BY <3>1, <3>2
      <4>2. Larger(pending[i].cursor, cursor) <= e
        BY <3>1, <3>2 DEF Larger
      <4> HIDE DEF merged
      <4> QED
        BY <4>1, <4>2, <1>0
    <3>3. CASE pending[i].event # e
      BY <3>1, <3>3
    <3> QED
      BY <3>2, <3>3
  <2> HIDE DEF merged
  <2> QED
    BY <2>1, <2>2
<1>4. CASE ~\E i \in DOMAIN pending : pending[i].event = e
  <2>1. queuePending(pending, e, cursor) = IF Len(queue) > MaxPending THEN Tail(queue) ELSE queue
    BY <1>4, Zenon DEF queuePending
  <2>2. ASSUME NEW i \in DOMAIN queue PROVE queue[i].cursor <= queue[i].event
    <3>1. CASE i \in DOMAIN pending
      <4>1. queue[i] = pending[i]
        BY <3>1, <1>1
      <4> QED
        BY <4>1, <3>1
    <3>2. CASE i \notin DOMAIN pending
      <4>1. queue[i] = Entry(e, cursor)
        BY <3>2, <1>1
      <4> QED
        BY <4>1, <1>0
    <3> QED
      BY <3>1, <3>2
  <2>3. queue \in Seq(Entries(version)) /\ queue # <<>>
    BY <1>1
  <2> HIDE DEF queue
  <2>4. ASSUME NEW i \in DOMAIN Tail(queue)
        PROVE  Tail(queue)[i].cursor <= Tail(queue)[i].event
    <3>1. i + 1 \in DOMAIN queue /\ Tail(queue)[i] = queue[i + 1]
      BY <2>3
    <3> QED
      BY <3>1, <2>2
  <2> QED
    BY <2>1, <2>2, <2>4
<1> QED
  BY <1>3, <1>4

LEMMA BroadcastPath ==
  ASSUME HubInv, Paths, SignalsInOrder, UNCHANGED <<commits, client>>,
         NEW e \in 1 .. version, NEW cursor \in 0 .. version, cursor <= e,
         broadcastEvent(e, cursor)
  PROVE  Paths' /\ SignalsInOrder'
<1> DEFINE d(c) == deliverEvent(peers[c], e, cursor)
           ready == {c \in DOMAIN peers : peers[c].ready}
           queue(c) == queuePending(peers[c].pending, e, cursor)
           queued(c) == [peers[c] EXCEPT !.pending = queue(c)]
<1>1. /\ peers' = [c \in DOMAIN peers |-> IF c \in ready THEN d(c).peer ELSE queued(c)]
      /\ wire' = [c \in Clients |-> IF c \in ready THEN wire[c] \o d(c).out ELSE wire[c]]
  BY Zenon DEF broadcastEvent
<1>2. SignalsInOrder'
  <2>1. requestRoomReconciliation(e, cursor) \/ UNCHANGED <<signals, recon>>
    BY DEF broadcastEvent
  <2> QED
    BY <2>1, SignalsStay
<1> HIDE DEF d, queued
<1>3. ASSUME NEW c \in Clients PROVE PathOK(c)'
  <2>1. PathOK(c) /\ commits' = commits /\ client'[c] = client[c] /\ version \in Nat
        /\ commits \in Seq(Kinds)
    BY PathFacts DEF Paths
  <2>2. CASE c \in ready
    <3>1. c \in DOMAIN peers /\ peers[c].sync = "no" /\ peers[c] \in Peers(version) /\ PeerOK(peers[c])
      BY <2>1, <2>2, PathFacts DEF PathOK
    <3>2. peers'[c] = d(c).peer /\ wire'[c] = wire[c] \o d(c).out
      BY <1>1, <2>2, <3>1
    <3>3. Sends(d(c).out, peers[c], d(c).peer) /\ PeerOK(d(c).peer)
      BY <2>1, <3>1, DeliveredSends DEF d
    <3>4. d(c).peer.state \in Int
      <4>1. d(c).peer \in Peers(version)
        BY <2>1, <3>1, Delivered DEF d
      <4> QED
        BY <4>1, <2>1, PeerShape
    <3>5. Sends(d(c).out, peers[c], peers'[c]) /\ PeerOK(peers'[c]) /\ peers'[c].state \in Int
      BY <3>2, <3>3, <3>4
    <3> QED
      BY <2>1, <3>1, <3>2, <3>5, PathServed
  <2>3. CASE c \notin ready
    <3>1. wire'[c] = wire[c]
      BY <1>1, <2>3
    <3>2. ASSUME c \in DOMAIN peers'
          PROVE  c \in DOMAIN peers /\ PeerOK(peers'[c]) /\ peers'[c].state = peers[c].state
      <4>1. c \in DOMAIN peers /\ peers'[c] = queued(c)
        BY <1>1, <2>3, <3>2
      <4>2. peers[c] \in Peers(version) /\ PeerOK(peers[c])
        BY <2>1, <4>1, PathFacts DEF PathOK
      <4>3. \A i \in DOMAIN queue(c) : queue(c)[i].cursor <= queue(c)[i].event
        <5>1. peers[c].pending \in Seq(Entries(version))
          BY <2>1, <4>2, PeerShape
        <5>2. \A i \in DOMAIN peers[c].pending :
                peers[c].pending[i].cursor <= peers[c].pending[i].event
          BY <4>2 DEF PeerOK
        <5> QED
          BY <2>1, <5>1, <5>2, QueuedInOrder
      <4> HIDE DEF queue
      <4>4. /\ queued(c).sync = peers[c].sync /\ queued(c).state = peers[c].state
            /\ queued(c).doc = peers[c].doc /\ queued(c).cursor = peers[c].cursor
            /\ queued(c).tail = peers[c].tail /\ queued(c).room = peers[c].room
            /\ queued(c).pending = queue(c)
        BY <4>2 DEF queued, Peers
      <4>5. PeerOK(queued(c))
        BY <4>2, <4>3, <4>4 DEF PeerOK
      <4> QED
        BY <4>1, <4>4, <4>5
    <3> QED
      BY <2>1, <3>1, <3>2, PathStays
  <2> QED
    BY <2>2, <2>3
<1> QED
  BY <1>2, <1>3 DEF Paths

LEMMA BroadcastStepPath ==
  ASSUME HubInv, Paths, SignalsInOrder, ReadStream \/ \E e \in local : PublishLocal(e)
  PROVE  Paths' /\ SignalsInOrder'
<1>0. commits' = commits /\ client' = client
  BY DEF ReadStream, PublishLocal
<1>1. version \in Nat /\ reader \in Off .. version /\ local \subseteq 1 .. version
  BY Versions DEF HubInv, RestOK
<1>2. CASE ReadStream
  <2>1. reader' \in 1 .. version /\ reader' \in 0 .. version /\ broadcastEvent(reader', reader')
    BY <1>1, <1>2 DEF ReadStream, Off
  <2>2. PICK e \in 1 .. version : e = reader' /\ e \in 0 .. version
    BY <2>1
  <2>3. broadcastEvent(e, e) /\ e <= e
    BY <2>1, <2>2
  <2> QED
    BY <1>0, <2>2, <2>3, BroadcastPath
<1>3. ASSUME NEW e \in local, PublishLocal(e) PROVE Paths' /\ SignalsInOrder'
  <2>1. e \in 1 .. version /\ 0 \in 0 .. version /\ 0 <= e /\ broadcastEvent(e, 0)
    BY <1>1, <1>3 DEF PublishLocal
  <2> QED
    BY <1>0, <2>1, BroadcastPath
<1> QED
  BY <1>2, <1>3

\* Steps that send nothing and touch no peer and no browser.
LEMMA QuietPath ==
  ASSUME Paths, UNCHANGED <<commits, peers, wire, client>>
  PROVE  Paths'
<1>1. ASSUME NEW d \in Clients PROVE PathOK(d)'
  <2>1. PathOK(d) /\ wire'[d] = wire[d] /\ client'[d] = client[d]
    BY DEF Paths
  <2>2. d \in DOMAIN peers => PeerOK(peers[d])
    BY <2>1 DEF PathOK
  <2> QED
    BY <2>1, <2>2, PathStays
<1> QED
  BY <1>1 DEF Paths

LEMMA ReconcilePath ==
  ASSUME HubInv, HubInv', Paths, SignalsInOrder, NEW whole \in BOOLEAN, ReconcileRoom(whole)
  PROVE  Paths' /\ SignalsInOrder'
<1>0. commits' = commits /\ client' = client
  BY DEF ReconcileRoom
<1>1. CASE DOMAIN peers = {}
  <2>1. signals' = NoEvents /\ UNCHANGED <<peers, wire>>
    BY <1>1 DEF ReconcileRoom
  <2>2. SignalsInOrder'
    BY <2>1 DEF SignalsInOrder, NoEvents
  <2> QED
    BY <1>0, <2>1, <2>2, QuietPath
<1>2. CASE DOMAIN peers # {}
  <2> DEFINE n == recon.room
             satisfied == {e \in DOMAIN signals : e <= n}
             rest == DOMAIN signals \ satisfied
             cursors(peer) == {peer.cursor} \cup {signals[e] : e \in satisfied}
             cursorOf(peer) == CHOOSE k \in cursors(peer) : \A l \in cursors(peer) : l <= k
             next(c) == caughtUp(peers[c], n, cursorOf(peers[c]))
             messages(c) == catchUpMessages(peers[c], n, cursorOf(peers[c]), whole)
  <2>1. /\ peers' = [c \in DOMAIN peers |-> IF peers[c].ready THEN next(c) ELSE peers[c]]
        /\ wire' = [c \in Clients |->
             IF c \in DOMAIN peers /\ peers[c].ready THEN wire[c] \o messages(c) ELSE wire[c]]
        /\ signals' = [e \in rest |-> signals[e]]
    BY <1>2, Zenon DEF ReconcileRoom
  <2>2. n \in 0 .. version /\ version \in Nat /\ commits \in Seq(Kinds)
        /\ DOMAIN signals \subseteq 1 .. version /\ \A e \in DOMAIN signals : signals[e] \in 0 .. version
    BY Versions DEF HubInv, SignalsOK, RestOK
  <2>3. SignalsInOrder'
    <3> HIDE DEF satisfied
    <3> QED
      BY <2>1 DEF SignalsInOrder
  <2>4. ASSUME NEW c \in DOMAIN peers, c \in Clients, peers[c].ready
        PROVE  /\ Sends(messages(c), peers[c], next(c)) /\ PeerOK(next(c))
               /\ next(c).state \in Int
    <3>1. peers[c] \in Peers(version) /\ peers[c].sync = "no" /\ PeerOK(peers[c])
      BY <2>4, PathFacts DEF Paths, PathOK
    <3>2. peers[c].cursor \in 0 .. version
      BY <2>2, <3>1, PeerShape
    <3>3. cursors(peers[c]) \in SUBSET (0 .. version) /\ cursors(peers[c]) # {}
      BY <2>2, <3>2
    <3>4. /\ cursorOf(peers[c]) \in cursors(peers[c])
          /\ cursorOf(peers[c]) \in 0 .. version
      <4> HIDE DEF cursors
      <4> QED
        BY <2>2, <3>3, GreatestCursor
    <3> HIDE DEF cursorOf, n
    <3>7. Sends(messages(c), peers[c], next(c)) /\ PeerOK(next(c))
      BY <2>2, <3>1, <3>4, CaughtUpSends
    <3>8. next(c) \in Peers(version)
      BY <2>2, <3>1, <3>4, CaughtUp
    <3>9. next(c).state \in Int
      <4> HIDE DEF next
      <4> QED
        BY <2>2, <3>8, PeerShape
    <3> QED
      BY <3>7, <3>9
  <2> HIDE DEF next, messages
  <2>5. ASSUME NEW c \in Clients PROVE PathOK(c)'
    <3>1. PathOK(c) /\ client'[c] = client[c]
      BY <1>0 DEF Paths
    <3>2. CASE c \in DOMAIN peers /\ peers[c].ready
      <4>1. peers'[c] = next(c) /\ wire'[c] = wire[c] \o messages(c) /\ c \in DOMAIN peers
        BY <2>1, <3>2
      <4>2. Sends(messages(c), peers[c], peers'[c]) /\ PeerOK(peers'[c]) /\ peers'[c].state \in Int
        BY <2>4, <3>2, <4>1
      <4> QED
        BY <1>0, <3>1, <4>1, <4>2, PathServed
    <3>3. CASE ~(c \in DOMAIN peers /\ peers[c].ready)
      <4>1. wire'[c] = wire[c] /\ (c \in DOMAIN peers' => c \in DOMAIN peers /\ peers'[c] = peers[c])
        BY <2>1, <3>3
      <4>2. c \in DOMAIN peers => PeerOK(peers[c])
        BY <3>1 DEF PathOK
      <4> QED
        BY <1>0, <3>1, <4>1, <4>2, PathStays
    <3> QED
      BY <3>2, <3>3
  <2> QED
    BY <2>3, <2>5 DEF Paths
<1> QED
  BY <1>1, <1>2

LEMMA TroublePath ==
  ASSUME HubInv, Paths, SignalsInOrder, Trouble \/ \E c \in Clients : RequestSync(c)
  PROVE  Paths' /\ SignalsInOrder'
<1> DEFINE close == [type |-> "close"]
<1>0. commits' = commits /\ DOMAIN wire = Clients /\ DOMAIN client = Clients
  BY DEF Trouble, RequestSync, SynchronizationFails, ReconciliationFails, Disconnect,
         HubInv, WireOK, ClientOK
<1>1. SignalsInOrder'
  <2>1. signals' = signals \/ signals' = NoEvents
    BY DEF Trouble, RequestSync, SynchronizationFails, ReconciliationFails, Disconnect, hubVars
  <2> QED
    BY <2>1 DEF SignalsInOrder, NoEvents
<1>2. ASSUME NEW c \in Clients, RequestSync(c) PROVE Paths'
  BY <1>0, <1>2, QuietPath DEF RequestSync, hubVars
<1>3. ASSUME NEW c \in Clients, SynchronizationFails(c) PROVE Paths'
  <2>1. /\ c \in DOMAIN peers /\ client' = client
        /\ peers' = [d \in DOMAIN peers \ {c} |-> peers[d]]
        /\ wire' = [wire EXCEPT ![c] = wire[c] \o <<close>>]
    BY <1>3 DEF SynchronizationFails, detached, send
  <2>2. wire'[c] = Append(wire[c], close)
    <3>1. wire[c] \in Seq(Messages(version))
      BY PathFacts
    <3> QED
      BY <3>1, <2>1, <1>0
  <2>3. PathOK(c)'
    BY <1>0, <2>1, <2>2, PathCloses DEF Paths
  <2>4. ASSUME NEW d \in Clients, d # c PROVE PathOK(d)'
    <3>1. PathOK(d) /\ wire'[d] = wire[d] /\ client'[d] = client[d]
      BY <1>0, <2>1, <2>4 DEF Paths
    <3>2. d \in DOMAIN peers' => d \in DOMAIN peers /\ peers'[d] = peers[d] /\ PeerOK(peers[d])
      BY <2>1, <3>1 DEF PathOK
    <3> QED
      BY <1>0, <3>1, <3>2, PathStays
  <2> QED
    BY <2>3, <2>4 DEF Paths
<1>4. ASSUME ReconciliationFails PROVE Paths'
  <2>1. /\ client' = client /\ peers' = [d \in DOMAIN peers \ DOMAIN peers |-> peers[d]]
        /\ wire' = [c \in Clients |->
             IF c \in DOMAIN peers THEN Append(wire[c], close) ELSE wire[c]]
    BY <1>4 DEF ReconciliationFails, detached
  <2>2. ASSUME NEW d \in Clients PROVE PathOK(d)'
    <3>1. PathOK(d) /\ client'[d] = client[d] /\ d \notin DOMAIN peers'
      BY <2>1 DEF Paths
    <3>2. CASE d \in DOMAIN peers
      <4>1. wire'[d] = Append(wire[d], close)
        BY <2>1, <3>2
      <4> QED
        BY <1>0, <3>1, <3>2, <4>1, PathCloses
    <3>3. CASE d \notin DOMAIN peers
      <4>1. wire'[d] = wire[d]
        BY <2>1, <3>3
      <4> QED
        BY <1>0, <3>1, <4>1, PathStays
    <3> QED
      BY <3>2, <3>3
  <2> QED
    BY <2>2 DEF Paths
<1>5. ASSUME NEW c \in Clients, Disconnect(c) PROVE Paths'
  <2> DEFINE b == [client[c] EXCEPT !.conn = "offline"]
  <2>1. /\ peers' = [d \in DOMAIN peers \ {c} |-> peers[d]]
        /\ wire' = [wire EXCEPT ![c] = <<>>]
        /\ client' = [client EXCEPT ![c] = b]
    BY <1>5 DEF Disconnect, detached
  <2>2. b.view = client[c].view /\ b.cursor = client[c].cursor
    <3>1. client[c] \in Browsers(version)
      BY PathFacts DEF Sound
    <3> QED
      BY <3>1 DEF Browsers
  <2>3. client'[c] = b /\ wire'[c] = <<>> /\ c \notin DOMAIN peers' /\ DOMAIN <<>> = {}
    BY <1>0, <2>1
  <2> HIDE DEF b
  <2>4. OnPath(<<>>, b)
    BY <2>2, <2>3 DEF Paths, PathOK, OnPath
  <2>5. PathOK(c)'
    BY <1>0, <2>3, <2>4, PathMoves
  <2>6. ASSUME NEW d \in Clients, d # c PROVE PathOK(d)'
    <3>1. PathOK(d) /\ wire'[d] = wire[d] /\ client'[d] = client[d]
      BY <1>0, <2>1, <2>6 DEF Paths
    <3>2. d \in DOMAIN peers' => d \in DOMAIN peers /\ peers'[d] = peers[d] /\ PeerOK(peers[d])
      BY <2>1, <3>1 DEF PathOK
    <3> QED
      BY <1>0, <3>1, <3>2, PathStays
  <2> QED
    BY <2>5, <2>6 DEF Paths
<1> QED
  BY <1>1, <1>2, <1>3, <1>4, <1>5 DEF Trouble

LEMMA BrowserPath ==
  ASSUME HubInv, HubInv', Paths, SignalsInOrder, NEW c \in Clients, Browser(c)
  PROVE  Paths' /\ SignalsInOrder'
<1>0. /\ UNCHANGED <<commits, peers, signals>> /\ DOMAIN wire = Clients /\ DOMAIN client = Clients
  BY DEF Browser, Refresh, AcceptReply, Receive, hubVars, HubInv, WireOK, ClientOK
<1>1. SignalsInOrder'
  BY <1>0 DEF SignalsInOrder
<1>2. ASSUME NEW d \in Clients, wire'[d] = wire[d], client'[d] = client[d] PROVE PathOK(d)'
  <2>1. PathOK(d) /\ (d \in DOMAIN peers => PeerOK(peers[d]))
    BY DEF Paths, PathOK
  <2> QED
    BY <1>0, <1>2, <2>1, PathStays
<1>3. CASE Receive(c)
  <2> DEFINE b == settled(handleServerMessage(client[c], Head(wire[c])))
             w == IF b.conn = "offline" THEN <<>> ELSE Tail(wire[c])
  <2>1. wire[c] # <<>> /\ client' = [client EXCEPT ![c] = b] /\ wire' = [wire EXCEPT ![c] = w]
    BY <1>3 DEF Receive
  <2>2. client'[c] = b /\ wire'[c] = w
    BY <1>0, <2>1
  <2>3. PathOK(c)'
    <3>1. wire'[c] = IF client'[c].conn = "offline" THEN <<>> ELSE Tail(wire[c])
      BY <2>2
    <3>2. client'[c] = settled(handleServerMessage(client[c], Head(wire[c])))
      BY <2>2
    <3>3. PathOK(c)
      BY DEF Paths
    <3> HIDE DEF b, w
    <3> QED
      BY <1>0, <2>1, <3>1, <3>2, <3>3, PathTaken
  <2>4. \A d \in Clients \ {c} : wire'[d] = wire[d] /\ client'[d] = client[d]
    BY <1>0, <2>1
  <2> QED
    BY <1>1, <1>2, <2>3, <2>4 DEF Paths
<1>4. ASSUME NEW r, AcceptReply(c, r) PROVE Paths' /\ SignalsInOrder'
  <2> DEFINE b == accepted(client[c], r)
  <2>1. client' = [client EXCEPT ![c] = settled(b)] /\ wire' = wire /\ r \in Replies(version)
    BY <1>4 DEF AcceptReply, HubInv, RestOK
  <2>2. Sound(client[c]) /\ commits \in Seq(Kinds) /\ version \in Nat
        /\ client[c] \in Browsers(version)
    BY PathFacts DEF Sound
  <2>3. /\ Follows(b, client[c]) /\ b.conn = client[c].conn /\ b.cursor = client[c].cursor
        /\ b.awaiting = client[c].awaiting
    <3>1. CASE r.delta
      <4>1. r.room \in 0 .. version /\ b = acceptPresence(client[c], r.room)
        BY <2>1, <3>1 DEF Replies, accepted
      <4>2. Follows(b, client[c])
        BY <2>2, <4>1, Presence
      <4>3. /\ b.conn = client[c].conn /\ b.cursor = client[c].cursor
            /\ b.awaiting = client[c].awaiting
        <5> HIDE DEF b
        <5> QED
          BY <2>2, <4>1 DEF acceptPresence, Browsers
      <4> QED
        BY <4>2, <4>3
    <3>2. CASE ~r.delta
      <4> DEFINE view == reconcileRoomSnapshot(client[c].view, Room(r.room))
      <4>1. r.room \in 0 .. version /\ b = [client[c] EXCEPT !.view = view]
        BY <2>1, <3>2 DEF Replies, accepted
      <4>2. Real(view) /\ view.state >= client[c].view.state
        BY <2>2, <4>1, SnapshotIsReal DEF Sound
      <4> HIDE DEF view, b
      <4>3. Follows(b, client[c])
        BY <2>2, <4>1, <4>2, Viewing DEF Follows
      <4>4. /\ b.conn = client[c].conn /\ b.cursor = client[c].cursor
            /\ b.awaiting = client[c].awaiting
        BY <2>2, <4>1 DEF Browsers
      <4> QED
        BY <4>3, <4>4
    <3> QED
      BY <3>1, <3>2
  <2> HIDE DEF b
  <2>4. Sound(b) /\ b.view.state >= client[c].view.state
    BY <2>3 DEF Follows
  <2> DEFINE next == settled(b)
  <2>5. /\ next.view = b.view /\ next.conn = b.conn /\ next.cursor = b.cursor
        /\ next.awaiting = b.awaiting
    BY <2>4, SettledKeeps
  <2>6. b.view.state \in Int
    BY <2>2, <2>4, BrowserShape
  <2>7. client'[c] = next /\ wire'[c] = wire[c] /\ PathOK(c)
    BY <1>0, <2>1 DEF Paths
  <2> HIDE DEF next
  <2>8. PathOK(c)'
    BY <1>0, <2>3, <2>4, <2>5, <2>6, <2>7, PathGrows
  <2>9. \A d \in Clients \ {c} : wire'[d] = wire[d] /\ client'[d] = client[d]
    BY <1>0, <2>1
  <2> QED
    BY <1>1, <1>2, <2>8, <2>9 DEF Paths
<1>5. ASSUME NEW of \in {"poll", "event"}, Refresh(c, of) PROVE Paths' /\ SignalsInOrder'
  BY <1>0, <1>1, <1>5, QuietPath DEF Refresh
<1> QED
  BY <1>3, <1>4, <1>5 DEF Browser

\* A commit changes nothing of the versions before it.
LEMMA CommitPath ==
  ASSUME HubInv, Paths, SignalsInOrder, NEW kinds \in Writes, NEW here, NEW by,
         Commit(kinds, here, by)
  PROVE  Paths' /\ SignalsInOrder'
<1>1. kinds \in Seq(Kinds)
  <2>1. {"document", "live", "presence"} \subseteq Kinds
    BY DEF Kinds
  <2>2. \A k \in Kinds : <<k>> \in Seq(Kinds)
    OBVIOUS
  <2>3. \A k, l \in Kinds : <<k, l>> \in Seq(Kinds)
    OBVIOUS
  <2> QED
    BY <2>1, <2>2, <2>3 DEF Writes
<1>2. /\ commits' = commits \o kinds /\ UNCHANGED <<peers, signals, wire, client>>
      /\ commits \in Seq(Kinds) /\ version \in Nat
  BY Versions DEF Commit, hubVars, HubInv, RestOK
<1>3. \A e \in 1 .. version : commits'[e] = commits[e]
  BY <1>1, <1>2 DEF version
<1>4. ASSUME NEW n \in 0 .. version PROVE roomRevision(n)' = roomRevision(n)
  <2>0. version \in Nat /\ n \in Nat /\ n <= version
    BY <1>2
  <2>1. \A i \in 1 .. n : commits'[i] = commits[i]
    BY <1>3, <2>0
  <2>2. documents(n)' = documents(n)
    BY <2>1 DEF documents
  <2> QED
    BY <2>2 DEF roomRevision
<1>5. ASSUME NEW m \in Messages(version), Stamped(m) PROVE Stamped(m)'
  <2>1. m.type = "event" => m.event \in 1 .. version
    BY <1>2, MessageShapes
  <2> QED
    BY <1>3, <1>5, <2>1 DEF Stamped
<1>6. ASSUME NEW p \in Peers(version), PeerOK(p) PROVE PeerOK(p)'
  <2>1. p.state \in -1 .. version /\ p.cursor \in 0 .. version
    BY <1>2, PeerShape
  <2>2. CASE p.sync \in {"no", "flush"}
    <3>1. p.state >= 0 /\ p.doc = roomRevision(p.state)
      BY <1>6, <2>2 DEF PeerOK
    <3>2. p.state \in 0 .. version
      BY <1>2, <2>1, <3>1
    <3>3. roomRevision(p.state)' = roomRevision(p.state)
      BY <1>4, <3>2
    <3> QED
      BY <1>6, <3>1, <3>3 DEF PeerOK
  <2>3. CASE p.sync \notin {"no", "flush"}
    BY <1>6, <2>3 DEF PeerOK
  <2> QED
    BY <2>2, <2>3
<1>7. ASSUME NEW c \in Clients PROVE PathOK(c)'
  <2>1. OnPath(wire[c], client[c]) /\ wire[c] \in Seq(Messages(version))
    BY PathFacts DEF Paths, PathOK
  <2>2. \A i \in DOMAIN wire[c] : Stamped(wire[c][i])'
    <3>1. SUFFICES ASSUME NEW i \in DOMAIN wire[c] PROVE Stamped(wire[c][i])'
      OBVIOUS
    <3>2. wire[c][i] \in Messages(version) /\ Stamped(wire[c][i])
      BY <2>1 DEF OnPath
    <3>3. PICK m \in Messages(version) : m = wire[c][i]
      BY <3>2
    <3>4. Stamped(m)'
      BY <1>5, <3>2, <3>3
    <3>5. wire'[c][i] = m
      BY <1>2, <3>3
    <3> QED
      BY <3>4, <3>5 DEF Stamped
  <2>3. OnPath(wire[c], client[c])'
    <3>1. wire'[c] = wire[c] /\ client'[c] = client[c]
      BY <1>2
    <3> QED
      BY <2>1, <2>2, <3>1 DEF OnPath
  <2>4. ASSUME c \in DOMAIN peers
        PROVE  Attended(wire[c], client[c], peers[c])' /\ PeerOK(peers[c])'
    <3>1. Attended(wire[c], client[c], peers[c]) /\ PeerOK(peers[c]) /\ peers[c] \in Peers(version)
      BY <2>4, PathFacts DEF Paths, PathOK
    <3>2. Attended(wire[c], client[c], peers[c])'
      BY <1>2, <3>1 DEF Attended
    <3>3. PICK p \in Peers(version) : p = peers[c]
      BY <3>1
    <3>4. PeerOK(p)' /\ peers'[c] = p
      BY <1>2, <1>6, <3>1, <3>3
    <3>5. PeerOK(peers[c])'
      BY <3>4 DEF PeerOK
    <3> QED
      BY <3>2, <3>5
  <2> QED
    BY <1>2, <2>3, <2>4 DEF PathOK
<1> QED
  BY <1>2, <1>7 DEF Paths, SignalsInOrder

\* A draft's event changes nothing of a peer but its cursor.
LEMMA DraftedPeer ==
  ASSUME HubInv, NEW c \in DOMAIN peers, Drafted(c), reader \in 0 .. version
  PROVE  /\ [type |-> "draft", cursor |-> reader] \in Messages(version)
         /\ peers'[c] = [peers[c] EXCEPT !.cursor = reader]
         /\ peers'[c].cursor = reader /\ peers'[c].state = peers[c].state
         /\ peers'[c].doc = peers[c].doc /\ peers'[c].sync = peers[c].sync
         /\ peers'[c].again = peers[c].again /\ peers'[c].ready = peers[c].ready
         /\ peers'[c].tail = peers[c].tail /\ peers'[c].room = peers[c].room
         /\ peers'[c].pending = peers[c].pending
<1>1. [type |-> "draft", cursor |-> reader] \in Messages(version)
  BY DEF Messages
<1>2. peers[c] \in Peers(version)
  BY DEF HubInv, PeersOK
<1> QED
  BY <1>1, <1>2 DEF Drafted, Peers

\* A draft's event brings no view anywhere and leaves the base of every peer.
LEMMA DraftPath ==
  ASSUME HubInv, Paths, SignalsInOrder, ReadDraft
  PROVE  Paths' /\ SignalsInOrder'
<1>0. /\ UNCHANGED <<commits, signals, client>> /\ reader \in 0 .. version
      /\ DOMAIN peers' = DOMAIN peers /\ version \in Nat
      /\ \A c \in Clients :
           \/ c \in DOMAIN peers /\ Drafted(c)
           \/ wire'[c] = wire[c] /\ (c \in DOMAIN peers => peers'[c] = peers[c])
  BY DraftRead, Versions DEF HubInv, RestOK
<1>1. SignalsInOrder'
  BY <1>0 DEF SignalsInOrder
<1>2. ASSUME NEW c \in Clients PROVE PathOK(c)'
  <2>1. PathOK(c) /\ (c \in DOMAIN peers => PeerOK(peers[c]))
    BY DEF Paths, PathOK
  <2>2. CASE wire'[c] = wire[c] /\ (c \in DOMAIN peers => peers'[c] = peers[c])
    BY <1>0, <2>1, <2>2, PathStays
  <2>3. CASE c \in DOMAIN peers /\ Drafted(c)
    <3> DEFINE m == [type |-> "draft", cursor |-> reader]
    <3>1. /\ peers[c] \in Peers(version) /\ wire[c] \in Seq(Messages(version))
          /\ m \in Messages(version) /\ peers'[c].state = peers[c].state
          /\ peers[c].state \in -1 .. version
      BY <1>0, <2>3, DraftedPeer, PathFacts, PeerShape
    <3>2. PeerOK(peers'[c])
      BY <1>0, <2>1, <2>3, DraftedPeer DEF PeerOK
    <3>3. Sends(<<m>>, peers[c], peers'[c])
      <4>1. Passes(m, peers[c], peers'[c])
        BY <3>1 DEF Passes, Stamped, Levelled, need
      <4> HIDE DEF m
      <4> QED
        BY <3>1, <4>1 DEF Sends
    <3>4. wire'[c] = wire[c] \o <<m>>
      <4>1. wire'[c] = Append(wire[c], m)
        BY <2>3 DEF Drafted
      <4> HIDE DEF m
      <4> QED
        BY <3>1, <4>1
    <3> HIDE DEF m
    <3>5. peers'[c].state \in Int
      BY <1>0, <3>1
    <3> QED
      BY <1>0, <2>1, <2>3, <3>2, <3>3, <3>4, <3>5, PathServed
  <2> QED
    BY <1>0, <2>2, <2>3
<1> QED
  BY <1>1, <1>2 DEF Paths

LEMMA DeliveryInitially == Init => DeliveryInv
<1> SUFFICES ASSUME Init PROVE DeliveryInv
  OBVIOUS
<1>1. HubInv
  BY InitialState
<1>2. ASSUME NEW c \in Clients PROVE PathOK(c)
  <2>1. wire[c] = <<>> /\ client[c].cursor = 0 /\ DOMAIN peers = {} /\ DOMAIN <<>> = {}
    BY DEF Init
  <2> QED
    BY <2>1 DEF PathOK, OnPath
<1>3. SignalsInOrder
  BY DEF Init, SignalsInOrder, NoEvents
<1> QED
  BY <1>1, <1>2, <1>3 DEF DeliveryInv, Paths

LEMMA DeliveryKept ==
  ASSUME DeliveryInv, Next
  PROVE  DeliveryInv'
<1>0. HubInv /\ Paths /\ SignalsInOrder
  BY DEF DeliveryInv
<1>1. HubInv'
  BY <1>0, NextStep
<1>2. ASSUME NEW kinds \in Writes, NEW here \in Here, NEW by \in {{}} \cup {{c} : c \in Clients},
             Commit(kinds, here, by)
      PROVE  Paths' /\ SignalsInOrder'
  BY <1>0, <1>2, CommitPath
<1>3. ASSUME NEW c \in Clients, Attach(c) \/ RequestSync(c) \/ Browser(c)
      PROVE  Paths' /\ SignalsInOrder'
  <2>1. CASE Attach(c)
    BY <1>0, <2>1, AttachPath DEF Attach, SignalsInOrder
  <2>2. CASE RequestSync(c)
    BY <1>0, <2>2, TroublePath
  <2>3. CASE Browser(c)
    BY <1>0, <1>1, <2>3, BrowserPath
  <2> QED
    BY <1>3, <2>1, <2>2, <2>3
<1>4. ASSUME Hub PROVE Paths' /\ SignalsInOrder'
  <2>1. CASE ReadStream \/ \E e \in local : PublishLocal(e)
    BY <1>0, <2>1, BroadcastStepPath
  <2>2. CASE ReadReconciledRoom
    BY <1>0, <2>2, QuietPath DEF ReadReconciledRoom, SignalsInOrder
  <2>3. ASSUME NEW c \in Clients, RequestSynchronization(c) \/ ReadStreamTail(c) \/ ReadRoom(c)
        PROVE  Paths' /\ SignalsInOrder'
    <3>1. signals' = signals
      BY <2>3 DEF RequestSynchronization, ReadStreamTail, ReadRoom
    <3> QED
      BY <1>0, <2>3, <3>1, SynchronizingPath DEF SignalsInOrder
  <2>4. ASSUME NEW whole \in BOOLEAN, ReconcileRoom(whole) PROVE Paths' /\ SignalsInOrder'
    BY <1>0, <1>1, <2>4, ReconcilePath
  <2>5. ASSUME NEW c \in Clients, Synchronize(c) PROVE Paths' /\ SignalsInOrder'
    BY <1>0, <2>5, SynchronizePath DEF Synchronize, SignalsInOrder
  <2>6. ASSUME NEW c \in Clients, FlushPending(c) PROVE Paths' /\ SignalsInOrder'
    BY <1>0, <2>6, FlushPath
  <2> QED
    BY <1>4, <2>1, <2>2, <2>3, <2>4, <2>5, <2>6 DEF Hub
<1>5. ASSUME Trouble PROVE Paths' /\ SignalsInOrder'
  BY <1>0, <1>5, TroublePath
<1>6. CASE ReadDraft
  BY <1>0, <1>1, <1>6, DraftPath DEF DeliveryInv
<1>7. Paths' /\ SignalsInOrder'
  BY <1>2, <1>3, <1>4, <1>5, <1>6 DEF Next, DeliveryInv
<1> QED
  BY <1>1, <1>7 DEF DeliveryInv

LEMMA DeliveryInvariant == Spec => []DeliveryInv
<1>1. DeliveryInv /\ [Next]_vars => DeliveryInv'
  <2> SUFFICES ASSUME DeliveryInv, [Next]_vars PROVE DeliveryInv'
    OBVIOUS
  <2>1. CASE Next
    BY <2>1, DeliveryKept
  <2>2. CASE UNCHANGED vars
    <3>1. UNCHANGED <<commits, local, reader, peers, signals, recon, wire, asked, client, replies, trouble>>
      BY <2>2 DEF vars
    <3>2. Paths'
      BY <3>1, QuietPath DEF DeliveryInv
    <3>3. SignalsInOrder'
      BY <3>1 DEF DeliveryInv, SignalsInOrder
    <3>4. HubInv'
      <4>1. PeersOK' /\ SignalsOK' /\ ClientOK' /\ WireOK'
        BY <3>1, Untouched DEF DeliveryInv, HubInv
      <4>2. RestOK'
        BY <3>1, ConstantRoom DEF DeliveryInv, HubInv, RestOK
      <4> QED
        BY <4>1, <4>2 DEF HubInv
    <3> QED
      BY <3>2, <3>3, <3>4 DEF DeliveryInv
  <2> QED
    BY <2>1, <2>2
<1> QED
  BY <1>1, DeliveryInitially, PTL DEF Spec

-----------------------------------------------------------------------------
(* Nothing under way means nothing left to come.                           *)
(*                                                                         *)
(* Whatever the stream has delivered, a peer's base covers, or the peer    *)
(* will come to it: by reading the room, by an event in its queue, or by a *)
(* signal the hub has yet to satisfy.  Whatever a browser waits for is     *)
(* asked for, being read or on its way.                                    *)

\* What the stream delivered up to n the peer has, or will have; S holds the
\* events of the signals.
InSight(p, n, S) ==
  \/ p.sync \in {"tail", "room"}
  \/ p.sync \in {"no", "flush"} /\ (p.state >= n \/ \E e \in S : e >= n)
  \/ p.sync = "send" /\ p.room >= n
  \/ p.sync \in {"send", "flush"} /\ \E i \in DOMAIN p.pending : p.pending[i].event >= n

Watched(p, n, S) ==
  /\ p.sync # "tail" => n # Off /\ InSight(p, n, S)
  /\ p.sync = "no" => ~p.again

\* A snapshot will be sent to the peer.
Requested(p) == p.sync \in {"tail", "room", "send"} \/ p.again

OnItsWay(w, type) == \E i \in DOMAIN w : w[i].type = type

Answered(c) ==
  /\ client[c].conn # "offline" => c \in DOMAIN peers \/ OnItsWay(wire[c], "close")
  /\ client[c].conn # "offline" /\ client[c].awaiting =>
       \/ asked[c] \/ OnItsWay(wire[c], "snapshot") \/ OnItsWay(wire[c], "close")
       \/ c \in DOMAIN peers /\ Requested(peers[c])

AllWatched == \A c \in DOMAIN peers : Watched(peers[c], reader, DOMAIN signals)

AllAnswered == \A c \in Clients : Answered(c)

IdleIsSatisfied == recon.phase = "idle" => DOMAIN signals = {}

SignalInv == DeliveryInv /\ AllWatched /\ AllAnswered /\ IdleIsSatisfied

\* No synchronization takes so long that its peer's queue fills: from there on
\* the queue drops an event for each one that comes.
QueuesHaveRoom == \A c \in DOMAIN peers : Len(peers[c].pending) < MaxPending

-----------------------------------------------------------------------------
(* The hub's part.                                                         *)

LEMMA WatchFacts ==
  ASSUME HubInv
  PROVE  /\ commits \in Seq(Kinds) /\ version \in Nat /\ reader \in -1 .. version
         /\ DOMAIN signals \subseteq 1 .. version
         /\ \A c \in DOMAIN peers : /\ c \in Clients /\ peers[c] \in Peers(version)
                                    /\ (peers[c].ready <=> peers[c].sync = "no")
BY Versions DEF HubInv, RestOK, PeersOK, SignalsOK, Off

\* A base no lower, a queue no shorter, more signals.
LEMMA SightKept ==
  ASSUME NEW p, NEW q, NEW n \in Int, NEW S, NEW T, InSight(p, n, S), S \subseteq T,
         q.sync = p.sync, p.state \in Int, q.state \in Int, q.state >= p.state, q.room = p.room,
         \A i \in DOMAIN p.pending : \E j \in DOMAIN q.pending :
           q.pending[j].event = p.pending[i].event
  PROVE  InSight(q, n, T)
<1>1. CASE p.sync \in {"no", "flush"} /\ p.state >= n
  BY <1>1 DEF InSight
<1>2. CASE p.sync \in {"no", "flush"} /\ \E e \in S : e >= n
  BY <1>2 DEF InSight
<1>3. CASE p.sync \in {"send", "flush"} /\ \E i \in DOMAIN p.pending : p.pending[i].event >= n
  <2>1. PICK i \in DOMAIN p.pending : p.pending[i].event >= n
    BY <1>3
  <2>2. PICK j \in DOMAIN q.pending : q.pending[j].event = p.pending[i].event
    BY <2>1
  <2>3. q.pending[j].event >= n
    BY <2>1, <2>2
  <2> QED
    BY <1>3, <2>3 DEF InSight
<1>4. CASE p.sync \in {"tail", "room"} \/ (p.sync = "send" /\ p.room >= n)
  BY <1>4 DEF InSight
<1> QED
  BY <1>1, <1>2, <1>3, <1>4 DEF InSight

LEMMA MoreSignals ==
  ASSUME NEW p, NEW n, NEW S, NEW T, Watched(p, n, S), S \subseteq T
  PROVE  Watched(p, n, T)
BY DEF Watched, InSight

\* One peer's record is touched, and signals only come.
LEMMA OnePeerWatched ==
  ASSUME AllWatched, reader' = reader, DOMAIN signals \subseteq DOMAIN signals',
         NEW c \in DOMAIN peers, NEW p, peers' = [peers EXCEPT ![c] = p],
         Watched(p, reader, DOMAIN signals')
  PROVE  AllWatched'
<1>1. ASSUME NEW d \in DOMAIN peers' PROVE Watched(peers'[d], reader', DOMAIN signals')
  <2>1. CASE d = c
    BY <2>1
  <2>2. CASE d # c
    <3>1. d \in DOMAIN peers /\ peers'[d] = peers[d]
      BY <1>1, <2>2
    <3>2. Watched(peers[d], reader, DOMAIN signals)
      BY <3>1 DEF AllWatched
    <3> QED
      BY <3>1, <3>2, MoreSignals
  <2> QED
    BY <2>1, <2>2
<1> QED
  BY <1>1 DEF AllWatched

\* Peers only go, and signals only come; the reader stays while a peer does.
LEMMA OthersWatched ==
  ASSUME AllWatched, DOMAIN signals \subseteq DOMAIN signals',
         DOMAIN peers' \subseteq DOMAIN peers, \A c \in DOMAIN peers' : peers'[c] = peers[c],
         DOMAIN peers' # {} => reader' = reader
  PROVE  AllWatched'
<1>1. ASSUME NEW d \in DOMAIN peers' PROVE Watched(peers'[d], reader', DOMAIN signals')
  <2>1. Watched(peers[d], reader, DOMAIN signals) /\ peers'[d] = peers[d] /\ reader' = reader
    BY DEF AllWatched
  <2> QED
    BY <2>1, MoreSignals
<1> QED
  BY <1>1 DEF AllWatched

LEMMA AttachWatched ==
  ASSUME HubInv, AllWatched, NEW c \in Clients, Attach(c)
  PROVE  AllWatched'
<1>1. /\ peers' = [d \in DOMAIN peers \cup {c} |-> IF d = c THEN NewPeer ELSE peers[d]]
      /\ UNCHANGED <<reader, signals>> /\ c \notin DOMAIN peers
  BY DEF Attach
<1>2. ASSUME NEW d \in DOMAIN peers' PROVE Watched(peers'[d], reader', DOMAIN signals')
  <2>1. CASE d = c
    <3>1. peers'[d] = NewPeer
      BY <1>1, <2>1
    <3> QED
      BY <3>1 DEF Watched, NewPeer
  <2>2. CASE d # c
    <3>1. peers'[d] = peers[d] /\ d \in DOMAIN peers
      BY <1>1, <2>2
    <3> QED
      BY <1>1, <3>1 DEF AllWatched
  <2> QED
    BY <2>1, <2>2
<1> QED
  BY <1>2 DEF AllWatched

LEMMA SynchronizingWatched ==
  ASSUME HubInv, AllWatched, NEW c \in Clients,
         RequestSynchronization(c) \/ ReadStreamTail(c) \/ ReadRoom(c)
  PROVE  AllWatched'
<1> DEFINE p == peers[c]
           q1 == [p EXCEPT !.sync = "tail", !.ready = FALSE]
           q2 == [p EXCEPT !.again = TRUE]
           q3 == [p EXCEPT !.sync = "room", !.tail = version]
           q4 == [p EXCEPT !.sync = "send", !.room = version]
           S == DOMAIN signals
<1>0. signals' = signals
  BY DEF RequestSynchronization, ReadStreamTail, ReadRoom
<1>1. c \in DOMAIN peers =>
        /\ p \in Peers(version) /\ version \in Nat /\ reader \in -1 .. version
        /\ Watched(p, reader, S)
  BY WatchFacts DEF AllWatched
<1>2. c \in DOMAIN peers =>
        /\ q1.sync = "tail"
        /\ q2.sync = p.sync /\ q2.state = p.state /\ q2.room = p.room /\ q2.pending = p.pending
        /\ q3.sync = "room"
        /\ q4.sync = "send" /\ q4.room = version
  BY <1>1 DEF Peers
<1>3. CASE peers' = peers /\ reader' = reader
  <2>1. DOMAIN peers' \subseteq DOMAIN peers /\ \A d \in DOMAIN peers' : peers'[d] = peers[d]
    BY <1>3
  <2> QED
    BY <1>0, <1>3, <2>1, OthersWatched
<1>4. CASE RequestSynchronization(c) /\ c \in DOMAIN peers /\ p.sync = "no"
  <2>1. peers' = [peers EXCEPT ![c] = q1] /\ reader' = reader
    BY <1>4, Zenon DEF RequestSynchronization
  <2> HIDE DEF q1
  <2>2. Watched(q1, reader, S)
    BY <1>2, <1>4 DEF Watched
  <2> QED
    BY <1>0, <1>4, <2>1, <2>2, OnePeerWatched
<1>5. CASE RequestSynchronization(c) /\ c \in DOMAIN peers /\ p.sync # "no"
  <2>1. peers' = [peers EXCEPT ![c] = q2] /\ reader' = reader
    BY <1>5, Zenon DEF RequestSynchronization
  <2> HIDE DEF q2, p
  <2>2. Watched(q2, reader, S)
    BY <1>1, <1>2, <1>5 DEF Watched, InSight
  <2> QED
    BY <1>0, <1>5, <2>1, <2>2, OnePeerWatched
<1>6. CASE ReadStreamTail(c)
  <2>1. /\ c \in DOMAIN peers /\ peers' = [peers EXCEPT ![c] = q3]
        /\ reader' = IF reader = Off THEN version ELSE reader
    BY <1>6, Zenon DEF ReadStreamTail
  <2> HIDE DEF q3
  <2>2. reader' # Off
    BY <1>1, <2>1 DEF Off
  <2>3. ASSUME NEW d \in DOMAIN peers' PROVE Watched(peers'[d], reader', DOMAIN signals')
    <3>1. CASE d = c
      <4>1. peers'[d] = q3
        BY <2>1, <3>1
      <4> QED
        BY <4>1, <1>2, <2>1, <2>2 DEF Watched, InSight
    <3>2. CASE d # c
      <4>1. peers'[d] = peers[d] /\ Watched(peers[d], reader, DOMAIN signals)
        BY <2>1, <3>2 DEF AllWatched
      <4>2. reader # Off => reader' = reader
        BY <2>1
      <4>3. peers[d].sync # "tail" => reader # Off
        BY <4>1 DEF Watched
      <4> QED
        BY <4>1, <4>2, <4>3, <1>0 DEF Watched
    <3> QED
      BY <3>1, <3>2
  <2> QED
    BY <2>3 DEF AllWatched
<1>7. CASE ReadRoom(c)
  <2>1. c \in DOMAIN peers /\ p.sync = "room" /\ peers' = [peers EXCEPT ![c] = q4] /\ reader' = reader
    BY <1>7, Zenon DEF ReadRoom
  <2> HIDE DEF q4, p
  <2>2. reader # Off /\ version >= reader
    BY <1>1, <2>1 DEF Watched
  <2>3. Watched(q4, reader, S)
    BY <1>2, <2>1, <2>2 DEF Watched, InSight
  <2> QED
    BY <1>0, <2>1, <2>3, OnePeerWatched
<1> QED
  BY <1>3, <1>4, <1>5, <1>6, <1>7 DEF RequestSynchronization

\* A synchronization that is over either starts again or leaves a base in sight.
LEMMA SynchronizedWatched ==
  ASSUME version \in Nat, NEW p \in Peers(version), NEW n, NEW S, n # Off,
         p.state >= n \/ \E e \in S : e >= n
  PROVE  Watched(synchronized(p), n, S)
<1> DEFINE q1 == [p EXCEPT !.sync = "tail", !.again = FALSE, !.ready = FALSE]
           q2 == [p EXCEPT !.sync = "no", !.ready = TRUE]
<1>1. q1.sync = "tail" /\ q2.sync = "no" /\ q2.state = p.state /\ q2.again = p.again
  BY DEF Peers
<1>2. synchronized(p) = IF p.again THEN q1 ELSE q2
  BY Zenon DEF synchronized
<1> HIDE DEF q1, q2
<1>3. CASE p.again
  BY <1>1, <1>2, <1>3 DEF Watched
<1>4. CASE ~p.again
  BY <1>1, <1>2, <1>4 DEF Watched, InSight
<1> QED
  BY <1>3, <1>4

LEMMA SynchronizeWatched ==
  ASSUME HubInv, AllWatched, NEW c \in Clients, Synchronize(c)
  PROVE  AllWatched'
<1> DEFINE p == peers[c]
           base == based(p)
           flushing == [base EXCEPT !.sync = "flush"]
           next == IF base.pending = <<>> THEN synchronized(base) ELSE flushing
           S == DOMAIN signals
<1>1. /\ c \in DOMAIN peers /\ p.sync = "send" /\ p \in Peers(version) /\ version \in Nat
      /\ commits \in Seq(Kinds) /\ Watched(p, reader, S) /\ reader \in -1 .. version
  BY WatchFacts DEF Synchronize, AllWatched
<1>2. base \in Peers(version) /\ base.sync = "send" /\ base.pending = p.pending
  BY <1>1, Based
<1>3. base.state = p.room
  <2>1. base = [p EXCEPT !.state = p.room, !.doc = roomRevision(p.room), !.cursor = p.tail,
                         !.tail = 0, !.room = 0]
    BY Zenon DEF based
  <2> HIDE DEF base, p
  <2> QED
    BY <2>1, <1>1 DEF Peers
<1>4. peers' = [peers EXCEPT ![c] = next] /\ reader' = reader /\ signals' = signals
  BY Zenon DEF Synchronize
<1> HIDE DEF base
<1>5. /\ flushing.sync = "flush" /\ flushing.state = base.state /\ flushing.pending = base.pending
  BY <1>2 DEF Peers
<1> HIDE DEF flushing, p
<1>6. /\ reader # Off
      /\ p.room >= reader \/ \E i \in DOMAIN p.pending : p.pending[i].event >= reader
  BY <1>1 DEF Watched, InSight
<1>7. Watched(next, reader, S)
  <2>1. CASE base.pending = <<>>
    <3>1. DOMAIN <<>> = {}
      OBVIOUS
    <3>2. base.state >= reader
      BY <1>2, <1>3, <1>6, <2>1, <3>1
    <3> QED
      BY <1>1, <1>2, <1>6, <2>1, <3>2, SynchronizedWatched
  <2>2. CASE base.pending # <<>>
    BY <1>2, <1>3, <1>5, <1>6, <2>2 DEF Watched, InSight
  <2> QED
    BY <2>1, <2>2
<1> HIDE DEF next
<1> QED
  BY <1>1, <1>4, <1>7, OnePeerWatched

LEMMA DeliveredSees ==
  ASSUME commits \in Seq(Kinds), NEW p \in Peers(version), NEW e \in 1 .. version,
         NEW cursor \in 0 .. version
  PROVE  LET d == deliverEvent(p, e, cursor)
         IN  /\ d.peer.state >= p.state
             /\ d.peer.state >= e \/ d.stale
             /\ d.peer.again = p.again /\ d.peer.room = p.room
<1> DEFINE d == deliverEvent(p, e, cursor)
           k == Larger(p.cursor, cursor)
           acked == [p EXCEPT !.cursor = k]
           both == [p EXCEPT !.state = e, !.cursor = k]
<1>0. version \in Nat /\ p.state \in Int /\ e \in Int
  BY PeerShape, Versions
<1>1. /\ acked.state = p.state /\ acked.again = p.again /\ acked.room = p.room
      /\ both.state = e /\ both.again = p.again /\ both.room = p.room
  BY DEF Peers
<1>2. CASE peerCoversEvent(p, e)
  <2>1. d.peer = acked /\ p.state >= e
    <3>1. d = [peer |-> acked,
               out |-> IF cursor > p.cursor THEN <<[type |-> "checkpoint", cursor |-> cursor]>>
                       ELSE <<>>,
               stale |-> FALSE]
      BY <1>2, Zenon DEF deliverEvent
    <3> HIDE DEF acked, d
    <3> QED
      BY <3>1, <1>2 DEF peerCoversEvent
  <2> HIDE DEF acked, d
  <2>2. d.peer.state >= p.state /\ d.peer.state >= e /\ d.peer.again = p.again /\ d.peer.room = p.room
    BY <2>1, <1>0, <1>1
  <2> QED
    BY <2>2 DEF d
<1>3. CASE ~peerCoversEvent(p, e) /\ deltaFollows(p, e)
  <2>1. d.peer = both
    <3>1. d = [peer |-> both, stale |-> FALSE,
               out |-> <<[type |-> "event", cursor |-> cursor, event |-> e]>>]
      BY <1>3, Zenon DEF deliverEvent
    <3> HIDE DEF both, d
    <3> QED
      BY <3>1
  <2>2. p.state + 1 = e
    BY <1>3 DEF deltaFollows
  <2> HIDE DEF both, d
  <2>3. d.peer.state >= p.state /\ d.peer.state >= e /\ d.peer.again = p.again /\ d.peer.room = p.room
    BY <2>1, <2>2, <1>0, <1>1
  <2> QED
    BY <2>3 DEF d
<1>4. CASE ~peerCoversEvent(p, e) /\ ~deltaFollows(p, e)
  <2>1. d.peer = p /\ d.stale = TRUE
    <3>1. d = [peer |-> p, out |-> <<>>, stale |-> TRUE]
      BY <1>4, Zenon DEF deliverEvent
    <3> HIDE DEF d
    <3> QED
      BY <3>1
  <2> HIDE DEF d
  <2>2. d.peer.state >= p.state /\ d.stale /\ d.peer.again = p.again /\ d.peer.room = p.room
    BY <2>1, <1>0
  <2> QED
    BY <2>2 DEF d
<1> QED
  BY <1>2, <1>3, <1>4

LEMMA SignalsCome ==
  ASSUME NEW e, NEW cursor, requestRoomReconciliation(e, cursor)
  PROVE  DOMAIN signals' = DOMAIN signals \cup {e} /\ recon'.phase # "idle"
<1>1. recon' = IF recon.phase # "idle" THEN recon
               ELSE [phase |-> "reading", target |-> e, room |-> 0]
  BY DEF requestRoomReconciliation
<1>2. recon'.phase # "idle"
  <2>1. CASE recon.phase # "idle"
    BY <1>1, <2>1
  <2>2. CASE ~(recon.phase # "idle")
    <3>1. recon' = [phase |-> "reading", target |-> e, room |-> 0]
      BY <1>1, <2>2
    <3> QED
      BY <3>1
  <2> QED
    BY <2>1, <2>2
<1> QED
  BY <1>2 DEF requestRoomReconciliation

\* Taking one entry out of a queue leaves the others.
Without(s, i) == SubSeq(s, 1, i - 1) \o SubSeq(s, i + 1, Len(s))

LEMMA OthersLeft ==
  ASSUME NEW X, NEW s \in Seq(X), NEW i \in DOMAIN s, NEW j \in DOMAIN s, j # i
  PROVE  \E k \in DOMAIN Without(s, i) : Without(s, i)[k] = s[j]
<1> DEFINE u == SubSeq(s, 1, i - 1)
           v == SubSeq(s, i + 1, Len(s))
<1>1. i \in 1 .. Len(s) /\ j \in 1 .. Len(s) /\ Len(s) \in Nat /\ \A k \in 1 .. Len(s) : s[k] \in X
  OBVIOUS
<1>2. u \in Seq(X) /\ Len(u) = i - 1 /\ \A k \in 1 .. i - 1 : u[k] = s[k]
  <2>1. \A k \in 1 .. i - 1 : s[k] \in X
    BY <1>1
  <2> QED
    BY <1>1, <2>1, SubSeqProperties
<1>3. v \in Seq(X) /\ Len(v) = Len(s) - i /\ \A k \in 1 .. Len(s) - i : v[k] = s[i + k]
  <2>1. \A k \in i + 1 .. Len(s) : s[k] \in X
    BY <1>1
  <2>2. /\ v \in Seq(X)
        /\ Len(v) = IF i + 1 <= Len(s) THEN Len(s) - (i + 1) + 1 ELSE 0
        /\ \A k \in 1 .. Len(s) - (i + 1) + 1 : v[k] = s[(i + 1) + k - 1]
    BY <1>1, <2>1, SubSeqProperties
  <2> HIDE DEF v
  <2> QED
    BY <1>1, <2>2
<1> HIDE DEF u, v
<1>4. Len(u \o v) = Len(s) - 1 /\ DOMAIN (u \o v) = 1 .. Len(s) - 1
      /\ \A k \in 1 .. Len(s) - 1 : (u \o v)[k] = IF k <= i - 1 THEN u[k] ELSE v[k - (i - 1)]
  <2>1. u \o v \in Seq(X) /\ Len(u \o v) = Len(u) + Len(v)
    BY <1>2, <1>3, ConcatProperties
  <2>2. \A k \in 1 .. Len(u) + Len(v) : (u \o v)[k] = IF k <= Len(u) THEN u[k] ELSE v[k - Len(u)]
    BY <1>2, <1>3, ConcatProperties
  <2>3. Len(u) + Len(v) = Len(s) - 1
    BY <1>1, <1>2, <1>3
  <2>4. DOMAIN (u \o v) = 1 .. Len(u \o v)
    BY <2>1
  <2> QED
    BY <1>2, <2>1, <2>2, <2>3, <2>4
<1>5. \E k \in DOMAIN (u \o v) : (u \o v)[k] = s[j]
  <2>1. CASE j < i
    <3>1. j \in 1 .. Len(s) - 1 /\ j <= i - 1 /\ j \in 1 .. i - 1
      BY <1>1, <2>1
    <3> QED
      BY <3>1, <1>2, <1>4
  <2>2. CASE j > i
    <3> DEFINE k == j - 1
    <3>1. k \in 1 .. Len(s) - 1 /\ ~(k <= i - 1) /\ k - (i - 1) \in 1 .. Len(s) - i
          /\ i + (k - (i - 1)) = j
      BY <1>1, <2>2
    <3>2. (u \o v)[k] = v[k - (i - 1)]
      BY <3>1, <1>4
    <3>3. v[k - (i - 1)] = s[j]
      BY <3>1, <1>3
    <3> QED
      BY <3>1, <3>2, <3>3, <1>4
  <2> QED
    BY <1>1, <2>1, <2>2
<1> QED
  BY <1>5 DEF u, v, Without

LEMMA FlushWatched ==
  ASSUME HubInv, AllWatched, IdleIsSatisfied, NEW c \in Clients, FlushPending(c)
  PROVE  AllWatched' /\ IdleIsSatisfied'
<1> DEFINE p == peers[c]
           pending == p.pending
           d(i) == deliverEvent(p, pending[i].event, pending[i].cursor)
           left(i) == SubSeq(pending, 1, i - 1) \o SubSeq(pending, i + 1, Len(pending))
           q(i) == [d(i).peer EXCEPT !.pending = left(i)]
           next(i) == IF left(i) = <<>> THEN synchronized(q(i)) ELSE q(i)
           S == DOMAIN signals
           T == DOMAIN signals'
<1>1. /\ c \in DOMAIN peers /\ p.sync = "flush" /\ p \in Peers(version) /\ version \in Nat
      /\ commits \in Seq(Kinds) /\ Watched(p, reader, S) /\ reader \in -1 .. version
      /\ S \subseteq 1 .. version /\ reader' = reader
  BY WatchFacts DEF FlushPending, AllWatched
<1>2. PICK i \in DOMAIN pending :
        /\ peers' = [peers EXCEPT ![c] = next(i)]
        /\ IF d(i).stale THEN requestRoomReconciliation(pending[i].event, pending[i].cursor)
           ELSE UNCHANGED <<signals, recon>>
  BY Zenon DEF FlushPending
<1> DEFINE e == pending[i].event
           k == pending[i].cursor
<1>3. pending \in Seq(Entries(version))
  BY <1>1, PeerShape
<1>4. e \in 1 .. version /\ k \in 0 .. version
  <2> HIDE DEF pending
  <2>1. pending[i] \in Entries(version)
    BY <1>2, <1>3
  <2> QED
    BY <2>1 DEF Entries
<1>5. /\ d(i).peer \in Peers(version) /\ d(i).peer.sync = "flush" /\ d(i).peer.state >= p.state
      /\ d(i).peer.state >= e \/ d(i).stale
  <2> HIDE DEF p, pending
  <2>1. d(i).peer \in Peers(version) /\ d(i).peer.sync = p.sync
    BY <1>1, <1>4, Delivered
  <2>2. d(i).peer.state >= p.state /\ (d(i).peer.state >= e \/ d(i).stale)
    BY <1>1, <1>4, DeliveredSees
  <2> QED
    BY <1>1, <2>1, <2>2
<1>6. \A j \in DOMAIN pending : j # i => \E l \in DOMAIN left(i) : left(i)[l] = pending[j]
  <2>1. SUFFICES ASSUME NEW j \in DOMAIN pending, j # i
                 PROVE  \E l \in DOMAIN left(i) : left(i)[l] = pending[j]
    OBVIOUS
  <2>2. \E l \in DOMAIN Without(pending, i) : Without(pending, i)[l] = pending[j]
    <3> HIDE DEF pending
    <3> QED
      BY <1>2, <1>3, <2>1, OthersLeft
  <2>3. left(i) = Without(pending, i)
    BY DEF Without
  <2> HIDE DEF left, pending
  <2> QED
    BY <2>2, <2>3
<1>7. left(i) \in Seq(Entries(version))
  <2> DEFINE u == SubSeq(pending, 1, i - 1)
             v == SubSeq(pending, i + 1, Len(pending))
  <2>1. i \in 1 .. Len(pending) /\ Len(pending) \in Nat
        /\ \A j \in 1 .. Len(pending) : pending[j] \in Entries(version)
    <3>1. i \in DOMAIN pending
      OBVIOUS
    <3> HIDE DEF pending, next
    <3> QED
      BY <1>3, <3>1
  <2> HIDE DEF pending
  <2>2. /\ \A j \in 1 .. i - 1 : pending[j] \in Entries(version)
        /\ \A j \in i + 1 .. Len(pending) : pending[j] \in Entries(version)
    BY <2>1
  <2>3. u \in Seq(Entries(version)) /\ v \in Seq(Entries(version))
    BY <1>3, <2>1, <2>2, SubSeqProperties
  <2>4. left(i) = u \o v
    OBVIOUS
  <2> HIDE DEF u, v, left
  <2> QED
    BY <2>3, <2>4
<1>8. (d(i).stale => T = S \cup {e} /\ recon'.phase # "idle") /\ (~d(i).stale => T = S /\ recon' = recon)
  BY <1>2, SignalsCome
<1> HIDE DEF left, d
<1>9. /\ q(i).sync = "flush" /\ q(i).state = d(i).peer.state /\ q(i).pending = left(i)
  BY <1>5 DEF Peers
<1>10. q(i) \in Peers(version)
  BY <1>1, <1>5, <1>7, PeerFields
<1>11. p.state \in Int /\ d(i).peer.state \in Int
  BY <1>1, <1>5, PeerShape
<1> HIDE DEF q, p
<1>12. reader # Off /\ (\/ p.state >= reader \/ \E f \in S : f >= reader
                        \/ \E j \in DOMAIN pending : pending[j].event >= reader)
  BY <1>1 DEF Watched, InSight
<1> HIDE DEF pending, S, T
<1>13. \/ q(i).state >= reader \/ \E f \in T : f >= reader
       \/ \E l \in DOMAIN left(i) : left(i)[l].event >= reader
  <2>1. CASE p.state >= reader
    BY <1>1, <1>5, <1>9, <1>11, <2>1
  <2>2. CASE \E f \in S : f >= reader
    BY <1>8, <2>2
  <2>3. ASSUME NEW j \in DOMAIN pending, pending[j].event >= reader, j # i
        PROVE  \E l \in DOMAIN left(i) : left(i)[l].event >= reader
    BY <1>6, <2>3
  <2>4. CASE e >= reader
    BY <1>1, <1>4, <1>5, <1>8, <1>9, <1>11, <2>4
  <2> QED
    BY <1>12, <2>1, <2>2, <2>3, <2>4
<1>14. Watched(next(i), reader, T)
  <2>1. CASE left(i) = <<>>
    <3>1. DOMAIN <<>> = {}
      OBVIOUS
    <3>2. q(i).state >= reader \/ \E f \in T : f >= reader
      BY <1>13, <2>1, <3>1
    <3> QED
      BY <1>1, <1>10, <1>12, <2>1, <3>2, SynchronizedWatched
  <2>2. CASE left(i) # <<>>
    <3>1. Watched(q(i), reader, T)
      BY <1>9, <1>12, <1>13 DEF Watched, InSight
    <3> QED
      BY <2>2, <3>1
  <2> QED
    BY <2>1, <2>2
<1>15. S \subseteq T
  BY <1>8
<1> HIDE DEF next
<1>16. AllWatched'
  BY <1>1, <1>2, <1>14, <1>15, OnePeerWatched DEF S, T
<1>17. IdleIsSatisfied'
  BY <1>8 DEF IdleIsSatisfied, S, T
<1> QED
  BY <1>16, <1>17

\* A queue that has room takes the event and drops none.
LEMMA QueueKeeps ==
  ASSUME version \in Nat, NEW pending \in Seq(Entries(version)), NEW e, NEW cursor,
         Entry(e, cursor) \in Entries(version), MaxPending \in Nat, Len(pending) < MaxPending
  PROVE  LET queue == queuePending(pending, e, cursor)
         IN  /\ \E j \in DOMAIN queue : queue[j].event = e
             /\ \A i \in DOMAIN pending : \E j \in DOMAIN queue : queue[j].event = pending[i].event
<1>0. \A x, y : Entry(x, y).event = x
  BY DEF Entry
<1> DEFINE queue == queuePending(pending, e, cursor)
<1>1. CASE \E i \in DOMAIN pending : pending[i].event = e
  <2> DEFINE merged == [i \in DOMAIN pending |->
               IF pending[i].event = e THEN Entry(e, Larger(pending[i].cursor, cursor))
               ELSE pending[i]]
  <2>1. queue = merged
    BY <1>1, Zenon DEF queuePending
  <2>2. DOMAIN merged = DOMAIN pending
    OBVIOUS
  <2>3. ASSUME NEW i \in DOMAIN pending PROVE merged[i].event = pending[i].event
    <3>1. CASE pending[i].event = e
      <4>1. merged[i] = Entry(e, Larger(pending[i].cursor, cursor))
        BY <3>1
      <4> HIDE DEF merged
      <4> QED
        BY <4>1, <3>1, <1>0
    <3>2. CASE pending[i].event # e
      BY <3>2
    <3> QED
      BY <3>1, <3>2
  <2> HIDE DEF merged, queue
  <2>4. /\ \E j \in DOMAIN queue : queue[j].event = e
        /\ \A i \in DOMAIN pending : \E j \in DOMAIN queue : queue[j].event = pending[i].event
    BY <1>1, <2>1, <2>2, <2>3
  <2> QED
    BY <2>4 DEF queue
<1>2. CASE ~\E i \in DOMAIN pending : pending[i].event = e
  <2> DEFINE longer == Append(pending, Entry(e, cursor))
  <2>1. Len(longer) <= MaxPending /\ Len(longer) \in Nat
    OBVIOUS
  <2>2. queue = IF Len(longer) > MaxPending THEN Tail(longer) ELSE longer
    BY <1>2, Zenon DEF queuePending
  <2>3. DOMAIN longer = 1 .. Len(pending) + 1 /\ longer[Len(pending) + 1] = Entry(e, cursor)
        /\ DOMAIN pending = 1 .. Len(pending) /\ Len(pending) \in Nat
        /\ \A i \in 1 .. Len(pending) : longer[i] = pending[i]
    OBVIOUS
  <2> HIDE DEF longer, queue
  <2>4. queue = longer
    BY <2>1, <2>2
  <2>5. Len(pending) + 1 \in DOMAIN queue /\ queue[Len(pending) + 1].event = e
    BY <2>3, <2>4, <1>0
  <2>6. \A i \in DOMAIN pending : i \in DOMAIN queue /\ queue[i].event = pending[i].event
    BY <2>3, <2>4
  <2>7. /\ \E j \in DOMAIN queue : queue[j].event = e
        /\ \A i \in DOMAIN pending : \E j \in DOMAIN queue : queue[j].event = pending[i].event
    BY <2>5, <2>6
  <2> QED
    BY <2>7 DEF queue
<1> QED
  BY <1>1, <1>2

\* What a broadcast does to one peer.
Told(p, q, e, T) ==
  /\ p.sync # "flush" /\ q.sync = p.sync /\ q.again = p.again /\ q.room = p.room
  /\ p.state \in Int /\ q.state \in Int /\ q.state >= p.state
  /\ \A i \in DOMAIN p.pending : \E j \in DOMAIN q.pending :
       q.pending[j].event = p.pending[i].event
  /\ p.sync = "no" => q.state >= e \/ e \in T
  /\ p.sync # "no" => \E j \in DOMAIN q.pending : q.pending[j].event = e

LEMMA BroadcastTold ==
  ASSUME HubInv, QueuesHaveRoom, NEW e \in 1 .. version, NEW cursor \in 0 .. version,
         broadcastEvent(e, cursor), NEW c \in DOMAIN peers
  PROVE  /\ DOMAIN peers' = DOMAIN peers /\ DOMAIN signals \subseteq DOMAIN signals'
         /\ Told(peers[c], peers'[c], e, DOMAIN signals')
<1> DEFINE d(x) == deliverEvent(peers[x], e, cursor)
           ready == {x \in DOMAIN peers : peers[x].ready}
           queue(x) == queuePending(peers[x].pending, e, cursor)
           queued(x) == [peers[x] EXCEPT !.pending = queue(x)]
           p == peers[c]
<1>1. /\ peers' = [x \in DOMAIN peers |-> IF x \in ready THEN d(x).peer ELSE queued(x)]
      /\ IF \E x \in ready : d(x).stale THEN requestRoomReconciliation(e, cursor)
         ELSE UNCHANGED <<signals, recon>>
      /\ hubIsFree
  BY Zenon DEF broadcastEvent
<1>2. /\ c \in Clients /\ p \in Peers(version) /\ version \in Nat /\ commits \in Seq(Kinds)
      /\ (p.ready <=> p.sync = "no") /\ p.sync # "flush" /\ MaxPending \in Nat
      /\ Len(p.pending) < MaxPending
  BY <1>1, WatchFacts, HubAssumption DEF hubIsFree, QueuesHaveRoom
<1>3. DOMAIN peers' = DOMAIN peers
  BY <1>1
<1>4. \/ DOMAIN signals' = DOMAIN signals \cup {e}
      \/ signals' = signals /\ ~\E x \in ready : d(x).stale
  <2>1. CASE \E x \in ready : d(x).stale
    <3>1. requestRoomReconciliation(e, cursor)
      BY <1>1, <2>1
    <3> QED
      BY <3>1, SignalsCome
  <2>2. CASE ~\E x \in ready : d(x).stale
    BY <1>1, <2>2
  <2> QED
    BY <2>1, <2>2
<1>5. p.state \in Int /\ e \in Int
  BY <1>2, PeerShape
<1>6. CASE c \in ready
  <2>1. peers'[c] = d(c).peer
    BY <1>1, <1>6
  <2>2. /\ d(c).peer.state >= p.state /\ d(c).peer.again = p.again /\ d(c).peer.room = p.room
        /\ d(c).peer.state >= e \/ d(c).stale
    <3> HIDE DEF p
    <3> QED
      BY <1>2, DeliveredSees DEF p
  <2>3. d(c).peer \in Peers(version) /\ d(c).peer.sync = p.sync /\ d(c).peer.pending = p.pending
    BY <1>2, Delivered
  <2> HIDE DEF d
  <2>4. d(c).peer.state \in Int
    BY <1>2, <2>3, PeerShape
  <2>5. d(c).stale => e \in DOMAIN signals'
    BY <1>4, <1>6
  <2>6. Told(p, d(c).peer, e, DOMAIN signals')
    BY <1>2, <1>5, <1>6, <2>2, <2>3, <2>4, <2>5 DEF Told
  <2> HIDE DEF ready
  <2> QED
    BY <1>3, <1>4, <2>1, <2>6
<1>7. CASE c \notin ready
  <2>1. peers'[c] = queued(c) /\ p.sync # "no"
    BY <1>1, <1>2, <1>7
  <2>2. /\ \E j \in DOMAIN queue(c) : queue(c)[j].event = e
        /\ \A i \in DOMAIN p.pending : \E j \in DOMAIN queue(c) :
             queue(c)[j].event = p.pending[i].event
    <3>1. p.pending \in Seq(Entries(version))
      BY <1>2, PeerShape
    <3>2. Entry(e, cursor) \in Entries(version)
      BY <1>2 DEF Entry, Entries
    <3>3. PICK s \in Seq(Entries(version)) : s = p.pending
      BY <3>1
    <3> DEFINE more == queuePending(s, e, cursor)
    <3>4. /\ \E j \in DOMAIN more : more[j].event = e
          /\ \A i \in DOMAIN s : \E j \in DOMAIN more : more[j].event = s[i].event
      <4>1. Len(s) < MaxPending
        BY <1>2, <3>3
      <4> HIDE DEF p
      <4> QED
        BY <1>2, <3>2, <4>1, QueueKeeps
    <3>5. more = queue(c)
      BY <3>3
    <3> HIDE DEF more
    <3> QED
      BY <3>3, <3>4, <3>5
  <2> HIDE DEF queue
  <2>3. /\ queued(c).sync = p.sync /\ queued(c).again = p.again /\ queued(c).room = p.room
        /\ queued(c).state = p.state /\ queued(c).pending = queue(c)
    BY <1>2 DEF Peers
  <2> HIDE DEF queued
  <2>4. Told(p, queued(c), e, DOMAIN signals')
    BY <1>2, <1>5, <2>1, <2>2, <2>3 DEF Told
  <2> HIDE DEF ready
  <2> QED
    BY <1>3, <1>4, <2>1, <2>4
<1> QED
  BY <1>6, <1>7

LEMMA BroadcastWatched ==
  ASSUME HubInv, QueuesHaveRoom, AllWatched, IdleIsSatisfied,
         NEW e \in 1 .. version, NEW cursor \in 0 .. version, broadcastEvent(e, cursor),
         reader' \in {reader, e}
  PROVE  AllWatched' /\ IdleIsSatisfied'
<1>1. /\ version \in Nat /\ e \in Int /\ e # Off /\ reader \in Int
  BY WatchFacts DEF Off
<1>2. ASSUME NEW c \in DOMAIN peers' PROVE Watched(peers'[c], reader', DOMAIN signals')
  <2> DEFINE p == peers[c]
             q == peers'[c]
             S == DOMAIN signals
             T == DOMAIN signals'
  <2>1. c \in DOMAIN peers /\ Told(p, q, e, T) /\ S \subseteq T
    <3>1. DOMAIN peers' = DOMAIN peers
      BY DEF broadcastEvent
    <3> QED
      BY <1>2, <3>1, BroadcastTold
  <2>2. Watched(p, reader, S)
    BY <2>1 DEF AllWatched
  <2> SUFFICES Watched(q, reader', T)
    OBVIOUS
  <2> HIDE DEF p, q, S, T
  <2>3. CASE p.sync = "tail"
    BY <2>1, <2>3 DEF Told, Watched
  <2>4. CASE p.sync # "tail"
    <3>1. reader # Off /\ InSight(p, reader, S) /\ (p.sync = "no" => ~p.again)
      BY <2>2, <2>4 DEF Watched
    <3>2. CASE reader' = reader
      <4>1. InSight(q, reader, T)
        BY <1>1, <2>1, <3>1, SightKept DEF Told
      <4> QED
        BY <2>1, <3>1, <3>2, <4>1 DEF Told, Watched
    <3>3. CASE reader' = e
      <4>1. CASE p.sync = "no"
        <5>1. q.state >= e \/ e \in T
          BY <2>1, <4>1 DEF Told
        <5>2. e >= e
          BY <1>1
        <5>3. q.sync = "no" /\ q.again = p.again
          BY <2>1, <4>1 DEF Told
        <5>4. InSight(q, e, T)
          BY <5>1, <5>2, <5>3 DEF InSight
        <5> QED
          BY <1>1, <3>1, <3>3, <4>1, <5>3, <5>4 DEF Watched
      <4>2. CASE p.sync # "no"
        <5>1. PICK j \in DOMAIN q.pending : q.pending[j].event = e
          BY <2>1, <4>2 DEF Told
        <5>2. q.pending[j].event >= e
          BY <1>1, <5>1
        <5>3. q.sync = p.sync /\ q.sync # "flush" /\ q.sync # "no"
          BY <2>1, <4>2 DEF Told
        <5>4. p.sync \in {"room", "send"}
          BY <2>4, <3>1, <4>2, <5>3 DEF InSight
        <5>5. InSight(q, e, T)
          BY <5>2, <5>3, <5>4 DEF InSight
        <5> QED
          BY <1>1, <3>3, <5>3, <5>5 DEF Watched
      <4> QED
        BY <4>1, <4>2
    <3> QED
      BY <3>2, <3>3
  <2> QED
    BY <2>3, <2>4
<1>3. IdleIsSatisfied'
  <2>1. requestRoomReconciliation(e, cursor) \/ UNCHANGED <<signals, recon>>
    BY DEF broadcastEvent
  <2>2. CASE requestRoomReconciliation(e, cursor)
    BY <2>2, SignalsCome DEF IdleIsSatisfied
  <2>3. CASE UNCHANGED <<signals, recon>>
    BY <2>3 DEF IdleIsSatisfied
  <2> QED
    BY <2>1, <2>2, <2>3
<1> QED
  BY <1>2, <1>3 DEF AllWatched

LEMMA BroadcastStepWatched ==
  ASSUME HubInv, QueuesHaveRoom, AllWatched, IdleIsSatisfied,
         ReadStream \/ \E e \in local : PublishLocal(e)
  PROVE  AllWatched' /\ IdleIsSatisfied'
<1>1. version \in Nat /\ reader \in Off .. version /\ local \subseteq 1 .. version
  BY Versions DEF HubInv, RestOK
<1>2. CASE ReadStream
  <2>1. reader' \in 1 .. version /\ reader' \in 0 .. version /\ broadcastEvent(reader', reader')
    BY <1>1, <1>2 DEF ReadStream, Off
  <2>2. PICK e \in 1 .. version : e = reader' /\ e \in 0 .. version
    BY <2>1
  <2>3. broadcastEvent(e, e) /\ reader' \in {reader, e}
    BY <2>1, <2>2
  <2> QED
    BY <2>2, <2>3, BroadcastWatched
<1>3. ASSUME NEW e \in local, PublishLocal(e) PROVE AllWatched' /\ IdleIsSatisfied'
  <2>1. e \in 1 .. version /\ 0 \in 0 .. version /\ broadcastEvent(e, 0) /\ reader' \in {reader, e}
    BY <1>1, <1>3 DEF PublishLocal
  <2> QED
    BY <2>1, BroadcastWatched
<1> QED
  BY <1>2, <1>3

LEMMA CaughtUpSees ==
  ASSUME commits \in Seq(Kinds), NEW p \in Peers(version), NEW n \in 0 .. version,
         NEW cursor \in 0 .. version, PeerOK(p), p.sync = "no"
  PROVE  LET q == caughtUp(p, n, cursor)
         IN  q.sync = "no" /\ q.again = p.again /\ q.state >= p.state /\ q.state >= n
<1> DEFINE moved == [p EXCEPT !.state = n, !.doc = roomRevision(n), !.cursor = cursor]
           acked == [p EXCEPT !.cursor = cursor]
           q == caughtUp(p, n, cursor)
<1>0. /\ version \in Nat /\ p.state \in 0 .. version /\ p.cursor \in Nat
      /\ n \in Nat /\ p.doc = roomRevision(p.state)
  BY PeerShape, Versions DEF PeerOK
<1>1. /\ moved.state = n /\ moved.sync = p.sync /\ moved.again = p.again
      /\ acked.state = p.state /\ acked.sync = p.sync /\ acked.again = p.again
  BY DEF Peers
<1>2. CASE n > p.state
  <2>1. q = moved
    BY <1>2, Zenon DEF caughtUp
  <2> HIDE DEF moved, q
  <2>2. q.sync = "no" /\ q.again = p.again /\ q.state >= p.state /\ q.state >= n
    BY <1>0, <1>1, <1>2, <2>1
  <2> QED
    BY <2>2 DEF q
<1>3. CASE ~(n > p.state)
  <2>1. ~(roomRevision(n) > p.doc)
    <3>1. roomRevision(n) <= roomRevision(p.state)
      BY <1>0, <1>3, RevisionsNameDocuments
    <3>2. roomRevision(n) \in Nat /\ roomRevision(p.state) \in Nat
      BY <1>0, Documents
    <3> QED
      BY <1>0, <3>1, <3>2
  <2>2. q = acked
    BY <1>3, <2>1, Zenon DEF caughtUp
  <2> HIDE DEF acked, q
  <2>3. q.sync = "no" /\ q.again = p.again /\ q.state >= p.state /\ q.state >= n
    BY <1>0, <1>1, <1>3, <2>2
  <2> QED
    BY <2>3 DEF q
<1> QED
  BY <1>2, <1>3

LEMMA ReconcileWatched ==
  ASSUME HubInv, Paths, AllWatched, IdleIsSatisfied, NEW whole, ReconcileRoom(whole)
  PROVE  AllWatched' /\ IdleIsSatisfied'
<1>0. reader' = reader /\ hubIsFree
  BY DEF ReconcileRoom
<1>1. CASE DOMAIN peers = {}
  <2>1. signals' = NoEvents /\ peers' = peers
    BY <1>1 DEF ReconcileRoom
  <2>2. DOMAIN signals' = {}
    BY <2>1 DEF NoEvents
  <2> QED
    BY <1>1, <2>1, <2>2 DEF AllWatched, IdleIsSatisfied
<1>2. CASE DOMAIN peers # {}
  <2> DEFINE n == recon.room
             S == DOMAIN signals
             satisfied == {e \in DOMAIN signals : e <= n}
             rest == DOMAIN signals \ satisfied
             cursors(peer) == {peer.cursor} \cup {signals[e] : e \in satisfied}
             cursorOf(peer) == CHOOSE k \in cursors(peer) : \A l \in cursors(peer) : l <= k
             next(c) == caughtUp(peers[c], n, cursorOf(peers[c]))
             again == [phase |-> "reading", room |-> 0,
                       target |-> CHOOSE e \in rest : \A f \in rest : f <= e]
  <2>1. /\ peers' = [c \in DOMAIN peers |-> IF peers[c].ready THEN next(c) ELSE peers[c]]
        /\ signals' = [e \in rest |-> signals[e]]
        /\ recon' = IF rest = {} THEN Idle ELSE again
    BY <1>2, Zenon DEF ReconcileRoom
  <2>2. n \in 0 .. version /\ version \in Nat /\ commits \in Seq(Kinds) /\ reader \in -1 .. version
        /\ DOMAIN signals \subseteq 1 .. version /\ \A e \in DOMAIN signals : signals[e] \in 0 .. version
    BY Versions DEF HubInv, SignalsOK, RestOK, Off
  <2>3. IdleIsSatisfied'
    <3>1. DOMAIN signals' = rest
      BY <2>1
    <3>2. again.phase = "reading"
      OBVIOUS
    <3> HIDE DEF rest, again
    <3> QED
      BY <2>1, <3>1, <3>2 DEF IdleIsSatisfied
  <2>4. ASSUME NEW c \in DOMAIN peers, peers[c].ready
        PROVE  /\ peers[c].sync = "no" /\ next(c).sync = "no" /\ next(c).again = peers[c].again
               /\ next(c).state >= peers[c].state /\ next(c).state >= n
               /\ next(c).state \in Int /\ peers[c].state \in Int
    <3>1. peers[c] \in Peers(version) /\ peers[c].sync = "no" /\ PeerOK(peers[c])
      BY <2>4, WatchFacts DEF Paths, PathOK
    <3>2. peers[c].cursor \in 0 .. version /\ peers[c].state \in Int
      BY <2>2, <3>1, PeerShape
    <3>3. cursors(peers[c]) \in SUBSET (0 .. version) /\ cursors(peers[c]) # {}
      BY <2>2, <3>2
    <3>4. cursorOf(peers[c]) \in 0 .. version
      <4> HIDE DEF cursors
      <4> QED
        BY <2>2, <3>3, GreatestCursor
    <3> HIDE DEF cursorOf, n
    <3>5. /\ next(c).sync = "no" /\ next(c).again = peers[c].again
          /\ next(c).state >= peers[c].state /\ next(c).state >= n
      BY <2>2, <3>1, <3>4, CaughtUpSees
    <3>6. next(c) \in Peers(version)
      BY <2>2, <3>1, <3>4, CaughtUp
    <3> HIDE DEF next
    <3>7. next(c).state \in Int
      BY <2>2, <3>6, PeerShape
    <3> QED
      BY <3>1, <3>2, <3>5, <3>7
  <2> HIDE DEF next
  <2>5. ASSUME NEW c \in DOMAIN peers' PROVE Watched(peers'[c], reader', DOMAIN signals')
    <3>1. c \in DOMAIN peers
      BY <2>1, <2>5
    <3>2. Watched(peers[c], reader, S)
      BY <3>1 DEF AllWatched
    <3>3. CASE peers[c].ready
      <4>1. reader # Off /\ ~peers[c].again
            /\ (peers[c].state >= reader \/ \E e \in S : e >= reader)
        BY <2>4, <3>1, <3>2, <3>3 DEF Watched, InSight
      <4>2. next(c).state >= reader \/ \E e \in rest : e >= reader
        <5>1. CASE peers[c].state >= reader
          BY <2>2, <2>4, <3>1, <3>3, <5>1
        <5>2. ASSUME NEW e \in S, e >= reader
              PROVE  next(c).state >= reader \/ \E f \in rest : f >= reader
          <6>1. CASE e <= n
            BY <2>2, <2>4, <3>1, <3>3, <5>2, <6>1
          <6>2. CASE ~(e <= n)
            BY <5>2, <6>2
          <6> QED
            BY <6>1, <6>2
        <5> QED
          BY <4>1, <5>1, <5>2
      <4>3. DOMAIN signals' = rest /\ peers'[c] = next(c)
        BY <2>1, <3>1, <3>3
      <4> HIDE DEF rest
      <4>4. Watched(next(c), reader, rest)
        BY <2>4, <3>1, <3>3, <4>1, <4>2 DEF Watched, InSight
      <4> QED
        BY <1>0, <4>3, <4>4
    <3>4. CASE ~peers[c].ready
      <4>1. peers'[c] = peers[c] /\ peers[c].sync # "no" /\ peers[c].sync # "flush"
        BY <1>0, <2>1, <3>1, <3>4, WatchFacts DEF hubIsFree
      <4> QED
        BY <1>0, <3>2, <4>1 DEF Watched, InSight
    <3> QED
      BY <3>3, <3>4
  <2> QED
    BY <2>3, <2>5 DEF AllWatched
<1> QED
  BY <1>1, <1>2

LEMMA TroubleWatched ==
  ASSUME AllWatched, IdleIsSatisfied, Trouble
  PROVE  AllWatched' /\ IdleIsSatisfied'
<1>1. ASSUME NEW gone, detached(gone), UNCHANGED <<signals, recon>>
      PROVE  AllWatched' /\ IdleIsSatisfied'
  <2>1. /\ peers' = [c \in DOMAIN peers \ gone |-> peers[c]]
        /\ reader' = IF DOMAIN peers \subseteq gone THEN Off ELSE reader
    BY <1>1 DEF detached
  <2>2. /\ DOMAIN peers' \subseteq DOMAIN peers /\ \A c \in DOMAIN peers' : peers'[c] = peers[c]
        /\ DOMAIN peers' # {} => reader' = reader
    BY <2>1
  <2> QED
    BY <1>1, <2>2, OthersWatched DEF IdleIsSatisfied
<1>2. ASSUME ReconciliationFails PROVE AllWatched' /\ IdleIsSatisfied'
  <2>1. DOMAIN peers' = {} /\ signals' = NoEvents
    BY <1>2 DEF ReconciliationFails, detached
  <2>2. DOMAIN signals' = {}
    BY <2>1 DEF NoEvents
  <2> QED
    BY <2>1, <2>2 DEF AllWatched, IdleIsSatisfied
<1>3. ASSUME NEW c \in Clients, SynchronizationFails(c) \/ Disconnect(c)
      PROVE  AllWatched' /\ IdleIsSatisfied'
  <2>1. detached({c}) /\ UNCHANGED <<signals, recon>>
    BY <1>3 DEF SynchronizationFails, Disconnect
  <2> QED
    BY <1>1, <2>1
<1> QED
  BY <1>2, <1>3 DEF Trouble

LEMMA DraftWatched ==
  ASSUME HubInv, AllWatched, IdleIsSatisfied, ReadDraft
  PROVE  AllWatched' /\ IdleIsSatisfied'
<1>0. /\ UNCHANGED <<reader, signals, recon>> /\ DOMAIN peers' = DOMAIN peers
      /\ reader \in 0 .. version
      /\ \A c \in DOMAIN peers : Drafted(c) \/ peers'[c] = peers[c]
  BY DraftRead
<1>1. ASSUME NEW c \in DOMAIN peers PROVE Watched(peers'[c], reader, DOMAIN signals)
  <2>1. Watched(peers[c], reader, DOMAIN signals)
    BY DEF AllWatched
  <2>2. CASE Drafted(c)
    <3>1. /\ peers'[c].sync = peers[c].sync /\ peers'[c].again = peers[c].again
          /\ peers'[c].state = peers[c].state /\ peers'[c].room = peers[c].room
          /\ peers'[c].pending = peers[c].pending
      BY <1>0, <2>2, DraftedPeer
    <3> QED
      BY <2>1, <3>1 DEF Watched, InSight
  <2> QED
    BY <1>0, <2>1, <2>2
<1> QED
  BY <1>0, <1>1 DEF AllWatched, IdleIsSatisfied

\* Every step of the system, as far as the hub is concerned.
LEMMA StepWatched ==
  ASSUME HubInv, Paths, QueuesHaveRoom, AllWatched, IdleIsSatisfied, Next
  PROVE  AllWatched' /\ IdleIsSatisfied'
<1>1. ASSUME UNCHANGED hubVars PROVE AllWatched' /\ IdleIsSatisfied'
  BY <1>1 DEF AllWatched, IdleIsSatisfied, hubVars
<1>2. ASSUME NEW kinds \in Writes, NEW here \in Here, NEW by \in {{}} \cup {{c} : c \in Clients},
             Commit(kinds, here, by)
      PROVE  AllWatched' /\ IdleIsSatisfied'
  BY <1>1, <1>2 DEF Commit
<1>3. ASSUME NEW c \in Clients, Attach(c) \/ RequestSync(c) \/ Browser(c)
      PROVE  AllWatched' /\ IdleIsSatisfied'
  <2>1. CASE Attach(c)
    BY <2>1, AttachWatched DEF Attach, IdleIsSatisfied
  <2>2. CASE RequestSync(c) \/ Browser(c)
    BY <1>1, <2>2 DEF RequestSync, Browser, Refresh, AcceptReply, Receive
  <2> QED
    BY <1>3, <2>1, <2>2
<1>4. ASSUME Hub PROVE AllWatched' /\ IdleIsSatisfied'
  <2>1. CASE ReadStream \/ \E e \in local : PublishLocal(e)
    BY <2>1, BroadcastStepWatched
  <2>2. CASE ReadReconciledRoom
    <3>1. UNCHANGED <<reader, peers, signals>> /\ recon'.phase = "read"
      <4>1. recon \in [phase : {"idle", "reading", "read"}, target : 0..version, room : 0..version]
        BY DEF HubInv, SignalsOK
      <4> QED
        BY <2>2, <4>1 DEF ReadReconciledRoom
    <3> QED
      BY <3>1 DEF AllWatched, IdleIsSatisfied
  <2>3. ASSUME NEW c \in Clients, RequestSynchronization(c) \/ ReadStreamTail(c) \/ ReadRoom(c)
        PROVE  AllWatched' /\ IdleIsSatisfied'
    <3>1. UNCHANGED <<signals, recon>>
      BY <2>3 DEF RequestSynchronization, ReadStreamTail, ReadRoom
    <3> QED
      BY <2>3, <3>1, SynchronizingWatched DEF IdleIsSatisfied
  <2>4. ASSUME NEW whole \in BOOLEAN, ReconcileRoom(whole) PROVE AllWatched' /\ IdleIsSatisfied'
    BY <2>4, ReconcileWatched
  <2>5. ASSUME NEW c \in Clients, Synchronize(c) PROVE AllWatched' /\ IdleIsSatisfied'
    <3>1. UNCHANGED <<signals, recon>>
      BY <2>5 DEF Synchronize
    <3> QED
      BY <2>5, <3>1, SynchronizeWatched DEF IdleIsSatisfied
  <2>6. ASSUME NEW c \in Clients, FlushPending(c) PROVE AllWatched' /\ IdleIsSatisfied'
    BY <2>6, FlushWatched
  <2> QED
    BY <1>4, <2>1, <2>2, <2>3, <2>4, <2>5, <2>6 DEF Hub
<1>5. ASSUME Trouble PROVE AllWatched' /\ IdleIsSatisfied'
  BY <1>5, TroubleWatched
<1>6. CASE ReadDraft
  BY <1>6, DraftWatched
<1> QED
  BY <1>2, <1>3, <1>4, <1>5, <1>6 DEF Next

-----------------------------------------------------------------------------
(* The browser's part.                                                     *)

\* What is sent to a browser leaves what is on its way there.
LEMMA SendingKeeps ==
  ASSUME version \in Nat, NEW w \in Seq(Messages(version)), NEW out \in Seq(Messages(version))
  PROVE  /\ \A type : OnItsWay(w, type) => OnItsWay(w \o out, type)
         /\ \A type : OnItsWay(out, type) => OnItsWay(w \o out, type)
<1>1. /\ w \o out \in Seq(Messages(version)) /\ Len(w \o out) = Len(w) + Len(out)
      /\ \A i \in 1 .. Len(w) + Len(out) :
           (w \o out)[i] = IF i <= Len(w) THEN w[i] ELSE out[i - Len(w)]
  BY ConcatProperties
<1>2. /\ DOMAIN (w \o out) = 1 .. Len(w) + Len(out) /\ DOMAIN w = 1 .. Len(w)
      /\ DOMAIN out = 1 .. Len(out) /\ Len(w) \in Nat /\ Len(out) \in Nat
  BY <1>1
<1>3. ASSUME NEW type, NEW i \in DOMAIN w, w[i].type = type PROVE OnItsWay(w \o out, type)
  <2>1. i \in DOMAIN (w \o out) /\ (w \o out)[i] = w[i]
    BY <1>1, <1>2, <1>3
  <2> QED
    BY <1>3, <2>1 DEF OnItsWay
<1>4. ASSUME NEW type, NEW i \in DOMAIN out, out[i].type = type PROVE OnItsWay(w \o out, type)
  <2> DEFINE j == Len(w) + i
  <2>1. j \in 1 .. Len(w) + Len(out) /\ ~(j <= Len(w)) /\ j - Len(w) = i
    BY <1>2, <1>4
  <2>2. j \in DOMAIN (w \o out) /\ (w \o out)[j] = out[i]
    BY <1>1, <1>2, <2>1
  <2> HIDE DEF j
  <2> QED
    BY <1>4, <2>2 DEF OnItsWay
<1> QED
  BY <1>3, <1>4 DEF OnItsWay

LEMMA TakingKeeps ==
  ASSUME NEW S, NEW w \in Seq(S), w # <<>>, NEW type, OnItsWay(w, type), Head(w).type # type
  PROVE  OnItsWay(Tail(w), type)
<1>1. PICK i \in DOMAIN w : w[i].type = type
  BY DEF OnItsWay
<1>2. i # 1 /\ i \in 1 .. Len(w)
  BY <1>1
<1>3. i - 1 \in DOMAIN Tail(w) /\ Tail(w)[i - 1] = w[i]
  BY <1>2
<1> QED
  BY <1>1, <1>3 DEF OnItsWay

\* What a step of the hub owes a browser: nothing on its way to it is lost, a
\* peer that goes is told so, and a snapshot that is due is sent or stays due.
Serves(c) ==
  /\ client'[c] = client[c]
  /\ \A type : OnItsWay(wire[c], type) => OnItsWay(wire'[c], type)
  /\ client[c].conn # "offline" /\ asked[c] =>
       \/ asked'[c] \/ OnItsWay(wire'[c], "close")
       \/ c \in DOMAIN peers' /\ Requested(peers'[c])
  /\ c \in DOMAIN peers =>
       \/ /\ c \in DOMAIN peers'
          /\ Requested(peers[c]) => Requested(peers'[c]) \/ OnItsWay(wire'[c], "snapshot")
       \/ OnItsWay(wire'[c], "close")

LEMMA ServedIsAnswered ==
  ASSUME NEW c, Answered(c), Serves(c)
  PROVE  Answered(c)'
<1>1. ASSUME client'[c].conn # "offline"
      PROVE  c \in DOMAIN peers' \/ OnItsWay(wire'[c], "close")
  BY <1>1 DEF Answered, Serves
<1>2. ASSUME client'[c].conn # "offline", client'[c].awaiting
      PROVE  \/ asked'[c] \/ OnItsWay(wire'[c], "snapshot") \/ OnItsWay(wire'[c], "close")
             \/ c \in DOMAIN peers' /\ Requested(peers'[c])
  BY <1>2 DEF Answered, Serves
<1>3. Answered(c)' <=>
        /\ client'[c].conn # "offline" => c \in DOMAIN peers' \/ OnItsWay(wire'[c], "close")
        /\ client'[c].conn # "offline" /\ client'[c].awaiting =>
             \/ asked'[c] \/ OnItsWay(wire'[c], "snapshot") \/ OnItsWay(wire'[c], "close")
             \/ c \in DOMAIN peers' /\ Requested(peers'[c])
  BY DEF Answered, OnItsWay, Requested
<1> QED
  BY <1>1, <1>2, <1>3

\* A step that does not concern the browser.
LEMMA OthersAnswered ==
  ASSUME NEW c, Answered(c), client'[c] = client[c], wire'[c] = wire[c], asked[c] => asked'[c],
         c \in DOMAIN peers => c \in DOMAIN peers' /\ peers'[c] = peers[c]
  PROVE  Answered(c)'
<1>1. Serves(c)
  BY DEF Serves
<1> QED
  BY <1>1, ServedIsAnswered

LEMMA ConnectingAnswered ==
  ASSUME HubInv, AllAnswered, NEW c \in Clients,
         Attach(c) \/ RequestSynchronization(c) \/ ReadStreamTail(c) \/ ReadRoom(c)
  PROVE  AllAnswered'
<1>0. DOMAIN client = Clients /\ DOMAIN wire = Clients /\ DOMAIN asked = Clients
  BY DEF HubInv, ClientOK, WireOK, RestOK
<1>1. ASSUME NEW d \in Clients, d # c PROVE Answered(d)'
  <2>1. /\ client'[d] = client[d] /\ wire'[d] = wire[d] /\ asked'[d] = asked[d]
        /\ d \in DOMAIN peers => d \in DOMAIN peers' /\ peers'[d] = peers[d]
    BY <1>0, <1>1 DEF Attach, RequestSynchronization, ReadStreamTail, ReadRoom
  <2> QED
    BY <2>1, OthersAnswered DEF AllAnswered
<1>2. CASE Attach(c)
  <2> DEFINE b == [client[c] EXCEPT !.conn = "open", !.awaiting = FALSE]
  <2>1. client' = [client EXCEPT ![c] = b] /\ c \in DOMAIN peers'
    BY <1>2 DEF Attach
  <2>2. client[c] \in Browsers(version)
    BY DEF HubInv, ClientOK
  <2>3. b.awaiting = FALSE
    BY <2>2 DEF Browsers
  <2>4. client'[c] = b
    BY <1>0, <2>1
  <2> HIDE DEF b
  <2>5. Answered(c)'
    BY <2>1, <2>3, <2>4 DEF Answered
  <2> QED
    BY <1>1, <2>5 DEF AllAnswered
<1>3. CASE RequestSynchronization(c) /\ c \notin DOMAIN peers
  <2>1. UNCHANGED <<wire, client, peers>>
    BY <1>3 DEF RequestSynchronization
  <2>2. client[c].conn # "offline" => OnItsWay(wire[c], "close")
    BY <1>3 DEF AllAnswered, Answered
  <2>3. Serves(c)
    BY <1>3, <2>1, <2>2 DEF Serves
  <2>4. Answered(c)'
    BY <2>3, ServedIsAnswered DEF AllAnswered
  <2> QED
    BY <1>1, <2>4 DEF AllAnswered
<1>4. CASE c \in DOMAIN peers /\ (RequestSynchronization(c) \/ ReadStreamTail(c) \/ ReadRoom(c))
  <2> DEFINE p == peers[c]
             q1 == [p EXCEPT !.sync = "tail", !.ready = FALSE]
             q2 == [p EXCEPT !.again = TRUE]
             q3 == [p EXCEPT !.sync = "room", !.tail = version]
             q4 == [p EXCEPT !.sync = "send", !.room = version]
  <2>1. p \in Peers(version) /\ UNCHANGED <<wire, client>>
    BY <1>4, WatchFacts DEF RequestSynchronization, ReadStreamTail, ReadRoom
  <2>2. \/ peers' = [peers EXCEPT ![c] = q1] \/ peers' = [peers EXCEPT ![c] = q2]
        \/ peers' = [peers EXCEPT ![c] = q3] \/ peers' = [peers EXCEPT ![c] = q4]
    BY <1>4, Zenon DEF RequestSynchronization, ReadStreamTail, ReadRoom
  <2>3. q1.sync = "tail" /\ q2.again = TRUE /\ q3.sync = "room" /\ q4.sync = "send"
    BY <2>1 DEF Peers
  <2> HIDE DEF q1, q2, q3, q4
  <2>4. c \in DOMAIN peers' /\ Requested(peers'[c])
    BY <1>4, <2>2, <2>3 DEF Requested
  <2>5. Serves(c)
    BY <2>1, <2>4 DEF Serves
  <2>6. Answered(c)'
    BY <2>5, ServedIsAnswered DEF AllAnswered
  <2> QED
    BY <1>1, <2>6 DEF AllAnswered
<1> QED
  BY <1>2, <1>3, <1>4 DEF ReadStreamTail, ReadRoom

\* The hub moves one peer and sends to its browser.
LEMMA OnePeerAnswered ==
  ASSUME HubInv, AllAnswered, UNCHANGED <<asked, client>>, NEW c \in DOMAIN peers, NEW p,
         peers' = [peers EXCEPT ![c] = p], NEW out \in Seq(Messages(version)), send(c, out),
         Requested(peers[c]) => Requested(p) \/ OnItsWay(out, "snapshot")
  PROVE  AllAnswered'
<1>0. /\ DOMAIN wire = Clients /\ c \in Clients /\ version \in Nat
      /\ wire[c] \in Seq(Messages(version))
  BY WatchFacts DEF HubInv, WireOK
<1>1. ASSUME NEW d \in Clients, d # c PROVE Answered(d)'
  <2>1. /\ client'[d] = client[d] /\ wire'[d] = wire[d] /\ asked'[d] = asked[d]
        /\ d \in DOMAIN peers => d \in DOMAIN peers' /\ peers'[d] = peers[d]
    BY <1>0, <1>1 DEF send
  <2> QED
    BY <2>1, OthersAnswered DEF AllAnswered
<1>2. wire'[c] = wire[c] \o out /\ c \in DOMAIN peers' /\ peers'[c] = p
  BY <1>0 DEF send
<1>3. /\ \A type : OnItsWay(wire[c], type) => OnItsWay(wire'[c], type)
      /\ \A type : OnItsWay(out, type) => OnItsWay(wire'[c], type)
  BY <1>0, <1>2, SendingKeeps
<1>4. Serves(c)
  BY <1>2, <1>3 DEF Serves
<1>5. Answered(c)'
  BY <1>0, <1>4, ServedIsAnswered DEF AllAnswered
<1> QED
  BY <1>1, <1>5 DEF AllAnswered

LEMMA SynchronizeAnswered ==
  ASSUME HubInv, AllAnswered, NEW c \in Clients, Synchronize(c)
  PROVE  AllAnswered'
<1> DEFINE p == peers[c]
           m == [type |-> "snapshot", cursor |-> p.tail, room |-> p.room]
           base == based(p)
           next == IF base.pending = <<>> THEN synchronized(base) ELSE [base EXCEPT !.sync = "flush"]
<1>1. /\ c \in DOMAIN peers /\ p \in Peers(version) /\ version \in Nat /\ UNCHANGED <<asked, client>>
  BY WatchFacts DEF Synchronize
<1>2. p.tail \in 0 .. version /\ p.room \in 0 .. version
  BY <1>1, PeerShape
<1>3. peers' = [peers EXCEPT ![c] = next] /\ send(c, <<m>>)
  BY Zenon DEF Synchronize
<1>4. m \in Messages(version) /\ m.type = "snapshot"
  BY <1>2 DEF Messages
<1> HIDE DEF m, next, p
<1>5. <<m>> \in Seq(Messages(version)) /\ OnItsWay(<<m>>, "snapshot")
  BY <1>4 DEF OnItsWay
<1> QED
  BY <1>1, <1>3, <1>5, OnePeerAnswered

LEMMA FlushAnswered ==
  ASSUME HubInv, AllAnswered, NEW c \in Clients, FlushPending(c)
  PROVE  AllAnswered'
<1> DEFINE p == peers[c]
           pending == p.pending
           d(i) == deliverEvent(p, pending[i].event, pending[i].cursor)
           left(i) == SubSeq(pending, 1, i - 1) \o SubSeq(pending, i + 1, Len(pending))
           q(i) == [d(i).peer EXCEPT !.pending = left(i)]
           next(i) == IF left(i) = <<>> THEN synchronized(q(i)) ELSE q(i)
<1>1. /\ c \in DOMAIN peers /\ p.sync = "flush" /\ p \in Peers(version) /\ version \in Nat
      /\ commits \in Seq(Kinds) /\ UNCHANGED <<asked, client>>
  BY WatchFacts DEF FlushPending
<1>2. PICK i \in DOMAIN pending : peers' = [peers EXCEPT ![c] = next(i)] /\ send(c, d(i).out)
  BY Zenon DEF FlushPending
<1>3. pending \in Seq(Entries(version))
  BY <1>1, PeerShape
<1>4. pending[i].event \in 1 .. version /\ pending[i].cursor \in 0 .. version
  <2> HIDE DEF pending
  <2>1. pending[i] \in Entries(version)
    BY <1>2, <1>3
  <2> QED
    BY <2>1 DEF Entries
<1>5. /\ d(i).peer \in Peers(version) /\ d(i).peer.again = p.again
      /\ d(i).out \in Seq(Messages(version))
  <2> HIDE DEF p, pending
  <2>1. d(i).peer \in Peers(version) /\ d(i).out \in Seq(Messages(version))
    BY <1>1, <1>4, Delivered
  <2>2. d(i).peer.again = p.again
    BY <1>1, <1>4, DeliveredSees
  <2> QED
    BY <2>1, <2>2
<1> HIDE DEF left, d, pending
<1>6. q(i).again = d(i).peer.again
  BY <1>5 DEF Peers
<1>7. [q(i) EXCEPT !.sync = "tail", !.again = FALSE, !.ready = FALSE].sync = "tail"
  BY <1>5 DEF Peers
<1>8. q(i).again => synchronized(q(i)).sync = "tail"
  <2> HIDE DEF q
  <2> QED
    BY <1>7 DEF synchronized
<1> HIDE DEF q, p
<1>9. Requested(p) => Requested(next(i))
  BY <1>1, <1>5, <1>6, <1>8 DEF Requested
<1> HIDE DEF next
<1> QED
  BY <1>1, <1>2, <1>5, <1>9, OnePeerAnswered DEF p

LEMMA BroadcastAnswered ==
  ASSUME HubInv, QueuesHaveRoom, AllAnswered, UNCHANGED <<asked, client>>,
         NEW e \in 1 .. version, NEW cursor \in 0 .. version, broadcastEvent(e, cursor)
  PROVE  AllAnswered'
<1> DEFINE d(c) == deliverEvent(peers[c], e, cursor)
           ready == {c \in DOMAIN peers : peers[c].ready}
<1>1. wire' = [c \in Clients |-> IF c \in ready THEN wire[c] \o d(c).out ELSE wire[c]]
  BY Zenon DEF broadcastEvent
<1>2. ASSUME NEW c \in Clients PROVE Answered(c)'
  <2>1. version \in Nat /\ wire[c] \in Seq(Messages(version)) /\ commits \in Seq(Kinds)
    BY PathFacts
  <2>2. \A type : OnItsWay(wire[c], type) => OnItsWay(wire'[c], type)
    <3>1. CASE c \in ready
      <4>1. peers[c] \in Peers(version)
        BY <3>1, WatchFacts
      <4>2. d(c).out \in Seq(Messages(version))
        BY <2>1, <4>1, Delivered
      <4> HIDE DEF d
      <4>3. wire'[c] = wire[c] \o d(c).out
        BY <1>1, <3>1
      <4> QED
        BY <2>1, <4>2, <4>3, SendingKeeps
    <3>2. CASE c \notin ready
      BY <1>1, <3>2
    <3> QED
      BY <3>1, <3>2
  <2>3. c \in DOMAIN peers =>
          c \in DOMAIN peers' /\ (Requested(peers[c]) => Requested(peers'[c]))
    <3>1. SUFFICES ASSUME c \in DOMAIN peers
                   PROVE  c \in DOMAIN peers' /\ (Requested(peers[c]) => Requested(peers'[c]))
      OBVIOUS
    <3>2. DOMAIN peers' = DOMAIN peers /\ Told(peers[c], peers'[c], e, DOMAIN signals')
      BY <3>1, BroadcastTold
    <3> QED
      BY <3>1, <3>2 DEF Told, Requested
  <2>4. Serves(c)
    BY <2>2, <2>3 DEF Serves
  <2> QED
    BY <2>4, ServedIsAnswered DEF AllAnswered
<1> QED
  BY <1>2 DEF AllAnswered

LEMMA BroadcastStepAnswered ==
  ASSUME HubInv, QueuesHaveRoom, AllAnswered, ReadStream \/ \E e \in local : PublishLocal(e)
  PROVE  AllAnswered'
<1>1. /\ version \in Nat /\ reader \in Off .. version /\ local \subseteq 1 .. version
      /\ UNCHANGED <<asked, client>>
  BY Versions DEF HubInv, RestOK, ReadStream, PublishLocal
<1>2. CASE ReadStream
  <2>1. reader' \in 1 .. version /\ reader' \in 0 .. version /\ broadcastEvent(reader', reader')
    BY <1>1, <1>2 DEF ReadStream, Off
  <2>2. PICK e \in 1 .. version : e = reader' /\ e \in 0 .. version
    BY <2>1
  <2>3. broadcastEvent(e, e)
    BY <2>1, <2>2
  <2> QED
    BY <1>1, <2>2, <2>3, BroadcastAnswered
<1>3. ASSUME NEW e \in local, PublishLocal(e) PROVE AllAnswered'
  <2>1. e \in 1 .. version /\ 0 \in 0 .. version /\ broadcastEvent(e, 0)
    BY <1>1, <1>3 DEF PublishLocal
  <2> QED
    BY <1>1, <2>1, BroadcastAnswered
<1> QED
  BY <1>2, <1>3

LEMMA ReconcileAnswered ==
  ASSUME HubInv, Paths, AllAnswered, NEW whole \in BOOLEAN, ReconcileRoom(whole)
  PROVE  AllAnswered'
<1>0. UNCHANGED <<asked, client>>
  BY DEF ReconcileRoom
<1>1. CASE DOMAIN peers = {}
  <2>1. UNCHANGED <<peers, wire>>
    BY <1>1 DEF ReconcileRoom
  <2> QED
    BY <1>0, <2>1, OthersAnswered DEF AllAnswered
<1>2. CASE DOMAIN peers # {}
  <2> DEFINE n == recon.room
             satisfied == {e \in DOMAIN signals : e <= n}
             cursors(peer) == {peer.cursor} \cup {signals[e] : e \in satisfied}
             cursorOf(peer) == CHOOSE k \in cursors(peer) : \A l \in cursors(peer) : l <= k
             next(c) == caughtUp(peers[c], n, cursorOf(peers[c]))
             messages(c) == catchUpMessages(peers[c], n, cursorOf(peers[c]), whole)
  <2>1. /\ peers' = [c \in DOMAIN peers |-> IF peers[c].ready THEN next(c) ELSE peers[c]]
        /\ wire' = [c \in Clients |->
             IF c \in DOMAIN peers /\ peers[c].ready THEN wire[c] \o messages(c) ELSE wire[c]]
    BY <1>2, Zenon DEF ReconcileRoom
  <2>2. n \in 0 .. version /\ version \in Nat /\ commits \in Seq(Kinds)
        /\ DOMAIN signals \subseteq 1 .. version /\ \A e \in DOMAIN signals : signals[e] \in 0 .. version
    BY Versions DEF HubInv, SignalsOK, RestOK
  <2>3. ASSUME NEW c \in DOMAIN peers, peers[c].ready
        PROVE  /\ next(c).again = peers[c].again /\ peers[c].sync = "no"
               /\ messages(c) \in Seq(Messages(version))
    <3>1. peers[c] \in Peers(version) /\ peers[c].sync = "no" /\ PeerOK(peers[c])
      BY <2>3, WatchFacts DEF Paths, PathOK
    <3>2. peers[c].cursor \in 0 .. version
      BY <2>2, <3>1, PeerShape
    <3>3. cursors(peers[c]) \in SUBSET (0 .. version) /\ cursors(peers[c]) # {}
      BY <2>2, <3>2
    <3>4. cursorOf(peers[c]) \in 0 .. version
      <4> HIDE DEF cursors
      <4> QED
        BY <2>2, <3>3, GreatestCursor
    <3> HIDE DEF cursorOf, n
    <3>5. next(c).again = peers[c].again
      BY <2>2, <3>1, <3>4, CaughtUpSees
    <3>6. messages(c) \in Seq(Messages(version))
      BY <2>2, <3>1, <3>4, CaughtUp
    <3> QED
      BY <3>1, <3>5, <3>6
  <2> HIDE DEF next, messages
  <2>4. ASSUME NEW c \in Clients PROVE Answered(c)'
    <3>1. CASE c \in DOMAIN peers /\ peers[c].ready
      <4>1. /\ wire'[c] = wire[c] \o messages(c) /\ c \in DOMAIN peers' /\ peers'[c] = next(c)
        BY <2>1, <3>1
      <4>2. \A type : OnItsWay(wire[c], type) => OnItsWay(wire'[c], type)
        <5>1. wire[c] \in Seq(Messages(version))
          BY PathFacts
        <5> QED
          BY <2>2, <2>3, <3>1, <4>1, <5>1, SendingKeeps
      <4>3. Requested(peers[c]) => Requested(peers'[c])
        BY <2>3, <3>1, <4>1 DEF Requested
      <4>4. Serves(c)
        BY <1>0, <4>1, <4>2, <4>3 DEF Serves
      <4> QED
        BY <4>4, ServedIsAnswered DEF AllAnswered
    <3>2. CASE ~(c \in DOMAIN peers /\ peers[c].ready)
      <4>1. wire'[c] = wire[c] /\ (c \in DOMAIN peers => c \in DOMAIN peers' /\ peers'[c] = peers[c])
        BY <2>1, <3>2
      <4> QED
        BY <1>0, <4>1, OthersAnswered DEF AllAnswered
    <3> QED
      BY <3>1, <3>2
  <2> QED
    BY <2>4 DEF AllAnswered
<1> QED
  BY <1>1, <1>2

LEMMA TroubleAnswered ==
  ASSUME HubInv, AllAnswered, Trouble
  PROVE  AllAnswered'
<1> DEFINE close == [type |-> "close"]
<1>0. /\ DOMAIN wire = Clients /\ DOMAIN client = Clients /\ DOMAIN asked = Clients
      /\ version \in Nat /\ \A c \in Clients : wire[c] \in Seq(Messages(version))
  BY WatchFacts DEF HubInv, WireOK, ClientOK, RestOK
<1>1. ASSUME NEW c \in Clients, client'[c] = client[c], wire'[c] = Append(wire[c], close)
      PROVE  asked' = asked => Answered(c)'
  <2>1. close \in Messages(version) /\ close.type = "close"
    BY DEF Messages
  <2>2. wire'[c] = wire[c] \o <<close>>
    BY <1>0, <1>1
  <2> HIDE DEF close
  <2>3. <<close>> \in Seq(Messages(version)) /\ OnItsWay(<<close>>, "close")
    BY <2>1 DEF OnItsWay
  <2>4. /\ \A type : OnItsWay(wire[c], type) => OnItsWay(wire'[c], type)
        /\ OnItsWay(wire'[c], "close")
    BY <1>0, <2>2, <2>3, SendingKeeps
  <2>5. asked' = asked => Serves(c)
    BY <1>1, <2>4 DEF Serves
  <2> QED
    BY <2>5, ServedIsAnswered DEF AllAnswered
<1>2. ASSUME NEW c \in Clients, SynchronizationFails(c) PROVE AllAnswered'
  <2>1. /\ UNCHANGED <<asked, client>>
        /\ peers' = [d \in DOMAIN peers \ {c} |-> peers[d]]
        /\ wire' = [wire EXCEPT ![c] = wire[c] \o <<close>>]
    BY <1>2 DEF SynchronizationFails, detached, send
  <2>2. wire'[c] = Append(wire[c], close)
    BY <1>0, <2>1
  <2>3. Answered(c)'
    BY <1>1, <2>1, <2>2
  <2>4. ASSUME NEW d \in Clients, d # c PROVE Answered(d)'
    <3>1. /\ client'[d] = client[d] /\ wire'[d] = wire[d] /\ asked'[d] = asked[d]
          /\ d \in DOMAIN peers => d \in DOMAIN peers' /\ peers'[d] = peers[d]
      BY <1>0, <2>1, <2>4
    <3> QED
      BY <3>1, OthersAnswered DEF AllAnswered
  <2> QED
    BY <2>3, <2>4 DEF AllAnswered
<1>3. ASSUME ReconciliationFails PROVE AllAnswered'
  <2>1. /\ UNCHANGED <<asked, client>>
        /\ wire' = [c \in Clients |->
             IF c \in DOMAIN peers THEN Append(wire[c], close) ELSE wire[c]]
    BY <1>3 DEF ReconciliationFails
  <2>2. ASSUME NEW d \in Clients PROVE Answered(d)'
    <3>1. CASE d \in DOMAIN peers
      <4>1. wire'[d] = Append(wire[d], close)
        BY <2>1, <3>1
      <4> QED
        BY <1>1, <2>1, <4>1
    <3>2. CASE d \notin DOMAIN peers
      <4>1. wire'[d] = wire[d]
        BY <2>1, <3>2
      <4> QED
        BY <2>1, <3>2, <4>1, OthersAnswered DEF AllAnswered
    <3> QED
      BY <3>1, <3>2
  <2> QED
    BY <2>2 DEF AllAnswered
<1>4. ASSUME NEW c \in Clients, Disconnect(c) PROVE AllAnswered'
  <2> DEFINE b == [client[c] EXCEPT !.conn = "offline"]
  <2>1. /\ peers' = [d \in DOMAIN peers \ {c} |-> peers[d]]
        /\ wire' = [wire EXCEPT ![c] = <<>>]
        /\ client' = [client EXCEPT ![c] = b]
        /\ asked' = [asked EXCEPT ![c] = FALSE]
    BY <1>4 DEF Disconnect, detached
  <2>2. b.conn = "offline"
    <3>1. client[c] \in Browsers(version)
      BY DEF HubInv, ClientOK
    <3> QED
      BY <3>1 DEF Browsers
  <2>3. client'[c] = b
    BY <1>0, <2>1
  <2> HIDE DEF b
  <2>4. Answered(c)'
    BY <2>2, <2>3 DEF Answered
  <2>5. ASSUME NEW d \in Clients, d # c PROVE Answered(d)'
    <3>1. /\ client'[d] = client[d] /\ wire'[d] = wire[d] /\ asked'[d] = asked[d]
          /\ d \in DOMAIN peers => d \in DOMAIN peers' /\ peers'[d] = peers[d]
      BY <1>0, <2>1, <2>5
    <3> QED
      BY <3>1, OthersAnswered DEF AllAnswered
  <2> QED
    BY <2>4, <2>5 DEF AllAnswered
<1> QED
  BY <1>2, <1>3, <1>4 DEF Trouble

\* A snapshot ends the wait for one; a close ends the connection.
LEMMA MessageEnds ==
  ASSUME commits \in Seq(Kinds), NEW b, Sound(b), NEW m \in Messages(version)
  PROVE  LET next == settled(handleServerMessage(b, m))
         IN  /\ m.type = "snapshot" => ~next.awaiting
             /\ m.type = "close" => next.conn = "offline"
<1> DEFINE taken == handleServerMessage(b, m)
<1>1. /\ settled(taken).awaiting = taken.awaiting /\ settled(taken).conn = taken.conn
  <2>1. Sound(taken)
    BY Handled DEF Follows
  <2> HIDE DEF taken
  <2> QED
    BY <2>1, SettledKeeps
<1>2. ASSUME m.type = "snapshot" PROVE ~taken.awaiting
  <2> DEFINE view == reconcileRoomSnapshot(b.view, Room(m.room))
  <2>1. taken = [b EXCEPT !.conn = "live", !.awaiting = FALSE, !.cursor = m.cursor, !.view = view]
    BY <1>2, Zenon DEF onSnapshot, handleServerMessage
  <2> HIDE DEF taken, view
  <2> QED
    BY <2>1 DEF Sound, Browsers
<1>3. ASSUME m.type = "close" PROVE taken.conn = "offline"
  <2>1. taken = [b EXCEPT !.conn = "offline"]
    BY <1>3 DEF handleServerMessage
  <2> HIDE DEF taken
  <2> QED
    BY <2>1 DEF Sound, Browsers
<1> QED
  BY <1>1, <1>2, <1>3

\* An HTTP reply changes neither the connection nor what the browser waits for.
LEMMA ReplyKeeps ==
  ASSUME commits \in Seq(Kinds), NEW b, Sound(b), NEW r \in Replies(version)
  PROVE  /\ settled(accepted(b, r)).conn = b.conn
         /\ settled(accepted(b, r)).awaiting = b.awaiting
<1> DEFINE taken == accepted(b, r)
<1>0. r.room \in 0 .. version /\ b \in Browsers(version) /\ version \in Nat
  BY Versions DEF Replies, Sound
<1>1. Sound(taken) /\ taken.conn = b.conn /\ taken.awaiting = b.awaiting
  <2>1. CASE r.delta
    <3>1. taken = acceptPresence(b, r.room)
      BY <2>1 DEF accepted
    <3>2. Sound(taken)
      BY <1>0, <3>1, Presence DEF Follows
    <3> HIDE DEF taken
    <3> QED
      BY <1>0, <3>1, <3>2 DEF acceptPresence, Browsers
  <2>2. CASE ~r.delta
    <3> DEFINE view == reconcileRoomSnapshot(b.view, Room(r.room))
    <3>1. taken = [b EXCEPT !.view = view]
      BY <2>2 DEF accepted
    <3>2. Real(view)
      BY <1>0, SnapshotIsReal DEF Sound
    <3> HIDE DEF taken, view
    <3> QED
      BY <1>0, <3>1, <3>2, Viewing DEF Browsers
  <2> QED
    BY <2>1, <2>2
<1> HIDE DEF taken
<1>2. settled(taken).conn = b.conn /\ settled(taken).awaiting = b.awaiting
  BY <1>1, SettledKeeps
<1> QED
  BY <1>2 DEF taken

LEMMA BrowserAnswered ==
  ASSUME HubInv, Paths, AllAnswered, NEW c \in Clients, Browser(c)
  PROVE  AllAnswered'
<1>0. /\ peers' = peers
      /\ DOMAIN wire = Clients /\ DOMAIN client = Clients /\ DOMAIN asked = Clients
  BY DEF Browser, Refresh, AcceptReply, Receive, hubVars, HubInv, WireOK, ClientOK, RestOK
<1>1. ASSUME NEW d \in Clients, d # c PROVE Answered(d)'
  <2>1. client'[d] = client[d] /\ wire'[d] = wire[d] /\ asked'[d] = asked[d]
    BY <1>0, <1>1 DEF Browser, Refresh, AcceptReply, Receive
  <2> QED
    BY <1>0, <2>1, OthersAnswered DEF AllAnswered
<1>2. /\ commits \in Seq(Kinds) /\ version \in Nat /\ wire[c] \in Seq(Messages(version))
      /\ Sound(client[c]) /\ Answered(c)
  BY PathFacts DEF AllAnswered
<1>3. CASE Receive(c)
  <2> DEFINE m == Head(wire[c])
             b == settled(handleServerMessage(client[c], m))
             w == IF b.conn = "offline" THEN <<>> ELSE Tail(wire[c])
  <2>1. /\ wire[c] # <<>> /\ client'[c] = b /\ wire'[c] = w
        /\ asked'[c] = (b.conn # "offline" /\ (asked[c] \/ (b.awaiting /\ ~client[c].awaiting)))
    BY <1>0, <1>3 DEF Receive
  <2>2. m \in Messages(version) /\ client[c].conn # "offline"
    BY <1>2, <2>1 DEF Paths, PathOK, OnPath
  <2>3. (m.type = "snapshot" => ~b.awaiting) /\ (m.type = "close" => b.conn = "offline")
    <3> HIDE DEF m
    <3> QED
      BY <1>2, <2>2, MessageEnds
  <2> HIDE DEF b
  <2>4. ASSUME b.conn # "offline"
        PROVE  /\ wire'[c] = Tail(wire[c])
               /\ OnItsWay(wire[c], "close") => OnItsWay(wire'[c], "close")
               /\ b.awaiting /\ OnItsWay(wire[c], "snapshot") => OnItsWay(wire'[c], "snapshot")
    <3>1. wire'[c] = Tail(wire[c])
      BY <2>1, <2>4
    <3>2. OnItsWay(wire[c], "close") => OnItsWay(wire'[c], "close")
      BY <1>2, <2>1, <2>3, <2>4, <3>1, TakingKeeps
    <3>3. b.awaiting /\ OnItsWay(wire[c], "snapshot") => OnItsWay(wire'[c], "snapshot")
      BY <1>2, <2>1, <2>3, <2>4, <3>1, TakingKeeps
    <3> QED
      BY <3>1, <3>2, <3>3
  <2> HIDE DEF m, w
  <2>5. b.conn # "offline" => c \in DOMAIN peers' \/ OnItsWay(wire'[c], "close")
    BY <1>0, <1>2, <2>2, <2>4 DEF Answered
  <2>6. b.conn # "offline" /\ b.awaiting =>
          \/ asked'[c] \/ OnItsWay(wire'[c], "snapshot") \/ OnItsWay(wire'[c], "close")
          \/ c \in DOMAIN peers' /\ Requested(peers'[c])
    <3>1. CASE client[c].awaiting
      BY <1>0, <1>2, <2>1, <2>2, <2>4, <3>1 DEF Answered
    <3>2. CASE ~client[c].awaiting
      BY <2>1, <3>2
    <3> QED
      BY <3>1, <3>2
  <2>7. Answered(c)'
    <3>1. Answered(c)' <=>
            /\ client'[c].conn # "offline" => c \in DOMAIN peers' \/ OnItsWay(wire'[c], "close")
            /\ client'[c].conn # "offline" /\ client'[c].awaiting =>
                 \/ asked'[c] \/ OnItsWay(wire'[c], "snapshot") \/ OnItsWay(wire'[c], "close")
                 \/ c \in DOMAIN peers' /\ Requested(peers'[c])
      BY DEF Answered, OnItsWay, Requested
    <3> QED
      BY <2>1, <2>5, <2>6, <3>1
  <2> QED
    BY <1>1, <2>7 DEF AllAnswered
<1>4. ASSUME NEW r, AcceptReply(c, r) PROVE AllAnswered'
  <2> DEFINE b == settled(accepted(client[c], r))
  <2>1. /\ r \in Replies(version) /\ UNCHANGED <<wire, asked>> /\ client'[c] = b
    BY <1>0, <1>4 DEF AcceptReply, HubInv, RestOK
  <2>2. b.conn = client[c].conn /\ b.awaiting = client[c].awaiting
    BY <1>2, <2>1, ReplyKeeps
  <2> HIDE DEF b
  <2>3. Answered(c)'
    BY <1>0, <1>2, <2>1, <2>2 DEF Answered
  <2> QED
    BY <1>1, <2>3 DEF AllAnswered
<1>5. ASSUME NEW of, Refresh(c, of) PROVE AllAnswered'
  <2>1. UNCHANGED <<wire, asked, client>>
    BY <1>5 DEF Refresh
  <2>2. Answered(c)'
    BY <1>0, <1>2, <2>1, OthersAnswered
  <2> QED
    BY <1>1, <2>2 DEF AllAnswered
<1> QED
  BY <1>3, <1>4, <1>5 DEF Browser

LEMMA DraftAnswered ==
  ASSUME HubInv, AllAnswered, ReadDraft
  PROVE  AllAnswered'
<1>0. /\ UNCHANGED <<asked, client>> /\ DOMAIN peers' = DOMAIN peers /\ reader \in 0 .. version
      /\ \A c \in Clients :
           \/ c \in DOMAIN peers /\ Drafted(c)
           \/ wire'[c] = wire[c] /\ (c \in DOMAIN peers => peers'[c] = peers[c])
  BY DraftRead
<1>1. ASSUME NEW c \in Clients PROVE Answered(c)'
  <2>1. CASE wire'[c] = wire[c] /\ (c \in DOMAIN peers => peers'[c] = peers[c])
    BY <1>0, <2>1, OthersAnswered DEF AllAnswered
  <2>2. CASE c \in DOMAIN peers /\ Drafted(c)
    <3> DEFINE m == [type |-> "draft", cursor |-> reader]
    <3>1. /\ version \in Nat /\ wire[c] \in Seq(Messages(version)) /\ m \in Messages(version)
          /\ peers'[c].sync = peers[c].sync /\ peers'[c].again = peers[c].again
      BY <1>0, <2>2, PathFacts, DraftedPeer
    <3>2. wire'[c] = Append(wire[c], m)
      BY <2>2 DEF Drafted
    <3> HIDE DEF m
    <3>3. wire'[c] = wire[c] \o <<m>> /\ <<m>> \in Seq(Messages(version))
      BY <3>1, <3>2
    <3>4. \A type : OnItsWay(wire[c], type) => OnItsWay(wire'[c], type)
      BY <3>1, <3>3, SendingKeeps
    <3>5. Serves(c)
      BY <1>0, <2>2, <3>1, <3>4 DEF Serves, Requested
    <3> QED
      BY <3>5, ServedIsAnswered DEF AllAnswered
  <2> QED
    BY <1>0, <2>1, <2>2
<1> QED
  BY <1>1 DEF AllAnswered

LEMMA StepAnswered ==
  ASSUME HubInv, Paths, QueuesHaveRoom, AllAnswered, Next
  PROVE  AllAnswered'
<1>1. ASSUME UNCHANGED <<peers, wire, client>>, \A c \in Clients : asked[c] => asked'[c]
      PROVE  AllAnswered'
  BY <1>1, OthersAnswered DEF AllAnswered
<1>2. ASSUME NEW kinds \in Writes, NEW here \in Here, NEW by \in {{}} \cup {{c} : c \in Clients},
             Commit(kinds, here, by)
      PROVE  AllAnswered'
  BY <1>1, <1>2 DEF Commit, hubVars
<1>3. ASSUME NEW c \in Clients, RequestSync(c) PROVE AllAnswered'
  <2>1. UNCHANGED <<peers, wire, client>> /\ asked' = [asked EXCEPT ![c] = TRUE]
    BY <1>3 DEF RequestSync, hubVars
  <2>2. \A d \in Clients : asked[d] => asked'[d]
    BY <2>1 DEF HubInv, RestOK
  <2> QED
    BY <1>1, <2>1, <2>2
<1>4. ASSUME NEW c \in Clients, Attach(c) \/ Browser(c) PROVE AllAnswered'
  BY <1>4, ConnectingAnswered, BrowserAnswered
<1>5. ASSUME Hub PROVE AllAnswered'
  <2>1. CASE ReadStream \/ \E e \in local : PublishLocal(e)
    BY <2>1, BroadcastStepAnswered
  <2>2. CASE ReadReconciledRoom
    BY <1>1, <2>2 DEF ReadReconciledRoom
  <2>3. ASSUME NEW c \in Clients, RequestSynchronization(c) \/ ReadStreamTail(c) \/ ReadRoom(c)
        PROVE  AllAnswered'
    BY <2>3, ConnectingAnswered
  <2>4. ASSUME NEW whole \in BOOLEAN, ReconcileRoom(whole) PROVE AllAnswered'
    BY <2>4, ReconcileAnswered
  <2>5. ASSUME NEW c \in Clients, Synchronize(c) \/ FlushPending(c) PROVE AllAnswered'
    BY <2>5, SynchronizeAnswered, FlushAnswered
  <2> QED
    BY <1>5, <2>1, <2>2, <2>3, <2>4, <2>5 DEF Hub
<1>6. ASSUME Trouble PROVE AllAnswered'
  BY <1>6, TroubleAnswered
<1>7. CASE ReadDraft
  BY <1>7, DraftAnswered
<1> QED
  BY <1>2, <1>3, <1>4, <1>5, <1>6, <1>7 DEF Next

-----------------------------------------------------------------------------

LEMMA SignalsInitially == Init => SignalInv
<1> SUFFICES ASSUME Init PROVE SignalInv
  OBVIOUS
<1>1. DOMAIN peers = {} /\ DOMAIN signals = {}
  BY DEF Init, NoEvents
<1>2. \A c \in Clients : client[c].conn = "offline"
  BY DEF Init
<1>3. AllWatched /\ AllAnswered /\ IdleIsSatisfied
  BY <1>1, <1>2 DEF AllWatched, AllAnswered, Answered, IdleIsSatisfied
<1> QED
  BY <1>3, DeliveryInitially DEF SignalInv

LEMMA SignalsKept ==
  ASSUME SignalInv, QueuesHaveRoom, [Next]_vars, DeliveryInv'
  PROVE  SignalInv'
<1>0. HubInv /\ Paths /\ AllWatched /\ AllAnswered /\ IdleIsSatisfied
  BY DEF SignalInv, DeliveryInv
<1>1. CASE Next
  <2>1. AllWatched' /\ IdleIsSatisfied'
    BY <1>0, <1>1, StepWatched
  <2>2. AllAnswered'
    BY <1>0, <1>1, StepAnswered
  <2> QED
    BY <2>1, <2>2 DEF SignalInv
<1>2. CASE UNCHANGED vars
  <2>1. UNCHANGED <<reader, peers, signals, recon, wire, asked, client>>
    BY <1>2 DEF vars
  <2>2. AllWatched' /\ IdleIsSatisfied'
    BY <1>0, <2>1 DEF AllWatched, IdleIsSatisfied
  <2>3. AllAnswered'
    BY <1>0, <2>1, OthersAnswered DEF AllAnswered
  <2> QED
    BY <2>2, <2>3 DEF SignalInv
<1> QED
  BY <1>1, <1>2

LEMMA SignalsInvariant == Spec /\ []QueuesHaveRoom => []SignalInv
<1>1. Init => SignalInv
  BY SignalsInitially
<1>2. SignalInv /\ QueuesHaveRoom /\ DeliveryInv' /\ [Next]_vars => SignalInv'
  BY SignalsKept DEF SignalInv
<1> QED
  BY <1>1, <1>2, DeliveryInvariant, PTL DEF Spec

\* With nothing under way, a live browser has a peer, whose base covers what
\* the reader has delivered; and it holds what the peer's base says.
LEMMA NothingLeftToCome == SignalInv => QuietMeansCurrent
<1> SUFFICES ASSUME SignalInv, Quiet, NEW c \in Clients, client[c].conn = "live"
             PROVE  client[c].view = Room(version)
  BY DEF QuietMeansCurrent
<1> DEFINE b == client[c]
           p == peers[c]
<1>0. HubInv /\ PathOK(c) /\ Answered(c) /\ AllWatched /\ IdleIsSatisfied
  BY DEF SignalInv, DeliveryInv, Paths, AllAnswered
<1>1. /\ wire[c] = <<>> /\ ~asked[c] /\ DOMAIN signals = {} /\ reader \in {Off, version}
      /\ \A d \in DOMAIN peers : peers[d].sync = "no"
  BY <1>0 DEF Quiet, IdleIsSatisfied
<1>2. \A type : ~OnItsWay(wire[c], type)
  BY <1>1 DEF OnItsWay
<1>3. c \in DOMAIN peers
  BY <1>0, <1>2 DEF Answered
<1>4. p.sync = "no" /\ ~p.again /\ reader = version /\ p.state >= version
  BY <1>0, <1>1, <1>3 DEF AllWatched, Watched, InSight
<1>5. ~b.awaiting
  BY <1>0, <1>1, <1>2, <1>4 DEF Answered, Requested
<1>6. Reaches(<<>>, b, 1, p.state)
  <2>1. Reaches(wire[c], b, Len(wire[c]) + 1, p.state)
    BY <1>0, <1>3 DEF PathOK, Attended
  <2>2. Len(wire[c]) + 1 = 1
    BY <1>1
  <2> HIDE DEF b, p
  <2> QED
    BY <1>1, <2>1, <2>2
<1>7. b.view.state >= p.state
  <2>1. Silent(<<>>, 0, 1)
    BY DEF Silent
  <2> QED
    BY <1>5, <1>6, <2>1 DEF Reaches, Holds
<1>8. /\ commits \in Seq(Kinds) /\ version \in Nat /\ Real(b.view)
      /\ b.view.state \in -1 .. version /\ p.state \in Int
  BY <1>0, <1>3, PathFacts, BrowserShape DEF Sound
<1>9. b.view.state = version
  BY <1>4, <1>7, <1>8
<1>10. b.view # NoRoom
  BY <1>8, <1>9 DEF NoRoom
<1>11. PICK n \in 0 .. version : b.view = Room(n)
  BY <1>8, <1>10 DEF Real
<1>12. n = version
  BY <1>8, <1>9, <1>11, Rooms
<1> QED
  BY <1>11, <1>12

\* While no queue of a synchronizing peer fills, no signal is lost, however
\* commits, events, reads, requests and connections cross: when nothing is under
\* way, every live browser shows the room's last version.
THEOREM QuietBrowsersAreCurrent == Spec /\ []QueuesHaveRoom => []QuietMeansCurrent
<1>1. SignalInv => QuietMeansCurrent
  BY NothingLeftToCome
<1> QED
  BY <1>1, SignalsInvariant, PTL

-----------------------------------------------------------------------------
(* What is acknowledged and not shown is owed.                             *)
(*                                                                         *)
(* A draft's event may take a cursor past the version that the browser     *)
(* shows, but never past what the reader has delivered or the peer's base  *)
(* covers; and what those have is either shown or still signalled.         *)

Known(k, n, p) == k <= 0 \/ k <= n \/ k <= p.state

\* Nothing the hub has sent or keeps for a peer acknowledges more than that.
Tells(w, p, n) ==
  /\ Known(p.cursor, n, p)
  /\ \A i \in DOMAIN w : w[i].type # "close" => Known(w[i].cursor, n, p)

CursorKnown(c) ==
  /\ Tells(wire[c], peers[c], reader)
  /\ client[c].conn = "live" => Known(client[c].cursor, reader, peers[c])

CursorsKnown == \A c \in DOMAIN peers : CursorKnown(c)

\* The reader and the base of a peer only move forward.
LEMMA KnownStays ==
  ASSUME NEW k \in Int, NEW n \in Int, NEW l \in Int, l >= n, NEW p, NEW q,
         p.state \in Int, q.state \in Int, q.state >= p.state, Known(k, n, p)
  PROVE  Known(k, l, q)
BY DEF Known

LEMMA TellsMore ==
  ASSUME version \in Nat, NEW w \in Seq(Messages(version)), NEW out \in Seq(Messages(version)),
         NEW p, NEW q, p.state \in Int, q.state \in Int, q.state >= p.state,
         NEW n \in Int, NEW l \in Int, l >= n, Tells(w, p, n), Tells(out, q, l)
  PROVE  Tells(w \o out, q, l)
<1> DEFINE u == w \o out
<1>1. /\ u \in Seq(Messages(version)) /\ Len(u) = Len(w) + Len(out)
      /\ \A i \in 1 .. Len(w) + Len(out) : u[i] = IF i <= Len(w) THEN w[i] ELSE out[i - Len(w)]
  BY ConcatProperties
<1>2. /\ DOMAIN u = 1 .. Len(w) + Len(out) /\ DOMAIN w = 1 .. Len(w)
      /\ DOMAIN out = 1 .. Len(out) /\ Len(w) \in Nat /\ Len(out) \in Nat
  BY <1>1
<1> HIDE DEF u
<1>3. ASSUME NEW i \in DOMAIN u, u[i].type # "close" PROVE Known(u[i].cursor, l, q)
  <2>1. CASE i <= Len(w)
    <3>1. i \in DOMAIN w /\ u[i] = w[i] /\ w[i] \in Messages(version)
      BY <1>1, <1>2, <1>3, <2>1
    <3>2. w[i].cursor \in 0 .. version
      BY <1>3, <3>1, MessageShapes
    <3>3. Known(w[i].cursor, n, p)
      BY <1>3, <3>1 DEF Tells
    <3>4. w[i].cursor \in Int
      BY <3>2
    <3>5. Known(w[i].cursor, l, q)
      BY <3>3, <3>4, KnownStays
    <3> QED
      BY <3>1, <3>5
  <2>2. CASE ~(i <= Len(w))
    <3>1. i - Len(w) \in DOMAIN out /\ u[i] = out[i - Len(w)]
      BY <1>1, <1>2, <1>3, <2>2
    <3> QED
      BY <1>3, <3>1 DEF Tells
  <2> QED
    BY <2>1, <2>2
<1> QED
  BY <1>3 DEF Tells, u

LEMMA KnownFacts ==
  ASSUME HubInv, NEW c \in DOMAIN peers
  PROVE  /\ version \in Nat /\ commits \in Seq(Kinds) /\ reader \in -1 .. version /\ reader \in Int
         /\ c \in Clients /\ wire[c] \in Seq(Messages(version))
         /\ peers[c] \in Peers(version) /\ peers[c].state \in -1 .. version
         /\ peers[c].state \in Int /\ peers[c].cursor \in 0 .. version /\ peers[c].cursor \in Int
         /\ client[c] \in Browsers(version) /\ Sound(client[c])
         /\ client[c].cursor \in 0 .. version /\ client[c].cursor \in Int
<1>1. c \in Clients /\ peers[c] \in Peers(version) /\ reader \in -1 .. version
  BY WatchFacts
<1>2. /\ version \in Nat /\ commits \in Seq(Kinds) /\ wire[c] \in Seq(Messages(version))
      /\ Sound(client[c])
  BY <1>1, PathFacts
<1>3. client[c] \in Browsers(version) /\ client[c].cursor \in 0 .. version
  BY <1>2, BrowserShape DEF Sound
<1>4. peers[c].state \in -1 .. version /\ peers[c].cursor \in 0 .. version
  BY <1>1, <1>2, PeerShape
<1> QED
  BY <1>1, <1>2, <1>3, <1>4

\* A peer is served, or left alone: the browser is not concerned.
LEMMA KnownServed ==
  ASSUME HubInv, NEW c \in DOMAIN peers, CursorKnown(c),
         client'[c].conn = client[c].conn, client'[c].cursor = client[c].cursor,
         NEW out \in Seq(Messages(version)), wire'[c] = wire[c] \o out,
         peers'[c].state \in Int, peers'[c].state >= peers[c].state,
         reader' \in Int, reader' >= reader, Tells(out, peers'[c], reader')
  PROVE  CursorKnown(c)'
<1>1. Tells(wire'[c], peers'[c], reader')
  BY KnownFacts, TellsMore DEF CursorKnown
<1>2. client'[c].conn = "live" => Known(client'[c].cursor, reader', peers'[c])
  <2>1. SUFFICES ASSUME client[c].conn = "live" PROVE Known(client[c].cursor, reader', peers'[c])
    OBVIOUS
  <2>2. Known(client[c].cursor, reader, peers[c])
    BY <2>1 DEF CursorKnown
  <2> QED
    BY <2>2, KnownFacts, KnownStays
<1> QED
  BY <1>1, <1>2 DEF CursorKnown, Tells, Known

LEMMA KnownLeftAlone ==
  ASSUME HubInv, NEW c \in DOMAIN peers, CursorKnown(c),
         client'[c].conn = client[c].conn, client'[c].cursor = client[c].cursor,
         wire'[c] = wire[c], peers'[c].state = peers[c].state, peers'[c].cursor = peers[c].cursor,
         reader' \in Int, reader' >= reader
  PROVE  CursorKnown(c)'
<1>1. /\ <<>> \in Seq(Messages(version)) /\ DOMAIN <<>> = {} /\ wire[c] \o <<>> = wire[c]
  BY KnownFacts
<1>2. Known(peers[c].cursor, reader, peers[c])
  BY DEF CursorKnown, Tells
<1>3. peers'[c].state \in Int /\ peers'[c].state >= peers[c].state
  BY KnownFacts
<1>4. Known(peers'[c].cursor, reader', peers'[c])
  BY <1>2, <1>3, KnownFacts, KnownStays
<1>5. Tells(<<>>, peers'[c], reader')
  BY <1>1, <1>4 DEF Tells
<1> QED
  BY <1>1, <1>3, <1>5, KnownServed

\* The hub moves one peer and sends to its browser.
LEMMA OnePeerTold ==
  ASSUME HubInv, CursorsKnown, UNCHANGED client, NEW c \in DOMAIN peers, NEW p,
         peers' = [peers EXCEPT ![c] = p], NEW out \in Seq(Messages(version)), send(c, out),
         p.state \in Int, p.state >= peers[c].state,
         reader' \in Int, reader' >= reader, Tells(out, p, reader')
  PROVE  CursorsKnown'
<1>0. DOMAIN wire = Clients /\ c \in Clients /\ DOMAIN peers \subseteq Clients
  BY WatchFacts DEF HubInv, WireOK
<1>1. ASSUME NEW d \in DOMAIN peers PROVE CursorKnown(d)'
  <2>1. CASE d = c
    <3>1. peers'[d] = p /\ wire'[d] = wire[d] \o out /\ client'[d] = client[d]
      BY <1>0, <2>1 DEF send
    <3>2. Tells(out, peers'[d], reader')
      BY <3>1
    <3> QED
      BY <2>1, <3>1, <3>2, KnownServed DEF CursorsKnown
  <2>2. CASE d # c
    <3>1. peers'[d] = peers[d] /\ wire'[d] = wire[d] /\ client'[d] = client[d]
      BY <1>0, <2>2 DEF send
    <3> QED
      BY <3>1, KnownLeftAlone DEF CursorsKnown
  <2> QED
    BY <2>1, <2>2
<1> QED
  BY <1>1 DEF CursorsKnown

LEMMA ConnectingTold ==
  ASSUME HubInv, Paths, CursorsKnown, NEW c \in Clients,
         Attach(c) \/ RequestSynchronization(c) \/ ReadStreamTail(c) \/ ReadRoom(c)
  PROVE  CursorsKnown'
<1>0. /\ DOMAIN client = Clients /\ DOMAIN peers \subseteq Clients /\ version \in Nat
      /\ reader \in -1 .. version
  BY WatchFacts DEF HubInv, ClientOK
<1>1. CASE Attach(c)
  <2> DEFINE b == [client[c] EXCEPT !.conn = "open", !.awaiting = FALSE]
  <2>1. /\ client[c].conn = "offline" /\ c \notin DOMAIN peers /\ UNCHANGED <<reader, wire>>
        /\ peers' = [d \in DOMAIN peers \cup {c} |-> IF d = c THEN NewPeer ELSE peers[d]]
        /\ client' = [client EXCEPT ![c] = b]
    BY <1>1 DEF Attach
  <2>2. client[c] \in Browsers(version)
    BY DEF HubInv, ClientOK
  <2>3. b.conn = "open"
    BY <2>2 DEF Browsers
  <2>4. client'[c] = b /\ \A d \in Clients \ {c} : client'[d] = client[d]
    BY <1>0, <2>1
  <2> HIDE DEF b
  <2>5. CursorKnown(c)'
    <3>1. wire'[c] = <<>> /\ peers'[c] = NewPeer /\ client'[c].conn = "open" /\ DOMAIN <<>> = {}
      BY <2>1, <2>3, <2>4 DEF Paths, PathOK, OnPath
    <3>2. NewPeer.cursor = 0
      BY DEF NewPeer
    <3>3. Tells(<<>>, NewPeer, reader')
      BY <3>1, <3>2 DEF Tells, Known
    <3> QED
      BY <3>1, <3>3 DEF CursorKnown, Tells, Known
  <2>6. ASSUME NEW d \in DOMAIN peers PROVE CursorKnown(d)'
    <3>1. peers'[d] = peers[d] /\ client'[d] = client[d] /\ wire'[d] = wire[d]
      BY <1>0, <2>1, <2>4
    <3> QED
      BY <1>0, <2>1, <3>1, KnownLeftAlone DEF CursorsKnown
  <2> QED
    BY <2>1, <2>5, <2>6 DEF CursorsKnown
<1>2. CASE RequestSynchronization(c) /\ c \notin DOMAIN peers
  <2>1. UNCHANGED <<wire, client, peers, reader>>
    BY <1>2 DEF RequestSynchronization
  <2>2. ASSUME NEW d \in DOMAIN peers PROVE CursorKnown(d)'
    BY <1>0, <2>1, KnownLeftAlone DEF CursorsKnown
  <2> QED
    BY <2>1, <2>2 DEF CursorsKnown
<1>3. CASE c \in DOMAIN peers /\ (RequestSynchronization(c) \/ ReadStreamTail(c) \/ ReadRoom(c))
  <2> DEFINE p == peers[c]
             q1 == [p EXCEPT !.sync = "tail", !.ready = FALSE]
             q2 == [p EXCEPT !.again = TRUE]
             q3 == [p EXCEPT !.sync = "room", !.tail = version]
             q4 == [p EXCEPT !.sync = "send", !.room = version]
  <2>1. p \in Peers(version) /\ UNCHANGED <<wire, client>>
    BY <1>3, WatchFacts DEF RequestSynchronization, ReadStreamTail, ReadRoom
  <2>2. \/ peers' = [peers EXCEPT ![c] = q1] \/ peers' = [peers EXCEPT ![c] = q2]
        \/ peers' = [peers EXCEPT ![c] = q3] \/ peers' = [peers EXCEPT ![c] = q4]
    BY <1>3, Zenon DEF RequestSynchronization, ReadStreamTail, ReadRoom
  <2>3. /\ q1.state = p.state /\ q2.state = p.state /\ q3.state = p.state /\ q4.state = p.state
        /\ q1.cursor = p.cursor /\ q2.cursor = p.cursor /\ q3.cursor = p.cursor
        /\ q4.cursor = p.cursor
    BY <2>1 DEF Peers
  <2>4. reader' \in Int /\ reader' >= reader
    BY <1>0, <1>3 DEF RequestSynchronization, ReadStreamTail, ReadRoom, Off
  <2> HIDE DEF q1, q2, q3, q4
  <2>5. peers'[c].state = peers[c].state /\ peers'[c].cursor = peers[c].cursor
        /\ DOMAIN peers' = DOMAIN peers /\ \A d \in DOMAIN peers \ {c} : peers'[d] = peers[d]
    BY <1>3, <2>2, <2>3
  <2>6. ASSUME NEW d \in DOMAIN peers PROVE CursorKnown(d)'
    <3>1. peers'[d].state = peers[d].state /\ peers'[d].cursor = peers[d].cursor
      BY <2>5
    <3> QED
      BY <2>1, <2>4, <3>1, KnownLeftAlone DEF CursorsKnown
  <2> QED
    BY <2>5, <2>6 DEF CursorsKnown
<1> QED
  BY <1>1, <1>2, <1>3 DEF ReadStreamTail, ReadRoom

LEMMA SynchronizeTold ==
  ASSUME HubInv, Paths, CursorsKnown, NEW c \in Clients, Synchronize(c)
  PROVE  CursorsKnown'
<1> DEFINE p == peers[c]
           base == based(p)
           flushing == [base EXCEPT !.sync = "flush"]
           q1 == [base EXCEPT !.sync = "tail", !.again = FALSE, !.ready = FALSE]
           q2 == [base EXCEPT !.sync = "no", !.ready = TRUE]
           next == IF base.pending = <<>> THEN synchronized(base) ELSE flushing
           m == [type |-> "snapshot", cursor |-> p.tail, room |-> p.room]
<1>1. /\ c \in DOMAIN peers /\ p.sync = "send" /\ p \in Peers(version) /\ version \in Nat
      /\ commits \in Seq(Kinds) /\ PeerOK(p) /\ reader \in -1 .. version
      /\ UNCHANGED <<reader, client>>
  BY PathFacts, WatchFacts DEF Synchronize, Paths, PathOK
<1>2. /\ p.tail \in 0 .. version /\ p.room \in 0 .. version /\ p.tail <= p.room
      /\ p.state \in -1 .. version /\ p.state <= p.room
  BY <1>1, PeerShape DEF PeerOK
<1>3. base \in Peers(version)
  BY <1>1, Based
<1>4. base.state = p.room /\ base.cursor = p.tail
  <2>1. base = [p EXCEPT !.state = p.room, !.doc = roomRevision(p.room), !.cursor = p.tail,
                         !.tail = 0, !.room = 0]
    BY Zenon DEF based
  <2> HIDE DEF base, p
  <2> QED
    BY <2>1, <1>1 DEF Peers
<1>5. peers' = [peers EXCEPT ![c] = next] /\ send(c, <<m>>)
  BY Zenon DEF Synchronize
<1> HIDE DEF base
<1>6. /\ flushing.state = base.state /\ flushing.cursor = base.cursor
      /\ q1.state = base.state /\ q1.cursor = base.cursor
      /\ q2.state = base.state /\ q2.cursor = base.cursor
  BY <1>3 DEF Peers
<1>7. next \in {flushing, q1, q2}
  BY Zenon DEF synchronized
<1> HIDE DEF flushing, q1, q2, next, p
<1>8. next.state = p.room /\ next.cursor = p.tail
  BY <1>4, <1>6, <1>7
<1>9. m \in Messages(version) /\ m.cursor = p.tail
  BY <1>2 DEF Messages
<1> HIDE DEF m
<1>10. Tells(<<m>>, next, reader')
  <2>1. Known(p.tail, reader', next)
    BY <1>2, <1>8 DEF Known
  <2> QED
    BY <2>1, <1>8, <1>9 DEF Tells
<1>11. <<m>> \in Seq(Messages(version)) /\ reader' \in Int /\ reader' >= reader
       /\ next.state \in Int /\ next.state >= p.state
  BY <1>1, <1>2, <1>8, <1>9
<1> QED
  BY <1>1, <1>5, <1>10, <1>11, OnePeerTold DEF p

\* An event delivered: its cursor is its version at most, which the peer covers.
LEMMA DeliveredTells ==
  ASSUME commits \in Seq(Kinds), NEW p \in Peers(version), NEW e \in 1 .. version,
         NEW cursor \in 0 .. version, cursor <= e, NEW n \in Int, Known(p.cursor, n, p)
  PROVE  /\ Tells(deliverEvent(p, e, cursor).out, deliverEvent(p, e, cursor).peer, n)
         /\ deliverEvent(p, e, cursor).peer.state >= p.state
<1> DEFINE d == deliverEvent(p, e, cursor)
           k == Larger(p.cursor, cursor)
           acked == [p EXCEPT !.cursor = k]
           both == [p EXCEPT !.state = e, !.cursor = k]
           checkpoint == [type |-> "checkpoint", cursor |-> cursor]
           event == [type |-> "event", cursor |-> cursor, event |-> e]
<1>0. /\ version \in Nat /\ p.state \in Int /\ p.cursor \in Int /\ cursor \in Int /\ e \in Int
  BY PeerShape, Versions
<1>1. checkpoint.cursor = cursor /\ event.cursor = cursor /\ k \in {p.cursor, cursor}
      /\ acked.state = p.state /\ acked.cursor = k /\ both.state = e /\ both.cursor = k
  BY DEF Larger, Peers
<1>2. CASE peerCoversEvent(p, e)
  <2>1. d = [peer |-> acked, out |-> IF cursor > p.cursor THEN <<checkpoint>> ELSE <<>>,
             stale |-> FALSE]
    BY <1>2, Zenon DEF deliverEvent
  <2>2. p.state >= e
    BY <1>2 DEF peerCoversEvent
  <2> HIDE DEF acked, k, checkpoint
  <2>3. Known(cursor, n, acked) /\ Known(k, n, acked)
    BY <1>0, <1>1, <2>2 DEF Known
  <2> HIDE DEF d
  <2>4. d.peer = acked /\ d.out \in {<<checkpoint>>, <<>>}
    BY <2>1
  <2>5. Tells(d.out, d.peer, n) /\ d.peer.state >= p.state
    BY <1>0, <1>1, <2>3, <2>4 DEF Tells
  <2> QED
    BY <2>5 DEF d
<1>3. CASE ~peerCoversEvent(p, e) /\ deltaFollows(p, e)
  <2>1. d = [peer |-> both, out |-> <<event>>, stale |-> FALSE]
    BY <1>3, Zenon DEF deliverEvent
  <2>2. p.state + 1 = e
    BY <1>3 DEF deltaFollows
  <2> HIDE DEF both, k, event
  <2>3. Known(cursor, n, both) /\ Known(k, n, both)
    BY <1>0, <1>1, <2>2 DEF Known
  <2> HIDE DEF d
  <2>4. d.peer = both /\ d.out = <<event>>
    BY <2>1
  <2>5. Tells(d.out, d.peer, n) /\ d.peer.state >= p.state
    BY <1>0, <1>1, <2>2, <2>3, <2>4 DEF Tells
  <2> QED
    BY <2>5 DEF d
<1>4. CASE ~peerCoversEvent(p, e) /\ ~deltaFollows(p, e)
  <2>1. d = [peer |-> p, out |-> <<>>, stale |-> TRUE]
    BY <1>4, Zenon DEF deliverEvent
  <2> HIDE DEF d
  <2>2. Tells(d.out, d.peer, n) /\ d.peer.state >= p.state
    BY <1>0, <2>1 DEF Tells
  <2> QED
    BY <2>2 DEF d
<1> QED
  BY <1>2, <1>3, <1>4

LEMMA FlushTold ==
  ASSUME HubInv, Paths, CursorsKnown, NEW c \in Clients, FlushPending(c)
  PROVE  CursorsKnown'
<1> DEFINE p == peers[c]
           pending == p.pending
           d(i) == deliverEvent(p, pending[i].event, pending[i].cursor)
           left(i) == SubSeq(pending, 1, i - 1) \o SubSeq(pending, i + 1, Len(pending))
           q(i) == [d(i).peer EXCEPT !.pending = left(i)]
           q1(i) == [q(i) EXCEPT !.sync = "tail", !.again = FALSE, !.ready = FALSE]
           q2(i) == [q(i) EXCEPT !.sync = "no", !.ready = TRUE]
           next(i) == IF left(i) = <<>> THEN synchronized(q(i)) ELSE q(i)
<1>1. /\ c \in DOMAIN peers /\ p.sync = "flush" /\ p \in Peers(version) /\ version \in Nat
      /\ commits \in Seq(Kinds) /\ PeerOK(p) /\ reader \in Int /\ UNCHANGED <<reader, client>>
      /\ Known(p.cursor, reader, p)
  BY PathFacts, WatchFacts DEF FlushPending, Paths, PathOK, CursorsKnown, CursorKnown, Tells
<1>2. PICK i \in DOMAIN pending : peers' = [peers EXCEPT ![c] = next(i)] /\ send(c, d(i).out)
  BY Zenon DEF FlushPending
<1>3. pending \in Seq(Entries(version))
  BY <1>1, PeerShape
<1>4. /\ pending[i].event \in 1 .. version /\ pending[i].cursor \in 0 .. version
      /\ pending[i].cursor <= pending[i].event
  <2>1. pending[i].cursor <= pending[i].event
    BY <1>1, <1>2 DEF PeerOK
  <2> HIDE DEF pending
  <2>2. pending[i] \in Entries(version)
    BY <1>2, <1>3
  <2> QED
    BY <2>1, <2>2 DEF Entries
<1>5. /\ d(i).peer \in Peers(version) /\ d(i).out \in Seq(Messages(version))
      /\ Tells(d(i).out, d(i).peer, reader) /\ d(i).peer.state >= p.state
  <2> HIDE DEF p, pending
  <2>1. d(i).peer \in Peers(version) /\ d(i).out \in Seq(Messages(version))
    BY <1>1, <1>4, Delivered
  <2>2. Tells(d(i).out, d(i).peer, reader) /\ d(i).peer.state >= p.state
    BY <1>1, <1>4, DeliveredTells
  <2> QED
    BY <2>1, <2>2
<1> HIDE DEF left, d, pending
<1>6. /\ q(i).state = d(i).peer.state /\ q(i).cursor = d(i).peer.cursor
      /\ q1(i).state = d(i).peer.state /\ q1(i).cursor = d(i).peer.cursor
      /\ q2(i).state = d(i).peer.state /\ q2(i).cursor = d(i).peer.cursor
  BY <1>5 DEF Peers
<1>7. next(i) \in {q(i), q1(i), q2(i)}
  BY Zenon DEF synchronized
<1> HIDE DEF q, q1, q2, next, p
<1>8. next(i).state = d(i).peer.state /\ next(i).cursor = d(i).peer.cursor
  BY <1>6, <1>7
<1>9. /\ Tells(d(i).out, next(i), reader') /\ next(i).state \in Int /\ next(i).state >= p.state
      /\ reader' \in Int /\ reader' >= reader
  <2>1. d(i).peer.state \in Int
    BY <1>1, <1>5, PeerShape
  <2> QED
    BY <2>1, <1>1, <1>5, <1>8 DEF Tells, Known
<1> QED
  BY <1>1, <1>2, <1>5, <1>9, OnePeerTold DEF p

LEMMA BroadcastTells ==
  ASSUME HubInv, CursorsKnown, UNCHANGED <<commits, client>>,
         NEW e \in 1 .. version, NEW cursor \in 0 .. version, cursor <= e,
         broadcastEvent(e, cursor), reader' \in Int, reader' >= reader
  PROVE  CursorsKnown'
<1> DEFINE d(c) == deliverEvent(peers[c], e, cursor)
           ready == {c \in DOMAIN peers : peers[c].ready}
           queued(c) == [peers[c] EXCEPT !.pending = queuePending(@, e, cursor)]
<1>1. /\ peers' = [c \in DOMAIN peers |-> IF c \in ready THEN d(c).peer ELSE queued(c)]
      /\ wire' = [c \in Clients |-> IF c \in ready THEN wire[c] \o d(c).out ELSE wire[c]]
  BY Zenon DEF broadcastEvent
<1> HIDE DEF d, queued
<1>2. ASSUME NEW c \in DOMAIN peers PROVE CursorKnown(c)'
  <2>1. /\ version \in Nat /\ commits \in Seq(Kinds) /\ peers[c] \in Peers(version) /\ c \in Clients
        /\ reader \in Int /\ peers[c].cursor \in Int /\ peers[c].state \in Int
        /\ Known(peers[c].cursor, reader, peers[c]) /\ CursorKnown(c)
    BY KnownFacts DEF CursorsKnown, CursorKnown, Tells
  <2>2. CASE c \in ready
    <3>1. peers'[c] = d(c).peer /\ wire'[c] = wire[c] \o d(c).out
      BY <1>1, <2>1, <2>2
    <3>2. Known(peers[c].cursor, reader', peers[c])
      BY <2>1, KnownStays
    <3>3. Tells(d(c).out, d(c).peer, reader') /\ d(c).peer.state >= peers[c].state
      BY <2>1, <3>2, DeliveredTells DEF d
    <3>4. d(c).peer \in Peers(version) /\ d(c).out \in Seq(Messages(version))
      BY <2>1, Delivered DEF d
    <3>5. d(c).peer.state \in Int
      BY <2>1, <3>4, PeerShape
    <3>6. /\ Tells(d(c).out, peers'[c], reader') /\ peers'[c].state \in Int
          /\ peers'[c].state >= peers[c].state
      BY <3>1, <3>3, <3>5
    <3> QED
      BY <2>1, <3>1, <3>4, <3>6, KnownServed
  <2>3. CASE c \notin ready
    <3>1. peers'[c] = queued(c) /\ wire'[c] = wire[c]
      BY <1>1, <2>1, <2>3
    <3>2. queued(c).state = peers[c].state /\ queued(c).cursor = peers[c].cursor
      BY <2>1 DEF queued, Peers
    <3> QED
      BY <2>1, <3>1, <3>2, KnownLeftAlone
  <2> QED
    BY <2>2, <2>3
<1> QED
  BY <1>1, <1>2 DEF CursorsKnown

LEMMA BroadcastStepTells ==
  ASSUME HubInv, CursorsKnown, ReadStream \/ \E e \in local : PublishLocal(e)
  PROVE  CursorsKnown'
<1>0. commits' = commits /\ client' = client
  BY DEF ReadStream, PublishLocal
<1>1. version \in Nat /\ reader \in Off .. version /\ local \subseteq 1 .. version /\ reader \in Int
  BY Versions DEF HubInv, RestOK, Off
<1>2. CASE ReadStream
  <2>1. /\ reader' \in 1 .. version /\ reader' \in 0 .. version /\ broadcastEvent(reader', reader')
        /\ reader' \in Int /\ reader' >= reader
    BY <1>1, <1>2 DEF ReadStream, Off
  <2>2. PICK e \in 1 .. version : e = reader' /\ e \in 0 .. version
    BY <2>1
  <2>3. broadcastEvent(e, e) /\ e <= e
    BY <2>1, <2>2
  <2> QED
    BY <1>0, <2>1, <2>2, <2>3, BroadcastTells
<1>3. ASSUME NEW e \in local, PublishLocal(e) PROVE CursorsKnown'
  <2>1. /\ e \in 1 .. version /\ 0 \in 0 .. version /\ 0 <= e /\ broadcastEvent(e, 0)
        /\ reader' = reader
    BY <1>1, <1>3 DEF PublishLocal
  <2> QED
    BY <1>0, <1>1, <2>1, BroadcastTells
<1> QED
  BY <1>2, <1>3

LEMMA DraftTold ==
  ASSUME HubInv, CursorsKnown, ReadDraft
  PROVE  CursorsKnown'
<1>0. /\ UNCHANGED <<reader, client>> /\ DOMAIN peers' = DOMAIN peers /\ reader \in 0 .. version
      /\ \A c \in DOMAIN peers : Drafted(c) \/ (peers'[c] = peers[c] /\ wire'[c] = wire[c])
  BY DraftRead
<1>1. ASSUME NEW c \in DOMAIN peers PROVE CursorKnown(c)'
  <2>1. CursorKnown(c) /\ reader \in Int
    BY KnownFacts DEF CursorsKnown
  <2>2. CASE Drafted(c)
    <3> DEFINE m == [type |-> "draft", cursor |-> reader]
    <3>1. /\ wire[c] \in Seq(Messages(version)) /\ m \in Messages(version) /\ m.cursor = reader
          /\ peers'[c].state = peers[c].state /\ peers'[c].cursor = reader
          /\ peers[c].state \in Int
      BY <1>0, <2>2, KnownFacts, DraftedPeer
    <3>2. wire'[c] = Append(wire[c], m)
      BY <2>2 DEF Drafted
    <3> HIDE DEF m
    <3>3. wire'[c] = wire[c] \o <<m>> /\ <<m>> \in Seq(Messages(version))
      <4>1. wire[c] \in Seq(Messages(version)) /\ m \in Messages(version)
        BY <3>1
      <4> QED
        BY <3>2, <4>1
    <3>4. Known(reader, reader, peers'[c])
      BY <2>1 DEF Known
    <3>5. Tells(<<m>>, peers'[c], reader')
      BY <1>0, <3>1, <3>4 DEF Tells
    <3>6. peers'[c].state \in Int /\ peers'[c].state >= peers[c].state /\ reader' >= reader
          /\ reader' \in Int
      BY <1>0, <2>1, <3>1
    <3> QED
      BY <1>0, <2>1, <3>3, <3>5, <3>6, KnownServed
  <2>3. CASE peers'[c] = peers[c] /\ wire'[c] = wire[c]
    BY <1>0, <2>1, <2>3, KnownLeftAlone
  <2> QED
    BY <1>0, <2>2, <2>3
<1> QED
  BY <1>0, <1>1 DEF CursorsKnown

\* What a ready peer is sent of a room acknowledges what it had acknowledged or
\* at most that room, which the peer covers then.
LEMMA CaughtUpTells ==
  ASSUME commits \in Seq(Kinds), NEW p \in Peers(version), NEW n \in 0 .. version,
         NEW cursor \in 0 .. version, NEW whole \in BOOLEAN, PeerOK(p), p.sync = "no",
         NEW l \in Int, Known(p.cursor, l, p), cursor = p.cursor \/ cursor <= n
  PROVE  /\ Tells(catchUpMessages(p, n, cursor, whole), caughtUp(p, n, cursor), l)
         /\ caughtUp(p, n, cursor).state >= p.state
<1> DEFINE moved == [p EXCEPT !.state = n, !.doc = roomRevision(n), !.cursor = cursor]
           acked == [p EXCEPT !.cursor = cursor]
           snapshot == [type |-> "snapshot", cursor |-> cursor, room |-> n]
           patch == [type |-> "patch", cursor |-> cursor, room |-> n,
                     base |-> [state |-> p.state, doc |-> p.doc]]
           checkpoint == [type |-> "checkpoint", cursor |-> cursor]
           out == catchUpMessages(p, n, cursor, whole)
           q == caughtUp(p, n, cursor)
<1>1. /\ p.state \in Int /\ p.cursor \in Int /\ cursor \in Int /\ n \in Int
      /\ q.state >= p.state /\ q.state >= n
  BY PeerShape, CaughtUpSees, Versions
<1>2. moved.cursor = cursor /\ acked.cursor = cursor
  BY DEF Peers
<1>3. q \in {moved, acked} /\ out \in {<<snapshot>>, <<patch>>, <<checkpoint>>, <<>>}
  BY Zenon DEF caughtUp, catchUpMessages
<1>4. q.state \in Int
  <2>1. q \in Peers(version)
    BY CaughtUp
  <2> HIDE DEF q
  <2> QED
    BY <2>1, PeerShape, Versions
<1>5. snapshot.cursor = cursor /\ patch.cursor = cursor /\ checkpoint.cursor = cursor
  OBVIOUS
<1> HIDE DEF moved, acked, snapshot, patch, checkpoint, out, q
<1>6. q.cursor = cursor /\ \A i \in DOMAIN out : out[i].cursor = cursor
  BY <1>2, <1>3, <1>5
<1>7. Known(cursor, l, q)
  BY <1>1, <1>4 DEF Known
<1>8. Tells(out, q, l) /\ q.state >= p.state
  BY <1>1, <1>6, <1>7 DEF Tells
<1> QED
  BY <1>8 DEF out, q

LEMMA ReconcileTold ==
  ASSUME HubInv, Paths, SignalsInOrder, CursorsKnown, NEW whole \in BOOLEAN, ReconcileRoom(whole)
  PROVE  CursorsKnown'
<1>0. UNCHANGED <<reader, client>>
  BY DEF ReconcileRoom
<1>1. CASE DOMAIN peers = {}
  BY <1>1 DEF ReconcileRoom, CursorsKnown
<1>2. CASE DOMAIN peers # {}
  <2> DEFINE n == recon.room
             satisfied == {e \in DOMAIN signals : e <= n}
             cursors(peer) == {peer.cursor} \cup {signals[e] : e \in satisfied}
             cursorOf(peer) == CHOOSE k \in cursors(peer) : \A l \in cursors(peer) : l <= k
             next(c) == caughtUp(peers[c], n, cursorOf(peers[c]))
             messages(c) == catchUpMessages(peers[c], n, cursorOf(peers[c]), whole)
  <2>1. /\ peers' = [c \in DOMAIN peers |-> IF peers[c].ready THEN next(c) ELSE peers[c]]
        /\ wire' = [c \in Clients |->
             IF c \in DOMAIN peers /\ peers[c].ready THEN wire[c] \o messages(c) ELSE wire[c]]
    BY <1>2, Zenon DEF ReconcileRoom
  <2>2. n \in 0 .. version /\ version \in Nat /\ commits \in Seq(Kinds)
        /\ DOMAIN signals \subseteq 1 .. version /\ \A e \in DOMAIN signals : signals[e] \in 0 .. version
    BY Versions DEF HubInv, SignalsOK, RestOK
  <2>3. ASSUME NEW c \in DOMAIN peers, peers[c].ready
        PROVE  /\ Tells(messages(c), next(c), reader) /\ next(c).state >= peers[c].state
               /\ next(c).state \in Int /\ messages(c) \in Seq(Messages(version))
    <3>1. /\ peers[c] \in Peers(version) /\ peers[c].sync = "no" /\ PeerOK(peers[c])
          /\ peers[c].cursor \in 0 .. version /\ reader \in Int
      BY <2>3, WatchFacts, KnownFacts DEF Paths, PathOK
    <3>2. Known(peers[c].cursor, reader, peers[c])
      BY DEF CursorsKnown, CursorKnown, Tells
    <3>3. cursors(peers[c]) \in SUBSET (0 .. version) /\ cursors(peers[c]) # {}
      BY <2>2, <3>1
    <3>4. /\ cursorOf(peers[c]) \in cursors(peers[c])
          /\ cursorOf(peers[c]) \in 0 .. version
      <4> HIDE DEF cursors
      <4> QED
        BY <2>2, <3>3, GreatestCursor
    <3>5. cursorOf(peers[c]) = peers[c].cursor \/ cursorOf(peers[c]) <= n
      <4> HIDE DEF cursorOf
      <4>1. ASSUME cursorOf(peers[c]) # peers[c].cursor PROVE cursorOf(peers[c]) <= n
        <5>1. PICK e \in satisfied : cursorOf(peers[c]) = signals[e]
          BY <3>4, <4>1
        <5>2. signals[e] <= e /\ e <= n /\ e \in Int /\ signals[e] \in Int
          BY <2>2, <5>1 DEF SignalsInOrder
        <5> HIDE DEF n
        <5> QED
          BY <2>2, <5>1, <5>2
      <4> QED
        BY <4>1
    <3> HIDE DEF cursorOf, n
    <3>6. Tells(messages(c), next(c), reader) /\ next(c).state >= peers[c].state
      BY <2>2, <3>1, <3>2, <3>4, <3>5, CaughtUpTells
    <3>7. next(c) \in Peers(version) /\ messages(c) \in Seq(Messages(version))
      BY <2>2, <3>1, <3>4, CaughtUp
    <3> HIDE DEF next, messages
    <3>8. next(c).state \in Int
      BY <2>2, <3>7, PeerShape
    <3> QED
      BY <3>6, <3>7, <3>8
  <2> HIDE DEF next, messages
  <2>4. ASSUME NEW c \in DOMAIN peers PROVE CursorKnown(c)'
    <3>1. /\ CursorKnown(c) /\ client'[c] = client[c] /\ reader' = reader /\ reader \in Int
          /\ c \in Clients
      BY <1>0, KnownFacts DEF CursorsKnown
    <3>2. CASE peers[c].ready
      <4>1. peers'[c] = next(c) /\ wire'[c] = wire[c] \o messages(c)
        BY <2>1, <3>1, <3>2
      <4>2. /\ Tells(messages(c), peers'[c], reader') /\ messages(c) \in Seq(Messages(version))
            /\ peers'[c].state >= peers[c].state /\ peers'[c].state \in Int
        BY <2>3, <3>1, <3>2, <4>1
      <4>3. /\ client'[c].conn = client[c].conn /\ client'[c].cursor = client[c].cursor
            /\ reader' \in Int /\ reader' >= reader
        BY <3>1
      <4> QED
        BY <3>1, <4>1, <4>2, <4>3, KnownServed
    <3>3. CASE ~peers[c].ready
      <4>1. wire'[c] = wire[c] /\ peers'[c] = peers[c]
        BY <2>1, <3>1, <3>3
      <4> QED
        BY <3>1, <4>1, KnownLeftAlone
    <3> QED
      BY <3>2, <3>3
  <2> QED
    BY <2>1, <2>4 DEF CursorsKnown
<1> QED
  BY <1>1, <1>2

\* A peer that stays is not concerned by what goes wrong elsewhere.
LEMMA TroubleTold ==
  ASSUME HubInv, CursorsKnown, Trouble
  PROVE  CursorsKnown'
<1>0. DOMAIN wire = Clients /\ DOMAIN client = Clients /\ DOMAIN peers \subseteq Clients
  BY WatchFacts DEF HubInv, WireOK, ClientOK
<1>1. ASSUME NEW c \in Clients, SynchronizationFails(c) \/ Disconnect(c) PROVE CursorsKnown'
  <2>1. /\ peers' = [d \in DOMAIN peers \ {c} |-> peers[d]]
        /\ reader' = IF DOMAIN peers \subseteq {c} THEN Off ELSE reader
        /\ \A d \in Clients \ {c} : wire'[d] = wire[d] /\ client'[d] = client[d]
    BY <1>0, <1>1 DEF SynchronizationFails, Disconnect, detached, send
  <2>2. ASSUME NEW d \in DOMAIN peers, d # c PROVE CursorKnown(d)'
    <3>1. peers'[d] = peers[d] /\ wire'[d] = wire[d] /\ client'[d] = client[d] /\ reader' = reader
      BY <1>0, <2>1, <2>2
    <3> QED
      BY <3>1, KnownFacts, KnownLeftAlone DEF CursorsKnown
  <2> QED
    BY <2>1, <2>2 DEF CursorsKnown
<1>2. CASE ReconciliationFails
  <2>1. peers' = [d \in DOMAIN peers \ DOMAIN peers |-> peers[d]]
    BY <1>2 DEF ReconciliationFails, detached
  <2> QED
    BY <2>1 DEF CursorsKnown
<1> QED
  BY <1>1, <1>2 DEF Trouble

\* A live browser's cursor is the one it had, or the message's.
Adopts(next, b, m) ==
  next.conn = "live" =>
    \/ b.conn = "live" /\ next.cursor = b.cursor
    \/ m.type # "close" /\ next.cursor = m.cursor

LEMMA PresenceKeepsCursor ==
  ASSUME NEW b, Sound(b), NEW k \in 0 .. version, NEW n
  PROVE  LET next == acceptPresence([b EXCEPT !.cursor = k], n)
         IN  next.conn = b.conn /\ next.cursor = k
<1> DEFINE b1 == [b EXCEPT !.cursor = k]
           next == acceptPresence(b1, n)
<1>1. /\ b1.conn = b.conn /\ b1.cursor = k
      /\ \A x : /\ [b1 EXCEPT !.view = x].conn = b.conn /\ [b1 EXCEPT !.view = x].cursor = k
                /\ [b1 EXCEPT !.wanted = x].conn = b.conn /\ [b1 EXCEPT !.wanted = x].cursor = k
  BY DEF Sound, Browsers
<1>2. \/ next = [b1 EXCEPT !.view = applyPresenceDelta(b1.view, n)]
      \/ next = [b1 EXCEPT !.wanted = Larger(b1.wanted, n)]
  BY Zenon DEF acceptPresence
<1> HIDE DEF b1, next
<1>3. next.conn = b.conn /\ next.cursor = k
  BY <1>1, <1>2
<1> QED
  BY <1>3 DEF next, b1

LEMMA MessageAdopted ==
  ASSUME commits \in Seq(Kinds), NEW b, Sound(b), NEW m \in Messages(version)
  PROVE  Adopts(settled(handleServerMessage(b, m)), b, m)
<1> DEFINE taken == handleServerMessage(b, m)
           k == Larger(b.cursor, m.cursor)
<1>0. /\ version \in Nat /\ b \in Browsers(version) /\ b.cursor \in 0 .. version
      /\ m.type \in {"snapshot", "patch", "event", "checkpoint", "draft", "close"}
      /\ m.type # "close" => m.cursor \in 0 .. version
  BY MessageShapes, Versions, BrowserShape DEF Sound
<1>1. settled(taken).conn = taken.conn /\ settled(taken).cursor = taken.cursor
  <2>1. Sound(taken)
    BY Handled DEF Follows
  <2> HIDE DEF taken
  <2> QED
    BY <2>1, SettledKeeps
<1>2. m.type # "close" => k \in {b.cursor, m.cursor} /\ k \in 0 .. version
  BY <1>0 DEF Larger
<1>3. Adopts(taken, b, m)
  <2>1. CASE m.type = "snapshot"
    <3> DEFINE view == reconcileRoomSnapshot(b.view, Room(m.room))
    <3>1. taken = [b EXCEPT !.conn = "live", !.awaiting = FALSE, !.cursor = m.cursor, !.view = view]
      BY <2>1, Zenon DEF onSnapshot, handleServerMessage
    <3> HIDE DEF taken, view
    <3>2. taken.cursor = m.cursor
      BY <1>0, <3>1 DEF Browsers
    <3> QED
      BY <2>1, <3>2 DEF Adopts
  <2>2. CASE m.type = "close"
    <3>1. taken = [b EXCEPT !.conn = "offline"]
      BY <2>2 DEF handleServerMessage
    <3> HIDE DEF taken
    <3>2. taken.conn = "offline"
      BY <1>0, <3>1 DEF Browsers
    <3> QED
      BY <3>2 DEF Adopts
  <2>3. CASE m.type = "patch" /\ ~b.awaiting
    <3> DEFINE view == applyRoomPatch(b.view, m)
    <3>1. taken = [b EXCEPT !.cursor = k, !.view = view] \/ taken = [b EXCEPT !.awaiting = TRUE]
      BY <2>3, Zenon DEF onPatch, handleServerMessage
    <3> HIDE DEF taken, view, k
    <3>2. taken.conn = b.conn /\ taken.cursor \in {k, b.cursor}
      BY <1>0, <3>1 DEF Browsers
    <3> QED
      BY <1>2, <2>3, <3>2 DEF Adopts
  <2>4. CASE m.type = "event" /\ ~b.awaiting
    <3>1. taken = acceptPresence([b EXCEPT !.cursor = k], m.event)
      BY <2>4, Zenon DEF onEvent, handleServerMessage
    <3> HIDE DEF taken, k
    <3>2. taken.conn = b.conn /\ taken.cursor = k
      BY <1>2, <2>4, <3>1, PresenceKeepsCursor
    <3> QED
      BY <1>2, <2>4, <3>2 DEF Adopts
  <2>5. CASE m.type \in {"checkpoint", "draft"} /\ ~b.awaiting
    <3>1. taken = [b EXCEPT !.cursor = k]
      BY <2>5 DEF handleServerMessage
    <3> HIDE DEF taken, k
    <3>2. taken.conn = b.conn /\ taken.cursor = k
      BY <1>0, <3>1 DEF Browsers
    <3> QED
      BY <1>2, <2>5, <3>2 DEF Adopts
  <2>6. CASE m.type \in {"patch", "event", "checkpoint", "draft"} /\ b.awaiting
    <3>1. taken = b
      BY <2>6 DEF handleServerMessage
    <3> QED
      BY <3>1 DEF Adopts
  <2> QED
    BY <1>0, <2>1, <2>2, <2>3, <2>4, <2>5, <2>6
<1> QED
  BY <1>1, <1>3 DEF Adopts

LEMMA ReplyKeepsCursor ==
  ASSUME commits \in Seq(Kinds), NEW b, Sound(b), NEW r \in Replies(version)
  PROVE  settled(accepted(b, r)).cursor = b.cursor
<1> DEFINE taken == accepted(b, r)
<1>0. r.room \in 0 .. version /\ b \in Browsers(version) /\ version \in Nat
  BY Versions DEF Replies, Sound
<1>1. Sound(taken) /\ taken.cursor = b.cursor
  <2>1. CASE r.delta
    <3>1. taken = acceptPresence(b, r.room)
      BY <2>1 DEF accepted
    <3>2. Sound(taken)
      BY <1>0, <3>1, Presence DEF Follows
    <3> HIDE DEF taken
    <3> QED
      BY <1>0, <3>1, <3>2 DEF acceptPresence, Browsers
  <2>2. CASE ~r.delta
    <3> DEFINE view == reconcileRoomSnapshot(b.view, Room(r.room))
    <3>1. taken = [b EXCEPT !.view = view]
      BY <2>2 DEF accepted
    <3>2. Real(view)
      BY <1>0, SnapshotIsReal DEF Sound
    <3> HIDE DEF taken, view
    <3> QED
      BY <1>0, <3>1, <3>2, Viewing DEF Browsers
  <2> QED
    BY <2>1, <2>2
<1> HIDE DEF taken
<1>2. settled(taken).cursor = taken.cursor
  BY <1>1, SettledKeeps
<1> QED
  BY <1>1, <1>2 DEF taken

LEMMA BrowserTold ==
  ASSUME HubInv, Paths, CursorsKnown, NEW c \in Clients, Browser(c)
  PROVE  CursorsKnown'
<1>0. /\ peers' = peers /\ reader' = reader /\ reader \in Int
      /\ DOMAIN wire = Clients /\ DOMAIN client = Clients /\ DOMAIN peers \subseteq Clients
  BY WatchFacts DEF Browser, Refresh, AcceptReply, Receive, hubVars, HubInv, WireOK, ClientOK
<1>1. ASSUME NEW d \in DOMAIN peers, wire'[d] = wire[d], client'[d].conn = client[d].conn,
             client'[d].cursor = client[d].cursor
      PROVE  CursorKnown(d)'
  BY <1>0, <1>1, KnownLeftAlone DEF CursorsKnown
<1>2. ASSUME NEW d \in DOMAIN peers, d # c PROVE CursorKnown(d)'
  <2>1. client'[d] = client[d] /\ wire'[d] = wire[d]
    BY <1>0, <1>2 DEF Browser, Refresh, AcceptReply, Receive
  <2> QED
    BY <1>1, <2>1
<1>3. ASSUME c \in DOMAIN peers, Receive(c) PROVE CursorKnown(c)'
  <2> DEFINE m == Head(wire[c])
             b == settled(handleServerMessage(client[c], m))
             w == IF b.conn = "offline" THEN <<>> ELSE Tail(wire[c])
  <2>1. wire[c] # <<>> /\ client'[c] = b /\ wire'[c] = w
    BY <1>0, <1>3 DEF Receive
  <2>2. /\ wire[c] \in Seq(Messages(version)) /\ commits \in Seq(Kinds) /\ Sound(client[c])
        /\ CursorKnown(c)
    BY <1>3, KnownFacts DEF CursorsKnown
  <2>3. m \in Messages(version) /\ m = wire[c][1] /\ 1 \in DOMAIN wire[c]
    BY <2>1, <2>2
  <2>4. Adopts(b, client[c], m)
    <3> HIDE DEF m
    <3> QED
      BY <2>2, <2>3, MessageAdopted
  <2> HIDE DEF b
  <2>5. \A i \in DOMAIN w : i + 1 \in DOMAIN wire[c] /\ w[i] = wire[c][i + 1]
    BY <2>1, <2>2
  <2> HIDE DEF w, m
  <2>6. Tells(wire'[c], peers'[c], reader')
    BY <1>0, <2>1, <2>2, <2>5 DEF CursorKnown, Tells
  <2>7. client'[c].conn = "live" => Known(client'[c].cursor, reader', peers'[c])
    BY <1>0, <2>1, <2>2, <2>3, <2>4 DEF CursorKnown, Tells, Adopts
  <2> QED
    BY <2>6, <2>7 DEF CursorKnown, Tells, Known
<1>4. ASSUME c \in DOMAIN peers, NEW r, AcceptReply(c, r) PROVE CursorKnown(c)'
  <2>1. /\ client'[c] = settled(accepted(client[c], r)) /\ wire' = wire /\ r \in Replies(version)
    BY <1>0, <1>4 DEF AcceptReply, HubInv, RestOK
  <2>2. commits \in Seq(Kinds) /\ Sound(client[c])
    BY <1>4, KnownFacts
  <2>3. client'[c].conn = client[c].conn /\ client'[c].cursor = client[c].cursor
    BY <2>1, <2>2, ReplyKeeps, ReplyKeepsCursor
  <2> QED
    BY <1>1, <1>4, <2>1, <2>3
<1>5. ASSUME c \in DOMAIN peers, NEW of, Refresh(c, of) PROVE CursorKnown(c)'
  BY <1>1, <1>5 DEF Refresh
<1> QED
  BY <1>0, <1>2, <1>3, <1>4, <1>5 DEF Browser, CursorsKnown

LEMMA StepTold ==
  ASSUME HubInv, Paths, SignalsInOrder, CursorsKnown, Next
  PROVE  CursorsKnown'
<1>1. ASSUME UNCHANGED <<peers, reader, wire, client>> PROVE CursorsKnown'
  BY <1>1 DEF CursorsKnown, CursorKnown, Tells, Known
<1>2. ASSUME NEW kinds \in Writes, NEW here \in Here, NEW by \in {{}} \cup {{c} : c \in Clients},
             Commit(kinds, here, by)
      PROVE  CursorsKnown'
  BY <1>1, <1>2 DEF Commit, hubVars
<1>3. ASSUME NEW c \in Clients, Attach(c) \/ RequestSync(c) \/ Browser(c) PROVE CursorsKnown'
  <2>1. CASE RequestSync(c)
    BY <1>1, <2>1 DEF RequestSync, hubVars
  <2> QED
    BY <1>3, <2>1, ConnectingTold, BrowserTold
<1>4. ASSUME Hub PROVE CursorsKnown'
  <2>1. CASE ReadStream \/ \E e \in local : PublishLocal(e)
    BY <2>1, BroadcastStepTells
  <2>2. CASE ReadReconciledRoom
    BY <1>1, <2>2 DEF ReadReconciledRoom
  <2>3. ASSUME NEW c \in Clients, RequestSynchronization(c) \/ ReadStreamTail(c) \/ ReadRoom(c)
        PROVE  CursorsKnown'
    BY <2>3, ConnectingTold
  <2>4. ASSUME NEW whole \in BOOLEAN, ReconcileRoom(whole) PROVE CursorsKnown'
    BY <2>4, ReconcileTold
  <2>5. ASSUME NEW c \in Clients, Synchronize(c) \/ FlushPending(c) PROVE CursorsKnown'
    BY <2>5, SynchronizeTold, FlushTold
  <2> QED
    BY <1>4, <2>1, <2>2, <2>3, <2>4, <2>5 DEF Hub
<1>5. CASE Trouble
  BY <1>5, TroubleTold
<1>6. CASE ReadDraft
  BY <1>6, DraftTold
<1> QED
  BY <1>2, <1>3, <1>4, <1>5, <1>6 DEF Next

LEMMA CursorsInvariant == Spec => []CursorsKnown
<1>1. Init => CursorsKnown
  BY DEF Init, CursorsKnown
<1>2. DeliveryInv /\ CursorsKnown /\ [Next]_vars => CursorsKnown'
  <2> SUFFICES ASSUME DeliveryInv, CursorsKnown, [Next]_vars PROVE CursorsKnown'
    OBVIOUS
  <2>1. CASE Next
    BY <2>1, StepTold DEF DeliveryInv
  <2>2. CASE UNCHANGED vars
    BY <2>2 DEF vars, CursorsKnown, CursorKnown, Tells, Known
  <2> QED
    BY <2>1, <2>2
<1> QED
  BY <1>1, <1>2, DeliveryInvariant, PTL DEF Spec

\* A cursor that nothing is owed for is covered by the base of a peer that is
\* up to date with it, and so by the view.
LEMMA NothingAcknowledgedIsLost == SignalInv /\ CursorsKnown => AcknowledgedIsOwed
<1> SUFFICES ASSUME SignalInv, CursorsKnown, NEW c \in Clients, client[c].conn = "live", ~owed(c)
             PROVE  ~(client[c].cursor > client[c].view.state)
  BY DEF AcknowledgedIsOwed
<1> DEFINE b == client[c]
           p == peers[c]
<1>0. HubInv /\ PathOK(c) /\ Answered(c) /\ AllWatched
  BY DEF SignalInv, DeliveryInv, Paths, AllAnswered
<1>1. /\ wire[c] = <<>> /\ ~asked[c] /\ (c \in DOMAIN peers => p.sync = "no")
      /\ \A e \in DOMAIN signals : ~(e >= b.cursor)
  BY DEF owed
<1>2. \A type : ~OnItsWay(wire[c], type)
  BY <1>1 DEF OnItsWay
<1>3. c \in DOMAIN peers
  BY <1>0, <1>2 DEF Answered
<1>4. /\ p.sync = "no" /\ ~p.again /\ (p.state >= reader \/ \E e \in DOMAIN signals : e >= reader)
  BY <1>0, <1>1, <1>3 DEF AllWatched, Watched, InSight
<1>5. ~b.awaiting
  BY <1>0, <1>1, <1>2, <1>4 DEF Answered, Requested
<1>6. Reaches(<<>>, b, 1, p.state)
  <2>1. Reaches(wire[c], b, Len(wire[c]) + 1, p.state)
    BY <1>0, <1>3 DEF PathOK, Attended
  <2>2. Len(wire[c]) + 1 = 1
    BY <1>1
  <2> HIDE DEF b, p
  <2> QED
    BY <1>1, <2>1, <2>2
<1>7. b.view.state >= p.state
  <2>1. Silent(<<>>, 0, 1)
    BY DEF Silent
  <2> QED
    BY <1>5, <1>6, <2>1 DEF Reaches, Holds
<1>8. /\ reader \in Int /\ p.state \in Int /\ b.cursor \in Int /\ b.view.state \in Int
      /\ \A e \in DOMAIN signals : e \in Int
  BY <1>0, <1>3, KnownFacts, WatchFacts, PathFacts
<1>9. p.state >= 0 /\ Known(b.cursor, reader, p)
  BY <1>0, <1>3, <1>4 DEF PathOK, PeerOK, CursorsKnown, CursorKnown
<1> HIDE DEF b, p
<1>10. ~(b.cursor > b.view.state)
  BY <1>1, <1>4, <1>7, <1>8, <1>9 DEF Known
<1> QED
  BY <1>10 DEF b

\* While no queue of a synchronizing peer fills, nothing that a browser has
\* acknowledged is lost, however the events of drafts overtake the rooms that
\* wait to be reconciled: what it does not show is still on its way to it, or
\* the hub keeps a signal that will bring it.
THEOREM AcknowledgedIsNotLost == Spec /\ []QueuesHaveRoom => []AcknowledgedIsOwed
<1>1. SignalInv /\ CursorsKnown => AcknowledgedIsOwed
  BY NothingAcknowledgedIsLost
<1> QED
  BY <1>1, SignalsInvariant, CursorsInvariant, PTL

==============================================================================
