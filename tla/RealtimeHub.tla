------------------------------ MODULE RealtimeHub ------------------------------
(***************************************************************************)
(* How a committed room reaches the browsers: the event stream, one        *)
(* server's hub (attach, synchronize, broadcast, reconcile), the socket,   *)
(* and the browser that combines socket messages with HTTP replies.        *)
(*                                                                         *)
(* The n-th commit of the room makes version n.  Its stateRevision is n;   *)
(* its roomRevision counts the commits up to n that wrote the document.    *)
(* What a browser holds is the set of commits its records reflect, so a    *)
(* patch or a delta applied to the wrong version shows.                    *)
(*                                                                         *)
(* Left out: the ids of delivered events, which only repeat what the       *)
(* peer's base already covers; transient presence and rooms of older       *)
(* deployments; a server without Redis; what a draft event tells.          *)
(***************************************************************************)
EXTENDS Integers, FiniteSets, Sequences

CONSTANTS
  Clients,
  Here,         \* whether a commit is made by this hub's server: part of BOOLEAN
  MaxCommits,   \* bound: versions of the room
  MaxReplies,   \* bound: HTTP replies under way to one browser
  MaxTrouble,   \* bound: connections lost, reads failed and tabs woken, in all
  MaxPending    \* MAX_PENDING_EVENTS

ASSUME HubAssumption ==
  /\ Here \subseteq BOOLEAN
  /\ MaxPending \in Nat \ {0}
  /\ MaxTrouble \in Nat

VARIABLES
  commits,      \* what each commit wrote: "document", "live" or "presence"
  local,        \* events of this server's commits, not yet published locally
  reader,       \* position of the stream reader; Off when no peer is attached
  peers,        \* the hub's record of each attached browser
  signals,      \* event -> cursor: what reconcileRoom has yet to satisfy
  recon,        \* the running reconcileRoom, or Idle
  wire,         \* messages on their way to each browser
  asked,        \* a sync.request is on its way from the browser
  client,       \* the browser
  replies,      \* HTTP replies on their way to each browser
  trouble       \* how much of MaxTrouble has happened

vars == <<commits, local, reader, peers, signals, recon, wire, asked, client, replies, trouble>>

hubVars == <<reader, peers, signals, recon>>

Off == -1
Idle == [phase |-> "idle", target |-> 0, room |-> 0]
NoEvents == [e \in {} |-> 0]
Kinds == {"document", "live", "presence"}

Larger(a, b) == IF a >= b THEN a ELSE b

-----------------------------------------------------------------------------
(* Rooms: the versions of the ledger, and what a browser holds of them.    *)

version == Len(commits)
documents(n) == {i \in 1..n : commits[i] = "document"}
roomRevision(n) == Cardinality(documents(n))

Room(n) ==
  [state |-> n, doc |-> roomRevision(n), objects |-> documents(n), live |-> 1..n]

NoRoom == [state |-> -1, doc |-> -1, objects |-> {}, live |-> {}]

\* The browser's four ways to take a room: whole, by plane, by patch, by delta.
reconcileRoomSnapshot(current, next) ==
  IF current = NoRoom THEN next
  ELSE [state   |-> Larger(current.state, next.state),
        live    |-> IF next.state >= current.state THEN next.live ELSE current.live,
        doc     |-> Larger(current.doc, next.doc),
        objects |-> IF next.doc >= current.doc THEN next.objects ELSE current.objects]

isNewer(room, current) == room.state > current.state \/ room.doc > current.doc

patchApplies(current, patch) ==
  /\ current # NoRoom
  /\ isNewer(Room(patch.room), current) =>
       patch.base = [state |-> current.state, doc |-> current.doc]

applyRoomPatch(current, patch) ==
  IF ~isNewer(Room(patch.room), current) THEN current
  ELSE [Room(patch.room) EXCEPT !.objects =
          current.objects \cup {i \in documents(patch.room) : i > patch.base.state}]

\* Faulty variant: a delta applies to any earlier version.
laterDeltaApplies(current, n) == current # NoRoom

deltaApplies(current, n) ==
  /\ current # NoRoom
  /\ current.state < n => n = current.state + 1 /\ roomRevision(n) = current.doc

applyPresenceDelta(current, n) ==
  IF current.state >= n THEN current
  ELSE [current EXCEPT !.state = n, !.live = @ \cup {n}]

-----------------------------------------------------------------------------
(* A peer: the hub's side of one socket.                                   *)

NewPeer ==
  [sync |-> "tail", again |-> FALSE, tail |-> 0, room |-> 0, ready |-> FALSE,
   state |-> -1, doc |-> -1, cursor |-> 0, pending |-> <<>>]

Entry(e, cursor) == [event |-> e, cursor |-> cursor]

\* Faulty variant: a peer that is synchronizing needs no events.
queueNothing(pending, e, cursor) == pending

queuePending(pending, e, cursor) ==
  IF \E i \in DOMAIN pending : pending[i].event = e
  THEN [i \in DOMAIN pending |->
          IF pending[i].event = e THEN Entry(e, Larger(pending[i].cursor, cursor)) ELSE pending[i]]
  ELSE LET queue == Append(pending, Entry(e, cursor))
       IN  IF Len(queue) > MaxPending THEN Tail(queue) ELSE queue

peerCoversEvent(peer, e) == peer.state >= e /\ peer.doc >= roomRevision(e)

deltaFollows(peer, e) ==
  /\ commits[e] = "presence"
  /\ peer.doc = roomRevision(e)
  /\ peer.state + 1 = e

\* What one event does to a ready peer: the peer, the messages, and whether
\* the room has to be read again.
deliverEvent(peer, e, cursor) ==
  CASE peerCoversEvent(peer, e) ->
         [peer  |-> [peer EXCEPT !.cursor = Larger(@, cursor)],
          out   |-> IF cursor > peer.cursor THEN <<[type |-> "checkpoint", cursor |-> cursor]>>
                    ELSE <<>>,
          stale |-> FALSE]
    [] ~peerCoversEvent(peer, e) /\ deltaFollows(peer, e) ->
         [peer  |-> [peer EXCEPT !.state = e, !.cursor = Larger(@, cursor)],
          out   |-> <<[type |-> "event", cursor |-> cursor, event |-> e]>>,
          stale |-> FALSE]
    [] OTHER -> [peer |-> peer, out |-> <<>>, stale |-> TRUE]

\* Faulty variant: the stream's tail is read after the room.
basedAtTail(peer) ==
  [peer EXCEPT !.state = peer.room, !.doc = roomRevision(peer.room), !.cursor = version,
               !.tail = 0, !.room = 0]

\* The peer's base when its snapshot is sent.
based(peer) ==
  [peer EXCEPT !.state = peer.room, !.doc = roomRevision(peer.room), !.cursor = peer.tail,
               !.tail = 0, !.room = 0]

\* Faulty variant: a second request leaves the peer ready.
synchronizedAgain(peer) ==
  IF peer.again THEN [peer EXCEPT !.sync = "tail", !.again = FALSE, !.ready = TRUE]
  ELSE [peer EXCEPT !.sync = "no", !.ready = TRUE]

\* synchronize is over; a request that arrived meanwhile runs it once more.
synchronized(peer) ==
  IF peer.again THEN [peer EXCEPT !.sync = "tail", !.again = FALSE, !.ready = FALSE]
  ELSE [peer EXCEPT !.sync = "no", !.ready = TRUE]

\* reconcileRoom starts with the first signal; later ones join while it runs.
requestRoomReconciliation(e, cursor) ==
  /\ signals' = [f \in DOMAIN signals \cup {e} |->
       IF f # e THEN signals[f]
       ELSE IF e \in DOMAIN signals THEN Larger(signals[e], cursor) ELSE cursor]
  /\ recon' = IF recon.phase # "idle" THEN recon
              ELSE [phase |-> "reading", target |-> e, room |-> 0]

send(c, messages) == wire' = [wire EXCEPT ![c] = @ \o messages]

-----------------------------------------------------------------------------
(* The room and the servers that write it.                                 *)

\* What one mutation appends: the presence script may first expire leases.
Writes == {<<"document">>, <<"live">>, <<"presence">>, <<"live", "presence">>}

\* A commit made by this server (here) or by another one, for browser `by`
\* or for somebody else; the reply to `by` travels back over HTTP.
Commit(kinds, here, by) ==
  LET last == version + Len(kinds)
      delta == kinds[Len(kinds)] = "presence"
  IN  /\ last <= MaxCommits
      /\ \A c \in by : Cardinality(replies[c]) < MaxReplies
      /\ commits' = commits \o kinds
      /\ local' = IF here THEN local \cup (version + 1 .. last) ELSE local
      /\ replies' = [c \in Clients |->
           IF c \in by THEN replies[c] \cup {[of |-> "own", delta |-> delta, room |-> last]}
           ELSE replies[c]]
      /\ UNCHANGED <<hubVars, wire, asked, client, trouble>>

-----------------------------------------------------------------------------
(* The hub.  Its handlers run to completion: none starts while one of them *)
(* is still flushing the queue of a peer.                                  *)

hubIsFree == \A c \in DOMAIN peers : peers[c].sync # "flush"

\* A peer detaches; the last one stops the stream reader.
detached(gone) ==
  /\ peers' = [c \in DOMAIN peers \ gone |-> peers[c]]
  /\ reader' = IF DOMAIN peers \subseteq gone THEN Off ELSE reader

Attach(c) ==
  /\ client[c].conn = "offline"
  /\ c \notin DOMAIN peers
  /\ client' = [client EXCEPT ![c] = [@ EXCEPT !.conn = "open", !.awaiting = FALSE]]
  /\ peers' = [d \in DOMAIN peers \cup {c} |-> IF d = c THEN NewPeer ELSE peers[d]]
  /\ UNCHANGED <<commits, local, reader, signals, recon, wire, asked, replies, trouble>>

\* handleMessage: sync.request; a running synchronization is run once more.
RequestSynchronization(c) ==
  /\ asked[c] /\ hubIsFree
  /\ asked' = [asked EXCEPT ![c] = FALSE]
  /\ peers' = IF c \notin DOMAIN peers THEN peers
              ELSE IF peers[c].sync = "no"
                   THEN [peers EXCEPT ![c] = [@ EXCEPT !.sync = "tail", !.ready = FALSE]]
                   ELSE [peers EXCEPT ![c] = [@ EXCEPT !.again = TRUE]]
  /\ UNCHANGED <<commits, local, reader, signals, recon, wire, client, replies, trouble>>

\* The stream reader is there before the tail is read, the tail before the room.
ReadStreamTail(c) ==
  /\ c \in DOMAIN peers /\ peers[c].sync = "tail"
  /\ reader' = IF reader = Off THEN version ELSE reader
  /\ peers' = [peers EXCEPT ![c] = [@ EXCEPT !.sync = "room", !.tail = version]]
  /\ UNCHANGED <<commits, local, signals, recon, wire, asked, client, replies, trouble>>

ReadRoom(c) ==
  /\ c \in DOMAIN peers /\ peers[c].sync = "room"
  /\ peers' = [peers EXCEPT ![c] = [@ EXCEPT !.sync = "send", !.room = version]]
  /\ UNCHANGED <<commits, local, reader, signals, recon, wire, asked, client, replies, trouble>>

Synchronize(c) ==
  /\ c \in DOMAIN peers /\ peers[c].sync = "send" /\ hubIsFree
  /\ LET peer == based(peers[c])
     IN  peers' = [peers EXCEPT ![c] =
           IF peer.pending = <<>> THEN synchronized(peer) ELSE [peer EXCEPT !.sync = "flush"]]
  /\ send(c, <<[type |-> "snapshot", cursor |-> peers[c].tail, room |-> peers[c].room]>>)
  /\ UNCHANGED <<commits, local, reader, signals, recon, asked, client, replies, trouble>>

\* The next of the events queued during the synchronization, the oldest first.
FlushPending(c) ==
  /\ c \in DOMAIN peers /\ peers[c].sync = "flush"
  /\ \E i \in DOMAIN peers[c].pending :
       LET entry == peers[c].pending[i]
           d == deliverEvent(peers[c], entry.event, entry.cursor)
           left == SubSeq(peers[c].pending, 1, i - 1)
                     \o SubSeq(peers[c].pending, i + 1, Len(peers[c].pending))
           peer == [d.peer EXCEPT !.pending = left]
       IN  /\ \A j \in DOMAIN peers[c].pending : entry.event <= peers[c].pending[j].event
           /\ peers' = [peers EXCEPT ![c] = IF left = <<>> THEN synchronized(peer) ELSE peer]
           /\ send(c, d.out)
           /\ IF d.stale THEN requestRoomReconciliation(entry.event, entry.cursor)
              ELSE UNCHANGED <<signals, recon>>
  /\ UNCHANGED <<commits, local, reader, asked, client, replies, trouble>>

broadcastEvent(e, cursor) ==
  LET ready == {c \in DOMAIN peers : peers[c].ready}
  IN  /\ hubIsFree
      /\ peers' = [c \in DOMAIN peers |->
           IF c \in ready THEN deliverEvent(peers[c], e, cursor).peer
           ELSE [peers[c] EXCEPT !.pending = queuePending(@, e, cursor)]]
      /\ wire' = [c \in Clients |->
           IF c \in ready THEN wire[c] \o deliverEvent(peers[c], e, cursor).out ELSE wire[c]]
      /\ IF \E c \in ready : deliverEvent(peers[c], e, cursor).stale
         THEN requestRoomReconciliation(e, cursor)
         ELSE UNCHANGED <<signals, recon>>

\* publishLocal after the commit's reply: in no particular order.
PublishLocal(e) ==
  /\ e \in local
  /\ local' = local \ {e}
  /\ broadcastEvent(e, 0)
  /\ UNCHANGED <<commits, reader, asked, client, replies, trouble>>

ReadStream ==
  /\ reader # Off /\ reader < version
  /\ reader' = reader + 1
  /\ broadcastEvent(reader', reader')
  /\ UNCHANGED <<commits, local, asked, client, replies, trouble>>

\* A draft's event follows commit `reader` on the stream.  It is sent on at
\* once, even while that commit still waits to be reconciled; a peer that
\* has no base yet is told nothing.  Where it advances no cursor it changes
\* nothing here: that case is left out.
ReadDraft ==
  LET behind == {c \in DOMAIN peers : peers[c].ready /\ peers[c].cursor < reader}
  IN  /\ hubIsFree /\ behind # {}
      /\ peers' = [c \in DOMAIN peers |->
           IF c \in behind THEN [peers[c] EXCEPT !.cursor = reader] ELSE peers[c]]
      /\ wire' = [c \in Clients |->
           IF c \in behind THEN Append(wire[c], [type |-> "draft", cursor |-> reader]) ELSE wire[c]]
      /\ UNCHANGED <<commits, local, reader, signals, recon, asked, client, replies, trouble>>

ReadReconciledRoom ==
  /\ recon.phase = "reading"
  /\ version >= recon.target
  /\ recon' = [recon EXCEPT !.phase = "read", !.room = version]
  /\ UNCHANGED <<commits, local, reader, peers, signals, wire, asked, client, replies, trouble>>

\* What a ready peer is sent of the room the hub has read.
caughtUp(peer, n, cursor) ==
  IF n > peer.state \/ roomRevision(n) > peer.doc
  THEN [peer EXCEPT !.state = n, !.doc = roomRevision(n), !.cursor = cursor]
  ELSE [peer EXCEPT !.cursor = cursor]

\* A patch from the peer's base, or the whole room where it replaces too much.
catchUpMessages(peer, n, cursor, whole) ==
  IF n > peer.state \/ roomRevision(n) > peer.doc
  THEN IF whole THEN <<[type |-> "snapshot", cursor |-> cursor, room |-> n]>>
       ELSE <<[type |-> "patch", cursor |-> cursor, room |-> n,
               base |-> [state |-> peer.state, doc |-> peer.doc]]>>
  ELSE IF cursor > peer.cursor THEN <<[type |-> "checkpoint", cursor |-> cursor]>> ELSE <<>>

ReconcileRoom(whole) ==
  /\ recon.phase = "read" /\ hubIsFree
  /\ IF DOMAIN peers = {}
     THEN /\ signals' = NoEvents
          /\ recon' = Idle
          /\ UNCHANGED <<peers, wire>>
     ELSE LET n == recon.room
              satisfied == {e \in DOMAIN signals : e <= n}
              rest == DOMAIN signals \ satisfied
              cursorOf(peer) ==
                CHOOSE k \in {peer.cursor} \cup {signals[e] : e \in satisfied} :
                  \A l \in {peer.cursor} \cup {signals[e] : e \in satisfied} : l <= k
          IN  /\ peers' = [c \in DOMAIN peers |->
                   IF peers[c].ready THEN caughtUp(peers[c], n, cursorOf(peers[c])) ELSE peers[c]]
              /\ wire' = [c \in Clients |->
                   IF c \in DOMAIN peers /\ peers[c].ready
                   THEN wire[c] \o catchUpMessages(peers[c], n, cursorOf(peers[c]), whole)
                   ELSE wire[c]]
              /\ signals' = [e \in rest |-> signals[e]]
              /\ recon' = IF rest = {} THEN Idle
                          ELSE [phase |-> "reading", room |-> 0,
                                target |-> CHOOSE e \in rest : \A f \in rest : f <= e]
  /\ UNCHANGED <<commits, local, reader, asked, client, replies, trouble>>

countTrouble == trouble < MaxTrouble /\ trouble' = trouble + 1

\* A read fails for good: the sockets that waited for it are closed.
SynchronizationFails(c) ==
  /\ countTrouble
  /\ c \in DOMAIN peers /\ peers[c].sync \in {"tail", "room"}
  /\ detached({c})
  /\ send(c, <<[type |-> "close"]>>)
  /\ UNCHANGED <<commits, local, signals, recon, asked, client, replies>>

ReconciliationFails ==
  /\ countTrouble
  /\ recon.phase = "reading" /\ hubIsFree
  /\ detached(DOMAIN peers)
  /\ wire' = [c \in Clients |->
       IF c \in DOMAIN peers THEN Append(wire[c], [type |-> "close"]) ELSE wire[c]]
  /\ signals' = NoEvents
  /\ recon' = Idle
  /\ UNCHANGED <<commits, local, asked, client, replies>>

\* The connection breaks: what was under way on it is lost.
Disconnect(c) ==
  /\ countTrouble
  /\ client[c].conn # "offline"
  /\ detached({c})
  /\ wire' = [wire EXCEPT ![c] = <<>>]
  /\ asked' = [asked EXCEPT ![c] = FALSE]
  /\ client' = [client EXCEPT ![c] = [@ EXCEPT !.conn = "offline"]]
  /\ UNCHANGED <<commits, local, signals, recon, replies>>

-----------------------------------------------------------------------------
(* The browser.                                                            *)

\* A target that the view has reached is no longer wanted.
settled(b) == IF b.view.state >= b.wanted THEN [b EXCEPT !.wanted = 0] ELSE b

onSnapshot(b, m) ==
  [b EXCEPT !.conn = "live", !.awaiting = FALSE, !.cursor = m.cursor,
            !.view = reconcileRoomSnapshot(@, Room(m.room))]

\* Faulty variant: a patch that does not apply is dropped.
dropPatch(b, m) ==
  IF patchApplies(b.view, m)
  THEN [b EXCEPT !.cursor = Larger(@, m.cursor), !.view = applyRoomPatch(@, m)] ELSE b

onPatch(b, m) ==
  IF patchApplies(b.view, m)
  THEN [b EXCEPT !.cursor = Larger(@, m.cursor), !.view = applyRoomPatch(@, m)]
  ELSE [b EXCEPT !.awaiting = TRUE]

acceptPresence(b, n) ==
  IF deltaApplies(b.view, n) THEN [b EXCEPT !.view = applyPresenceDelta(@, n)]
  ELSE [b EXCEPT !.wanted = Larger(@, n)]

onEvent(b, m) == acceptPresence([b EXCEPT !.cursor = Larger(@, m.cursor)], m.event)

\* While a snapshot is awaited nothing else moves the view or the cursor.
handleServerMessage(b, m) ==
  CASE m.type = "snapshot" -> onSnapshot(b, m)
    [] m.type = "close" -> [b EXCEPT !.conn = "offline"]
    [] m.type = "patch" /\ ~b.awaiting -> onPatch(b, m)
    [] m.type = "event" /\ ~b.awaiting -> onEvent(b, m)
    [] m.type \in {"checkpoint", "draft"} /\ ~b.awaiting -> [b EXCEPT !.cursor = Larger(@, m.cursor)]
    [] OTHER -> b

Receive(c) ==
  /\ wire[c] # <<>>
  /\ LET b == settled(handleServerMessage(client[c], Head(wire[c])))
     IN  /\ client' = [client EXCEPT ![c] = b]
         /\ asked' = [asked EXCEPT ![c] = b.conn # "offline" /\ (@ \/ (b.awaiting /\ ~client[c].awaiting))]
         /\ wire' = [wire EXCEPT ![c] = IF b.conn = "offline" THEN <<>> ELSE Tail(@)]
  /\ UNCHANGED <<commits, local, hubVars, replies, trouble>>

\* The tab becomes visible again.
RequestSync(c) ==
  /\ client[c].conn = "live"
  /\ countTrouble
  /\ asked' = [asked EXCEPT ![c] = TRUE]
  /\ UNCHANGED <<commits, local, hubVars, wire, client, replies>>

\* refresh(): while no socket serves the room, or an event is still unread.  A
\* reply with nothing newer than the view would change nothing: it is left out.
Refresh(c, of) ==
  /\ client[c].view.state < version
  /\ \/ of = "poll" /\ client[c].conn # "live"
     \/ of = "event" /\ client[c].wanted > client[c].view.state
  /\ Cardinality(replies[c]) < MaxReplies
  /\ \A r \in replies[c] : r.of # of
  /\ replies' = [replies EXCEPT ![c] = @ \cup {[of |-> of, delta |-> FALSE, room |-> version]}]
  /\ UNCHANGED <<commits, local, hubVars, wire, asked, client, trouble>>

\* A reply holds the room, or the presence delta of the browser's own command.
accepted(b, r) ==
  IF r.delta THEN acceptPresence(b, r.room)
  ELSE [b EXCEPT !.view = reconcileRoomSnapshot(@, Room(r.room))]

AcceptReply(c, r) ==
  /\ r \in replies[c]
  /\ replies' = [replies EXCEPT ![c] = @ \ {r}]
  /\ client' = [client EXCEPT ![c] = settled(accepted(@, r))]
  /\ UNCHANGED <<commits, local, hubVars, wire, asked, trouble>>

-----------------------------------------------------------------------------
Init ==
  /\ commits = <<>>
  /\ local = {}
  /\ reader = Off
  /\ peers = [c \in {} |-> NewPeer]
  /\ signals = NoEvents
  /\ recon = Idle
  /\ wire = [c \in Clients |-> <<>>]
  /\ asked = [c \in Clients |-> FALSE]
  /\ client = [c \in Clients |->
       [conn |-> "offline", view |-> NoRoom, cursor |-> 0, awaiting |-> FALSE, wanted |-> 0]]
  /\ replies = [c \in Clients |-> {}]
  /\ trouble = 0

Hub ==
  \/ ReadStream \/ ReadReconciledRoom
  \/ \E c \in Clients : RequestSynchronization(c) \/ ReadStreamTail(c) \/ ReadRoom(c)
  \/ \E e \in local : PublishLocal(e)
  \/ \E whole \in BOOLEAN : ReconcileRoom(whole)
  \/ \E c \in Clients : Synchronize(c) \/ FlushPending(c)

Browser(c) ==
  \/ \E of \in {"poll", "event"} : Refresh(c, of)
  \/ \E r \in replies[c] : AcceptReply(c, r)
  \/ Receive(c)

Trouble ==
  \/ \E c \in Clients : SynchronizationFails(c) \/ Disconnect(c)
  \/ ReconciliationFails

Next ==
  \/ \E kinds \in Writes, here \in Here, by \in {{}} \cup {{c} : c \in Clients} :
       Commit(kinds, here, by)
  \/ \E c \in Clients : Attach(c) \/ RequestSync(c) \/ Browser(c)
  \/ Hub
  \/ ReadDraft
  \/ Trouble

\* The event loops run what is due: while something is, some of it happens.
\* Nothing makes a browser connect again; one that stays away lives on polling.
Fairness == WF_vars((\E c \in Clients : Browser(c)) \/ Hub)

Spec == Init /\ [][Next]_vars /\ Fairness

-----------------------------------------------------------------------------
(* Properties.                                                             *)

Entries(n) == [event : 1..n, cursor : 0..n]

Peers(n) ==
  [sync : {"no", "tail", "room", "send", "flush"}, again : BOOLEAN, tail : 0..n, room : 0..n,
   ready : BOOLEAN, state : -1..n, doc : -1..n, cursor : 0..n, pending : Seq(Entries(n))]

Messages(n) ==
  [type : {"snapshot"}, cursor : 0..n, room : 0..n]
  \cup [type : {"patch"}, cursor : 0..n, room : 0..n, base : [state : -1..n, doc : -1..n]]
  \cup [type : {"event"}, cursor : 0..n, event : 1..n]
  \cup [type : {"checkpoint", "draft"}, cursor : 0..n]
  \cup [type : {"close"}]

Views(n) == [state : -1..n, doc : -1..n, objects : SUBSET (1..n), live : SUBSET (1..n)]

Browsers(n) ==
  [conn : {"offline", "open", "live"}, view : Views(n), cursor : 0..n, awaiting : BOOLEAN,
   wanted : 0..n]

Replies(n) == [of : {"own", "poll", "event"}, delta : BOOLEAN, room : 0..n]

\* Every variable has its shape, nothing names a version the room has not had,
\* and a peer is ready exactly while no synchronization of it is under way.
HubTypeOK ==
  /\ commits \in Seq(Kinds)
  /\ local \subseteq 1..version
  /\ reader \in Off..version
  /\ DOMAIN peers \subseteq Clients
  /\ peers \in [DOMAIN peers -> Peers(version)]
  /\ \A c \in DOMAIN peers : peers[c].ready <=> peers[c].sync = "no"
  /\ DOMAIN signals \subseteq 1..version
  /\ signals \in [DOMAIN signals -> 0..version]
  /\ recon \in [phase : {"idle", "reading", "read"}, target : 0..version, room : 0..version]
  /\ wire \in [Clients -> Seq(Messages(version))]
  /\ asked \in [Clients -> BOOLEAN]
  /\ client \in [Clients -> Browsers(version)]
  /\ replies \in [Clients -> SUBSET Replies(version)]
  /\ trouble \in 0..MaxTrouble

\* What a browser shows is one version the room really had: no patch on a base
\* it was not made for, no delta out of turn, no mixture of two versions.
ShowsARealRoom ==
  \A c \in Clients : client[c].view # NoRoom => client[c].view = Room(client[c].view.state)

\* Something that will bring the browser forward is under way: a message, a
\* request, a synchronization, or a signal at or past its cursor.
owed(c) ==
  \/ wire[c] # <<>> \/ asked[c]
  \/ c \in DOMAIN peers /\ peers[c].sync # "no"
  \/ \E e \in DOMAIN signals : e >= client[c].cursor

\* A draft's event may move a browser's cursor past a commit that it does not
\* show.  Nothing is lost by that: whatever a live browser acknowledges and
\* does not show, the hub, the wire or the browser itself still owes it.
AcknowledgedIsOwed ==
  \A c \in Clients :
    client[c].conn = "live" /\ client[c].cursor > client[c].view.state => owed(c)

\* Nothing is under way between the room and the browsers.
Quiet ==
  /\ local = {} /\ recon.phase = "idle"
  /\ reader \in {Off, version}
  /\ \A c \in Clients : wire[c] = <<>> /\ ~asked[c]
  /\ \A c \in DOMAIN peers : peers[c].sync = "no"

\* No signal is lost on the way, however events, reads and connections cross:
\* when nothing is under way every live browser shows the room's last version.
QuietMeansCurrent ==
  Quiet => \A c \in Clients : client[c].conn = "live" => client[c].view = Room(version)

\* The realtime path implements the mirror: a browser's version only grows,
\* and when the room rests every browser comes to show the last version.
Mirror == INSTANCE RoomMirror WITH
  version <- version,
  shown <- [c \in Clients |-> Larger(client[c].view.state, 0)]

MirrorsTheRoom == Mirror!Spec
==============================================================================
