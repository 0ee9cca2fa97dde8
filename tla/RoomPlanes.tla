----------------------------- MODULE RoomPlanes -----------------------------
(***************************************************************************)
(* The three planes one Jazzboard room is stored in, and the pure         *)
(* functions over them: projection (room-planes.ts), liveness derived from *)
(* wall-clock time, revision normalisation and the presence transition    *)
(* (room-store.ts, redis-presence-script.ts).                              *)
(*                                                                         *)
(* Data that no property tells apart is abstracted: the canvas is the      *)
(* number of times each call's edit or proposal is in it, a lease is its   *)
(* holder and expiry, and a participant's human and agent timestamps are   *)
(* the later of the two, which is all that liveness looks at.              *)
(***************************************************************************)
EXTENDS Integers

CONSTANTS
  Members,    \* participants of the room, all with a member mirror
  Objects,    \* leasable canvas objects
  Calls,      \* mutations that may be asked of the room
  Nobody,     \* no presenter, no lease holder
  AwayMs      \* PRESENCE_AWAY_MS

ASSUME PlanesAssumption ==
  /\ Nobody \notin Members
  /\ AwayMs \in Nat \ {0}

NoLease == [holder |-> Nobody, expiresAt |-> 0]

Max2(a, b) == IF a >= b THEN a ELSE b

-----------------------------------------------------------------------------
\* reviewing is agentEditPolicy = "review".
Contents == [reviewing : BOOLEAN, edits : [Calls -> Nat], proposals : [Calls -> Nat]]

Document == [roomRevision : Nat, content : Contents]

Awareness == [lastSeenAt : [Members -> Nat],
              connected  : [Members -> BOOLEAN],
              presenter  : Members \cup {Nobody},
              followers  : SUBSET Members]

Leases == [Objects -> [holder : Members \cup {Nobody}, expiresAt : Nat]]

\* roomRevision in the coordination plane is the fence that lets presence
\* commits skip the document plane.
Coordination == [stateRevision : Nat, roomRevision : Nat, leases : Leases]

Planes == [document : Document, awareness : Awareness, coordination : Coordination]

\* The composed room an updater sees.
RoomState == [stateRevision : Nat, roomRevision : Nat, content : Contents,
              awareness : Awareness, leases : Leases]

composeRoomState(p) ==
  [stateRevision |-> Max2(p.coordination.stateRevision, p.document.roomRevision),
   roomRevision  |-> p.document.roomRevision,
   content       |-> p.document.content,
   awareness     |-> p.awareness,
   leases        |-> p.coordination.leases]

splitRoomState(room) ==
  [document     |-> [roomRevision |-> room.roomRevision, content |-> room.content],
   awareness    |-> room.awareness,
   coordination |-> [stateRevision |-> room.stateRevision,
                     roomRevision  |-> room.roomRevision,
                     leases        |-> room.leases]]

-----------------------------------------------------------------------------
(* Liveness derived from the clock.                                        *)

connectedAt(aw, now) == [m \in Members |-> now - aw.lastSeenAt[m] < AwayMs]

\* Presence, then Spotlight: it ends with its presenter's connection and
\* keeps only the followers that are connected.
liveAwareness(aw, now) ==
  LET connected == connectedAt(aw, now)
      presenting == aw.presenter # Nobody /\ connected[aw.presenter]
  IN [lastSeenAt |-> aw.lastSeenAt,
      connected  |-> connected,
      presenter  |-> IF presenting THEN aw.presenter ELSE Nobody,
      followers  |-> IF presenting THEN {m \in aw.followers : connected[m]} ELSE {}]

liveLeases(leases, now) ==
  [o \in Objects |-> IF leases[o].expiresAt > now THEN leases[o] ELSE NoLease]

isLive(p, now) ==
  /\ liveAwareness(p.awareness, now) = p.awareness
  /\ liveLeases(p.coordination.leases, now) = p.coordination.leases

\* Faulty variant: what has expired is dropped under the old revision.
reconcileSilently(p, now) ==
  [p EXCEPT !.awareness = liveAwareness(@, now),
            !.coordination.leases = liveLeases(@, now)]

\* One aggregate revision, however much expires at the same moment; the
\* planes themselves when nothing does.
reconcileDerivedState(p, now) ==
  IF isLive(p, now) THEN p
  ELSE LET revision == Max2(p.document.roomRevision, p.coordination.roomRevision)
       IN [document     |-> p.document,
           awareness    |-> liveAwareness(p.awareness, now),
           coordination |-> [stateRevision |-> Max2(p.coordination.stateRevision, revision) + 1,
                             roomRevision  |-> revision,
                             leases        |-> liveLeases(p.coordination.leases, now)]]

-----------------------------------------------------------------------------
(* Revisions of a mutation.                                                *)

\* Faulty variant: the updater's revisions are taken as they are.
trustedRevisions(before, candidate) == splitRoomState(candidate)

\* candidate is the room an updater returned, before the persisted planes.
\* A revision moves exactly when the content it counts has moved.
normalizeMutationRevisions(before, candidate) ==
  LET old == composeRoomState(before)
      documentChanged == candidate.content # old.content
      changed == \/ documentChanged
                 \/ candidate.awareness # old.awareness
                 \/ candidate.leases # old.leases
  IN splitRoomState(
       [candidate EXCEPT
          !.roomRevision  = IF documentChanged THEN Max2(old.roomRevision + 1, @)
                            ELSE old.roomRevision,
          !.stateRevision = IF changed THEN Max2(old.stateRevision + 1, @)
                            ELSE old.stateRevision])

\* Whether the mutation writes anything: the revisions are not part of it.
sameContent(p, q) ==
  /\ p.document.content = q.document.content
  /\ p.awareness = q.awareness
  /\ p.coordination.leases = q.coordination.leases

\* Faulty variant: the coordination plane is written for its leases only.
writeOwnContent(current, expected, next) ==
  [document     |-> next.document,
   awareness    |-> next.awareness,
   coordination |-> IF next.coordination.leases = expected.coordination.leases
                    THEN current.coordination ELSE next.coordination]

\* The planes a commit leaves when it was prepared on `expected` and writes
\* the planes in which `next` differs over the `current` ones.
writePlanes(current, expected, next) ==
  [document     |-> IF next.document = expected.document
                    THEN current.document ELSE next.document,
   awareness    |-> IF next.awareness = expected.awareness
                    THEN current.awareness ELSE next.awareness,
   coordination |-> IF next.coordination = expected.coordination
                    THEN current.coordination ELSE next.coordination]

-----------------------------------------------------------------------------
(* The presence transition. It never reads the document plane. The         *)
(* heartbeat is applied before liveness is derived, so that a returning    *)
(* presenter keeps the Spotlight.                                          *)

heartbeat(aw, m, seen) ==
  [aw EXCEPT !.lastSeenAt[m] = seen, !.connected[m] = TRUE]

\* The later of a member's two timestamps once one of them is now: no maximum
\* is taken, and the other one may be anything up to the later one before.
seenAfter(p, m, now) == now .. Max2(now, p.awareness.lastSeenAt[m])

presenceCommit(p, m, seen, now) ==
  LET beat    == heartbeat(p.awareness, m, seen)
      live    == liveAwareness(beat, now)
      leases  == liveLeases(p.coordination.leases, now)
      derived == live # beat \/ leases # p.coordination.leases
      base    == Max2(p.coordination.stateRevision, p.coordination.roomRevision)
  IN [document     |-> p.document,
      awareness    |-> live,
      coordination |-> [stateRevision |-> base + (IF derived THEN 2 ELSE 1),
                        roomRevision  |-> p.coordination.roomRevision,
                        leases        |-> leases]]
=============================================================================
