---------------------------- MODULE RoomUpdates -----------------------------
(***************************************************************************)
(* The updaters room-service.ts hands to transact, one per way a mutation  *)
(* can touch the planes: an edit with its activity, an agent's edit that   *)
(* review mode turns into a proposal without one, a policy change that may *)
(* change nothing, a lease, a Spotlight.  An updater is a function of the  *)
(* composed room and the clock.                                            *)
(*                                                                         *)
(* The guards of a command on the object itself (revision, existence, its  *)
(* lease) are not here: an edit is one they let through each time it is    *)
(* tried, so that only the store can keep it from being applied twice.     *)
(* Leases are taken by humans.                                             *)
(***************************************************************************)
EXTENDS RoomPlanes

CONSTANTS
  Op,         \* [Calls -> Ops]
  ActorOf,    \* [Calls -> Members]: who asks
  TargetOf,   \* [Calls -> Objects]: the object leased
  LeaseMs     \* LEASE_DURATION_MS

Ops == {"edit", "agent_edit", "policy", "lease", "spotlight"}

ASSUME UpdatesAssumption ==
  /\ Op \in [Calls -> Ops]
  /\ ActorOf \in [Calls -> Members]
  /\ TargetOf \in [Calls -> Objects]
  /\ LeaseMs \in Nat \ {0}

UpdateResult == [rejected : BOOLEAN, activity : BOOLEAN, room : RoomState]

Rejected(room) == [rejected |-> TRUE, activity |-> FALSE, room |-> room]
Updated(room, activity) == [rejected |-> FALSE, activity |-> activity, room |-> room]

\* The acting agent is stamped as present.
markAgentActive(aw, c, now) == heartbeat(aw, ActorOf[c], now)

applyEdit(c, room) ==
  [room EXCEPT !.roomRevision = @ + 1,
               !.stateRevision = @ + 1,
               !.content.edits[c] = @ + 1]

\* roomRevision only: the aggregate revision follows when the store
\* normalises the mutation.
queueAgentEdit(c, room, now) ==
  [room EXCEPT !.roomRevision = @ + 1,
               !.content.proposals[c] = @ + 1,
               !.awareness = markAgentActive(@, c, now)]

enableReview(room) ==
  IF room.content.reviewing THEN room
  ELSE [room EXCEPT !.roomRevision = @ + 1, !.content.reviewing = TRUE]

acquireLease(c, room, now) ==
  [room EXCEPT !.stateRevision = @ + 1,
               !.leases[TargetOf[c]] = [holder |-> ActorOf[c], expiresAt |-> now + LeaseMs]]

startSpotlight(c, room) ==
  [room EXCEPT !.stateRevision = @ + 1,
               !.awareness.presenter = ActorOf[c],
               !.awareness.followers = {ActorOf[c]}]

runCanvasCommand(c, room, now) ==
  IF Op[c] = "edit" THEN Updated(applyEdit(c, room), TRUE)
  ELSE IF room.content.reviewing THEN Updated(queueAgentEdit(c, room, now), FALSE)
  ELSE Updated([applyEdit(c, room) EXCEPT !.awareness = markAgentActive(@, c, now)], TRUE)

setAgentEditPolicy(room) == Updated(enableReview(room), FALSE)

runLeaseAction(c, room, now) ==
  IF room.leases[TargetOf[c]].holder \notin {Nobody, ActorOf[c]} THEN Rejected(room)
  ELSE Updated(acquireLease(c, room, now), FALSE)

updateSpotlight(c, room) ==
  IF room.awareness.presenter \notin {Nobody, ActorOf[c]} THEN Rejected(room)
  ELSE Updated(startSpotlight(c, room), FALSE)

Update(c, room, now) ==
  CASE Op[c] \in {"edit", "agent_edit"} -> runCanvasCommand(c, room, now)
    [] Op[c] = "policy"    -> setAgentEditPolicy(room)
    [] Op[c] = "lease"     -> runLeaseAction(c, room, now)
    [] Op[c] = "spotlight" -> updateSpotlight(c, room)
=============================================================================
