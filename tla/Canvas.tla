------------------------------- MODULE Canvas -------------------------------
(***************************************************************************)
(* One room's canvas under the commands of room-service.ts: transactions,  *)
(* the activities that record them and can be taken back, leases, and in   *)
(* review mode the queue of what agents propose.  A command is one step,   *)
(* because the store makes it one (RoomStore).  The activity a revert      *)
(* names is read before that step; activities never change, so reading it  *)
(* in the step is the same.                                                *)
(***************************************************************************)
EXTENDS CanvasEngine, Sequences, SequencesExt

CONSTANTS
  Humans, Agents,      \* the actors
  Transactions,        \* what is asked of the engine,
  Proposals,           \* and of that, what agents ask in review mode
  LeaseTargets,        \* the sets of objects that leases are asked for
  Created,             \* the canvases a room may start with
  MaxActivities,       \* bound: activities recorded
  MaxProposals,        \* the length of the queue, MAX_ROOM_REVIEW_PROPOSALS
  MaxAsked             \* bound: proposals ever made

sound(x) ==
  /\ referencesResolve(x)
  /\ \A id \in Ids : x.leases[id] # Nobody => exists(x.objects[id])

ASSUME CanvasAssumption ==
  /\ Actors = Humans \cup Agents /\ Humans \cap Agents = {}
  /\ \A tx \in Transactions : isTransaction(tx)
  /\ \A x \in Created : x \in Canvases /\ sound(x)
  /\ Proposals \subseteq Transactions
  /\ MaxProposals \in Nat \ {0}

VARIABLES
  canvas,
  agentEditPolicy,
  activities,          \* in the order they happened
  reviewProposals      \* the newest first

vars == <<canvas, agentEditPolicy, activities, reviewProposals>>

None == 0     \* the activity of what has none

Init ==
  /\ canvas \in Created
  /\ agentEditPolicy \in {"live", "review"}
  /\ activities = <<>>
  /\ reviewProposals = <<>>

-----------------------------------------------------------------------------
(* Edits.                                                                  *)

mustPropose(a) == a \in Agents /\ agentEditPolicy = "review"

\* A request is a transaction or names the activity to revert.
transaction(tx) == [kind |-> "semantic_transaction", transaction |-> tx]
reversal(i) == [kind |-> "activity_revert", activityId |-> i]
Requests(txs) == {transaction(tx) : tx \in txs} \cup {reversal(i) : i \in 1..Len(activities)}

results(request, a) ==
  IF request.kind = "activity_revert"
    THEN applyActivityRevert(canvas, activities[request.activityId], a)
    ELSE applySemanticTransaction(canvas, request.transaction, a)

revertsActivityId(request) ==
  IF request.kind = "activity_revert" THEN request.activityId ELSE None

Apply(request, a) ==
  /\ Len(activities) < MaxActivities
  /\ canvas' \in results(request, a)
  /\ activities' = Append(activities,
                          buildRoomActivity(canvas, canvas', a, revertsActivityId(request)))

Transact(a, request) ==
  /\ ~mustPropose(a)
  /\ Apply(request, a)
  /\ UNCHANGED <<agentEditPolicy, reviewProposals>>

-----------------------------------------------------------------------------
(* The review of what agents propose.                                      *)

\* The objects and Diagrams a proposal names, as they are.  A reversal has
\* its activity's record for that.
targetGuards(request) ==
  IF request.kind = "activity_revert" THEN [objects |-> <<>>, diagrams |-> <<>>]
  ELSE LET tx == request.transaction
           members == UNION {LET command == tx.diagramCommands[d] IN
                             CASE command.type = "create"  -> contents(command.diagram)
                               [] command.type = "arrange" -> contents(command)
                               [] command.type = "retitle" -> {} :
                             d \in DOMAIN tx.diagramCommands}
       IN [objects |-> [id \in named(tx) \cup members |-> canvas.objects[id]],
           diagrams |-> [d \in DOMAIN tx.diagramCommands \cup ({tx.layout.diagram} \ {NoId}) |->
                           canvas.diagrams[d]]]

buildAgentEditProposal(a, request) ==
  [id |-> IF reviewProposals = <<>> THEN 1 ELSE Head(reviewProposals).id + 1,
   status |-> "pending", author |-> a, request |-> request,
   targetGuards |-> targetGuards(request), activityId |-> None]

decided == {i \in DOMAIN reviewProposals : reviewProposals[i].status # "pending"}

\* A full queue makes room by dropping the oldest decided proposal.
makeRoom ==
  IF Len(reviewProposals) < MaxProposals THEN reviewProposals
  ELSE RemoveAt(reviewProposals, CHOOSE i \in decided : \A j \in decided : j <= i)

queueAgentEdit(a, request) ==
  /\ mustPropose(a)
  /\ Len(reviewProposals) < MaxProposals \/ decided # {}
  /\ buildAgentEditProposal(a, request).id <= MaxAsked
  /\ reviewProposals' = <<buildAgentEditProposal(a, request)>> \o makeRoom
  /\ UNCHANGED <<canvas, agentEditPolicy, activities>>

decide(i, status, activityId) ==
  reviewProposals' = [reviewProposals EXCEPT ![i].status = status, ![i].activityId = activityId]

Reject(i) ==
  /\ reviewProposals[i].status = "pending"
  /\ decide(i, "rejected", None)
  /\ UNCHANGED <<canvas, agentEditPolicy, activities>>

\* Faulty variant: whatever the proposal's status.
ApproveAgain(i) ==
  LET proposal == reviewProposals[i] IN
  /\ proposal.targetGuards = targetGuards(proposal.request)
  /\ Apply(proposal.request, proposal.author)
  /\ decide(i, "applied", Len(activities'))
  /\ UNCHANGED agentEditPolicy

Approve(i) ==
  LET proposal == reviewProposals[i] IN
  /\ proposal.status = "pending"
  /\ proposal.targetGuards = targetGuards(proposal.request)
  /\ Apply(proposal.request, proposal.author)
  /\ decide(i, "applied", Len(activities'))
  /\ UNCHANGED agentEditPolicy

setAgentEditPolicy(a, policy) ==
  /\ agentEditPolicy # policy
  /\ a \in Agents => policy = "review"
  /\ agentEditPolicy' = policy
  /\ UNCHANGED <<canvas, activities, reviewProposals>>

-----------------------------------------------------------------------------
(* Leases.  Renewing one only puts off its end.                            *)

acquireObjectLeases(a, targets) ==
  /\ \A id \in targets : exists(canvas.objects[id]) /\ mayChange(canvas, id, a)
  /\ canvas' = [canvas EXCEPT !.leases = [id \in Ids |-> IF id \in targets THEN a ELSE @[id]]]
  /\ UNCHANGED <<agentEditPolicy, activities, reviewProposals>>

releaseObjectLeases(a, targets) ==
  /\ \A id \in targets : mayChange(canvas, id, a)
  /\ canvas' = [canvas EXCEPT !.leases = [id \in Ids |-> IF id \in targets THEN Nobody ELSE @[id]]]
  /\ UNCHANGED <<agentEditPolicy, activities, reviewProposals>>

\* Its holder is silent for as long as a lease lasts.
Expire(id) ==
  /\ canvas.leases[id] # Nobody
  /\ canvas' = [canvas EXCEPT !.leases[id] = Nobody]
  /\ UNCHANGED <<agentEditPolicy, activities, reviewProposals>>

-----------------------------------------------------------------------------

Next ==
  \/ \E a \in Actors, request \in Requests(Transactions) : Transact(a, request)
  \/ \E a \in Agents, request \in Requests(Proposals) : queueAgentEdit(a, request)
  \/ \E i \in DOMAIN reviewProposals : Approve(i) \/ Reject(i)
  \/ \E a \in Actors, policy \in {"live", "review"} : setAgentEditPolicy(a, policy)
  \/ \E a \in Actors, targets \in LeaseTargets :
       acquireObjectLeases(a, targets) \/ releaseObjectLeases(a, targets)
  \/ \E id \in Ids : Expire(id)

Spec == Init /\ [][Next]_vars

-----------------------------------------------------------------------------
(* Properties.                                                             *)

Versions == Objects \cup {NoObject}
DiagramVersions == Diagrams \cup {NoDiagram}

\* The canvas, its history and the queue are of their types, and nothing in
\* them names an activity that was not there.
CanvasTypeOK ==
  /\ canvas \in Canvases
  /\ agentEditPolicy \in {"live", "review"}
  /\ \A n \in DOMAIN activities :
       /\ activities[n].actor \in Actors
       /\ activities[n].revertsActivityId \in 0..(n - 1)
       /\ DOMAIN activities[n].objectChanges \subseteq Ids
       /\ DOMAIN activities[n].diagramChanges \subseteq Ids
       /\ \A change \in Range(activities[n].objectChanges) :
            change \in [isDirect: BOOLEAN, before: Versions, after: Versions]
       /\ \A change \in Range(activities[n].diagramChanges) :
            change \in [before: DiagramVersions, after: DiagramVersions]
  /\ \A p \in Range(reviewProposals) :
       /\ p.status \in {"pending", "applied", "rejected"}
       /\ p.author \in Agents
       /\ p.request \in Requests(Proposals)
       /\ p.activityId \in 0..Len(activities)

\* Ends, members and leases name what is there, of the right kind.
ReferencesResolve == sound(canvas)

latest == activities[Len(activities)]
Recorded == activities' # activities

\* An object that somebody holds changes and disappears by nobody else's
\* activity, whether that names it, lays it out, routes it again or takes an
\* earlier change back.
LeaseHolds ==
  [][\A id \in Ids : canvas'.objects[id] # canvas.objects[id] =>
       canvas.leases[id] \in {Nobody, latest'.actor}]_vars

\* What an activity found of an entity and what the same or a later one left
\* of it: the same version, or one with a later revision, or else it was
\* deleted in between.
inOrder(records) ==
  \A m, n \in DOMAIN records : m <= n =>
    \A id \in DOMAIN records[m] \cap DOMAIN records[n] :
      \/ records[m][id].before = records[n][id].after
      \/ records[m][id].before.revision < records[n][id].after.revision
      \/ \E k \in m..n : id \in DOMAIN records[k] /\ ~exists(records[k][id].after)

\* As long as an entity lives its revisions grow, so that who names one names
\* one version: by commands, layouts and routes, and by reverts, which bring
\* an earlier version back under a revision of its own.  Deletion ends this:
\* what is created again or brought back may have a revision it had before.
RevisionsNameVersions ==
  /\ inOrder([n \in DOMAIN activities |-> activities[n].objectChanges])
  /\ inOrder([n \in DOMAIN activities |-> activities[n].diagramChanges])

\* What depends on an object follows it in the same activity: its connectors
\* end where it is, and its Diagrams are revised.  Reverts restore what they
\* recorded and are exempt.
routesAreCurrent(objects) ==
  \A c \in connectorsOf(objects) : \A t \in Terminals :
    objects[c].ends[t] # Free =>
      objects[c].route[t] \in outline(objects[objects[c].ends[t]].place)

DependentsFollow ==
  [][Recorded /\ latest'.revertsActivityId = None =>
       /\ routesAreCurrent(canvas.objects) => routesAreCurrent(canvas'.objects)
       /\ \A id, d \in Ids :
            /\ canvas'.objects[id] # canvas.objects[id]
            /\ id \in contents(canvas.diagrams[d]) \cup contents(canvas'.diagrams[d])
            => canvas'.diagrams[d].revision # canvas.diagrams[d].revision]_vars

\* The connectors that stay as they are although what they are bound to is
\* moved: their ends lie on the new outline as they did on the old one.
stillAttached(before, after) ==
  {c \in connectorsOf(after) :
     /\ before[c] = after[c]
     /\ \E t \in Terminals :
          LET e == after[c].ends[t] IN
          /\ e # Free
          /\ before[e].place # after[e].place
          /\ before[c].route[t] \in outline(after[e].place)}

canBeTakenBack(before, after, activity) ==
  /\ guardsHold(after, activity)
  /\ externalConnectorIds(after, activity) \subseteq stillAttached(before.objects, after.objects)
  /\ externalDiagramIds(after, activity) = {}
  /\ referencesResolve(reverted(after, activity, activity.actor))

\* What was just done can be taken back: its record has all that it changed,
\* and nothing it did not record depends on that, unless it is a connector
\* that could stay as it was while what it is bound to was resized.  Such a
\* connector does stand in the way, though nothing happened since.
LastChangeCanBeTakenBack ==
  [][Recorded /\ routesAreCurrent(canvas.objects) =>
       canBeTakenBack(canvas, canvas', latest')]_vars

\* In review mode an agent changes the canvas by a pending proposal of its
\* own that is applied, and what is pending stays in the queue until it is
\* decided.
ReviewGatesAgents ==
  [][/\ Recorded /\ latest'.actor \in Agents /\ agentEditPolicy = "review" =>
          \E i \in DOMAIN reviewProposals :
            /\ reviewProposals[i].status = "pending"
            /\ reviewProposals[i].author = latest'.actor
            /\ reviewProposals'[i].status = "applied"
     /\ \A p \in Range(reviewProposals) : p.status = "pending" =>
          \E q \in Range(reviewProposals') : q.id = p.id]_vars
=============================================================================
