---------------------------- MODULE CanvasEngine ----------------------------
(***************************************************************************)
(* The domain engine: what a semantic transaction, or the compensation of  *)
(* a recorded activity, makes of a room's objects, Diagrams and leases.    *)
(*                                                                         *)
(* A shape stands for every kind of object that is not a connector.  An    *)
(* object has a text (whatever is authored and not geometry), a place or a *)
(* route, the ends of a connector, its revision and its last editor.       *)
(* Times and creators are left out, as if all happened in one millisecond  *)
(* for one person, which is the hardest case for the checks that compare   *)
(* whole objects.  A place is an object's box.  A route is the points its  *)
(* ends lie at and whether it bends around an obstacle; a bound end lies   *)
(* somewhere on the outline of its object.  Outlines of two places can     *)
(* share a point: an object that grows to the left keeps its right edge.   *)
(* Diagram bounds and the reverse index object.diagramIds are derived, and *)
(* not kept.                                                               *)
(*                                                                         *)
(* A transaction maps ids to commands, because an id may be targeted once. *)
(* The order of its commands only decides whether an end that the same     *)
(* transaction creates or deletes is there already; the order taken here   *)
(* is one that works.  The revision a command expects is the one it finds: *)
(* with any other the command is refused and changes nothing.              *)
(***************************************************************************)
EXTENDS Integers

CONSTANTS
  Ids,       \* semantic ids, of objects and of Diagrams
  Texts,
  Places,
  Points,
  Outline,   \* of a place, the points a connector can be attached at
  Actors

Terminals == {"start", "end"}
Free == "free"           \* the end of a connector that is bound to no object
Nowhere == "nowhere"
Nobody == "nobody"
NoId == "none"

ASSUME EngineAssumption ==
  /\ Free \notin Ids /\ NoId \notin Ids
  /\ Nowhere \notin Places \cup Points
  /\ Outline \in [Places -> (SUBSET Points) \ {{}}]
  /\ Nobody \notin Actors

\* What is absent has revision 0.
NoObject == [kind |-> "none", text |-> "none", place |-> Nowhere,
             route |-> [t \in Terminals |-> Nowhere], bent |-> FALSE,
             ends |-> [t \in Terminals |-> Free], revision |-> 0, editor |-> Nobody]
NoDiagram == [text |-> "none", memberObjectIds |-> {}, connectorIds |-> {},
              revision |-> 0, editor |-> Nobody]

Objects == [kind: {"shape", "connector"}, text: Texts, place: Places \cup {Nowhere},
            route: [Terminals -> Points \cup {Nowhere}], bent: BOOLEAN,
            ends: [Terminals -> Ids \cup {Free}], revision: Nat \ {0}, editor: Actors]
Diagrams == [text: Texts, memberObjectIds: SUBSET Ids, connectorIds: SUBSET Ids,
             revision: Nat \ {0}, editor: Actors]

\* The part of a room the engine changes; a lease is its holder.
Canvases == [objects: [Ids -> Objects \cup {NoObject}],
             diagrams: [Ids -> Diagrams \cup {NoDiagram}],
             leases: [Ids -> Actors \cup {Nobody}]]

\* What is asked of the engine.
Commands ==
  [type: {"create"}, object: Objects] \cup [type: {"edit"}, text: Texts]
    \cup [type: {"move"}, place: Places]
    \cup [type: {"connect"}, ends: [Terminals -> Ids \cup {Free}]]
    \cup [type: {"delete"}]
DiagramCommands ==
  [type: {"create"}, diagram: Diagrams] \cup [type: {"retitle"}, text: Texts]
    \cup [type: {"arrange"}, memberObjectIds: SUBSET Ids, connectorIds: SUBSET Ids]
isTransaction(tx) ==
  /\ DOMAIN tx.commands \subseteq Ids
  /\ \A id \in DOMAIN tx.commands : tx.commands[id] \in Commands
  /\ DOMAIN tx.diagramCommands \subseteq Ids
  /\ \A d \in DOMAIN tx.diagramCommands : tx.diagramCommands[d] \in DiagramCommands
  /\ tx.layout.targets \subseteq Ids /\ tx.layout.diagram \in Ids \cup {NoId}

exists(x) == x.revision > 0
isConnector(o) == o.kind = "connector"
isShape(o) == o.kind = "shape"
revised(x, a) == [x EXCEPT !.revision = @ + 1, !.editor = a]

contents(d) == d.memberObjectIds \cup d.connectorIds
diagramIds(canvas, id) == {d \in Ids : id \in contents(canvas.diagrams[d])}

-----------------------------------------------------------------------------
(* Checks that transactions and compensations share.                       *)

\* Nobody else holds the object.
mayChange(canvas, id, a) == canvas.leases[id] \in {Nobody, a}

validConnector(objects, o) ==
  \A t \in Terminals : o.ends[t] # Free => isShape(objects[o.ends[t]])

validMembers(objects, d) ==
  /\ \A id \in d.memberObjectIds : isShape(objects[id])
  /\ \A id \in d.connectorIds : isConnector(objects[id])

geometryChanged(before, after) ==
  \/ ~exists(before) \/ ~exists(after)
  \/ before.place # after.place \/ before.route # after.route \/ before.bent # after.bent

-----------------------------------------------------------------------------
(* Transactions: commands on objects, commands on Diagrams, a layout.  The *)
(* places a layout computes, the connectors that are routed again beside   *)
(* those that must be, the points on an outline their ends are attached at *)
(* and the bends they get are left open.                                   *)

\* What a command makes of its object.
commanded(o, command, a) ==
  CASE command.type = "create"  -> [command.object EXCEPT !.revision = 1, !.editor = a]
    [] command.type = "edit"    -> [revised(o, a) EXCEPT !.text = command.text]
    [] command.type = "move"    -> [revised(o, a) EXCEPT !.place = command.place]
    [] command.type = "connect" -> [revised(o, a) EXCEPT !.ends = command.ends]
    [] command.type = "delete"  -> NoObject

afterCommands(canvas, tx, a) ==
  [id \in Ids |-> IF id \in DOMAIN tx.commands
                    THEN commanded(canvas.objects[id], tx.commands[id], a)
                    ELSE canvas.objects[id]]

\* What the commands delete can be referred to until then.
referable(canvas, tx, a) ==
  [id \in Ids |-> IF exists(afterCommands(canvas, tx, a)[id]) THEN afterCommands(canvas, tx, a)[id]
                                                             ELSE canvas.objects[id]]

applyObjectCommand(canvas, tx, id, a) ==
  LET command == tx.commands[id]
      o == canvas.objects[id]
  IN /\ IF command.type = "create"
          THEN ~exists(o) /\ ~exists(canvas.diagrams[id])
          ELSE exists(o) /\ mayChange(canvas, id, a)
     /\ command.type = "connect" => isConnector(o)
     /\ command.type \in {"create", "edit", "connect"} =>
          validConnector(referable(canvas, tx, a), commanded(o, command, a))

diagramCommanded(d, command, a) ==
  CASE command.type = "create"  -> [command.diagram EXCEPT !.revision = 1, !.editor = a]
    [] command.type = "retitle" -> [d EXCEPT !.text = command.text]
    [] command.type = "arrange" -> [d EXCEPT !.memberObjectIds = command.memberObjectIds,
                                             !.connectorIds = command.connectorIds]

applyDiagramCommand(canvas, tx, d, a) ==
  LET command == tx.diagramCommands[d]
      objects == afterCommands(canvas, tx, a)
  IN /\ IF command.type = "create"
          THEN ~exists(canvas.diagrams[d]) /\ ~exists(objects[d])
          ELSE exists(canvas.diagrams[d])
     /\ validMembers(objects, diagramCommanded(canvas.diagrams[d], command, a))

diagramsDrafted(canvas, tx, a) ==
  [d \in Ids |-> IF d \in DOMAIN tx.diagramCommands
                   THEN diagramCommanded(canvas.diagrams[d], tx.diagramCommands[d], a)
                   ELSE canvas.diagrams[d]]

applyLayout(canvas, tx, a) ==
  /\ tx.layout.diagram # NoId =>
       tx.layout.targets \subseteq diagramsDrafted(canvas, tx, a)[tx.layout.diagram].memberObjectIds
  /\ \A id \in tx.layout.targets :
       /\ isShape(afterCommands(canvas, tx, a)[id])
       /\ exists(canvas.objects[id]) => id \notin DOMAIN tx.commands
       /\ mayChange(canvas, id, a)

\* The objects once the layout has put its targets in their places; one that
\* the transaction created is placed as part of that.
objectsDrafted(canvas, tx, a, places) ==
  [id \in Ids |->
     LET o == afterCommands(canvas, tx, a)[id] IN
     CASE id \notin tx.layout.targets -> o
       [] id \in tx.layout.targets /\ exists(canvas.objects[id])
            -> [revised(o, a) EXCEPT !.place = places[id]]
       [] OTHER -> [o EXCEPT !.place = places[id]]]

named(tx) == DOMAIN tx.commands \cup tx.layout.targets

connectorsOf(objects) == {id \in Ids : isConnector(objects[id])}

\* Labels count, because a route makes room for them.
routeInputChanged(before, after) ==
  \/ geometryChanged(before, after)
  \/ isConnector(after) /\ (before.ends # after.ends \/ before.text # after.text)

\* Faulty variant: a connector is routed for what it is, not for its ends.
mustRouteItself(canvas, tx, draft) ==
  {c \in connectorsOf(draft) : c \in named(tx) /\ routeInputChanged(canvas.objects[c], draft[c])}

mustRoute(canvas, tx, draft) ==
  {c \in connectorsOf(draft) :
     \/ c \in named(tx) /\ routeInputChanged(canvas.objects[c], draft[c])
     \/ \E t \in Terminals : /\ draft[c].ends[t] \in named(tx)
                             /\ geometryChanged(canvas.objects[draft[c].ends[t]],
                                                draft[draft[c].ends[t]])}

\* Anything that can make another connector bend differently.
disturbs(canvas, tx, draft) ==
  \/ \E id \in named(tx) : routeInputChanged(canvas.objects[id], draft[id])
  \/ \E d \in DOMAIN tx.diagramCommands : tx.diagramCommands[d].type # "retitle"

computeAffectedConnectorIds(canvas, tx, draft) ==
  IF disturbs(canvas, tx, draft)
    THEN {mustRoute(canvas, tx, draft) \cup more : more \in SUBSET connectorsOf(draft)}
    ELSE {{}}

\* What is nowhere has no outline.
outline(place) == IF place \in Places THEN Outline[place] ELSE {Nowhere}

isBound(objects, o, t) == o.ends[t] # Free /\ exists(objects[o.ends[t]])

\* A bound end is attached to the outline of its object, one that is not
\* stays where it is.
anchorForEndpoint(objects, o, t) ==
  IF isBound(objects, o, t) THEN outline(objects[o.ends[t]].place) ELSE {o.route[t]}

Routes == [route: [Terminals -> Points \cup {Nowhere}], bent: BOOLEAN]

\* The ways to route the connectors.
resolveAffectedConnectorRoutes(objects, affected) ==
  {way \in [affected -> Routes] :
     \A c \in affected, t \in Terminals :
       way[c].route[t] \in anchorForEndpoint(objects, objects[c], t)}

\* An end whose object is gone comes loose.  A connector has no place but
\* its route.
routed(objects, c, resolved) ==
  [objects[c] EXCEPT
     !.ends = [t \in Terminals |-> IF isBound(objects, objects[c], t) THEN @[t] ELSE Free],
     !.route = resolved.route, !.bent = resolved.bent, !.place = Nowhere]

\* Connectors whose geometry changes and that nobody named.
rerouted(tx, draft, affected, way) ==
  {c \in affected \ named(tx) : routed(draft, c, way[c]) # draft[c]}

objectsAfter(tx, draft, affected, way, a) ==
  [id \in Ids |->
     CASE id \in rerouted(tx, draft, affected, way) -> revised(routed(draft, id, way[id]), a)
       [] id \in affected \cap named(tx) -> routed(draft, id, way[id])
       [] OTHER -> draft[id]]

\* Diagrams lose what is gone; one that was named, or that holds or held an
\* object that was touched, is revised.
diagramsAfter(canvas, tx, objects, touched, a) ==
  [d \in Ids |->
     LET before == canvas.diagrams[d]
         drafted == diagramsDrafted(canvas, tx, a)[d]
         kept == IF d \in DOMAIN tx.diagramCommands THEN drafted
                 ELSE [drafted EXCEPT
                         !.memberObjectIds = {id \in @ : isShape(objects[id])},
                         !.connectorIds = {id \in @ : isConnector(objects[id])}]
     IN IF exists(before) /\ (\/ d \in DOMAIN tx.diagramCommands
                              \/ contents(before) \cap touched # {}
                              \/ kept # before)
          THEN revised(kept, a)
          ELSE kept]

semanticFits(canvas, tx, a) ==
  /\ named(tx) \cup DOMAIN tx.diagramCommands # {}
  /\ \A id \in DOMAIN tx.commands : applyObjectCommand(canvas, tx, id, a)
  /\ \A d \in DOMAIN tx.diagramCommands : applyDiagramCommand(canvas, tx, d, a)
  /\ applyLayout(canvas, tx, a)

transacted(canvas, tx, draft, affected, way, a) ==
  LET objects == objectsAfter(tx, draft, affected, way, a)
  IN [objects |-> objects,
      diagrams |-> diagramsAfter(canvas, tx, objects,
                                 named(tx) \cup rerouted(tx, draft, affected, way), a),
      leases |-> [id \in Ids |-> IF exists(objects[id]) THEN canvas.leases[id] ELSE Nobody]]

\* Faulty variant: only what the transaction names is checked for leases.
transactionOfNamed(canvas, tx, a) ==
  IF ~semanticFits(canvas, tx, a) THEN {}
  ELSE UNION {
    LET draft == objectsDrafted(canvas, tx, a, places) IN
    UNION {{transacted(canvas, tx, draft, affected, way, a) :
              way \in resolveAffectedConnectorRoutes(draft, affected)} :
           affected \in computeAffectedConnectorIds(canvas, tx, draft)} :
    places \in [tx.layout.targets -> Places]}

\* What the transaction can make of the canvas: nothing, if it is refused.
applySemanticTransaction(canvas, tx, a) ==
  IF ~semanticFits(canvas, tx, a) THEN {}
  ELSE UNION {
    LET draft == objectsDrafted(canvas, tx, a, places) IN
    UNION {{transacted(canvas, tx, draft, affected, way, a) :
              way \in {w \in resolveAffectedConnectorRoutes(draft, affected) :
                         \A c \in rerouted(tx, draft, affected, w) : mayChange(canvas, c, a)}} :
           affected \in computeAffectedConnectorIds(canvas, tx, draft)} :
    places \in [tx.layout.targets -> Places]}

-----------------------------------------------------------------------------
(* Activities and their compensation.                                      *)

\* Faulty variant: a Diagram is recorded when what was authored of it changed.
activityOfAuthored(before, after, by, revertsActivityId) ==
  LET direct == {id \in Ids : before.objects[id] # after.objects[id]}
      moved == {id \in Ids : /\ exists(after.objects[id])
                             /\ diagramIds(before, id) # diagramIds(after, id)}
      edited == {d \in Ids : [before.diagrams[d] EXCEPT !.revision = 0, !.editor = Nobody]
                               # [after.diagrams[d] EXCEPT !.revision = 0, !.editor = Nobody]}
  IN [actor |-> by, revertsActivityId |-> revertsActivityId,
      objectChanges |-> [id \in direct \cup moved |->
                           [isDirect |-> id \in direct, before |-> before.objects[id],
                                                      after |-> after.objects[id]]],
      diagramChanges |-> [d \in edited |-> [before |-> before.diagrams[d],
                                            after |-> after.diagrams[d]]]]

\* The record of a change: what it touched, as it was before and after.
\* Objects it changed are direct; beside them stand those whose Diagrams it
\* changed.
buildRoomActivity(before, after, by, revertsActivityId) ==
  LET direct == {id \in Ids : before.objects[id] # after.objects[id]}
      moved == {id \in Ids : /\ exists(after.objects[id])
                             /\ diagramIds(before, id) # diagramIds(after, id)}
      edited == {d \in Ids : before.diagrams[d] # after.diagrams[d]}
  IN [actor |-> by, revertsActivityId |-> revertsActivityId,
      objectChanges |-> [id \in direct \cup moved |->
                           [isDirect |-> id \in direct, before |-> before.objects[id],
                                                      after |-> after.objects[id]]],
      diagramChanges |-> [d \in edited |-> [before |-> before.diagrams[d],
                                            after |-> after.diagrams[d]]]]

\* Everything the activity touched is as the activity left it.
guardsHold(canvas, activity) ==
  /\ \A id \in DOMAIN activity.objectChanges :
       canvas.objects[id] = activity.objectChanges[id].after
  /\ \A d \in DOMAIN activity.diagramChanges :
       canvas.diagrams[d] = activity.diagramChanges[d].after

\* The objects whose geometry is taken back, and what refers to them that
\* the activity did not touch.
dependencySensitiveIds(activity) ==
  LET changes == activity.objectChanges
  IN {id \in DOMAIN changes : /\ changes[id].isDirect
                              /\ geometryChanged(changes[id].before, changes[id].after)}
externalConnectorIds(canvas, activity) ==
  {c \in connectorsOf(canvas.objects) \ DOMAIN activity.objectChanges :
     \E t \in Terminals : canvas.objects[c].ends[t] \in dependencySensitiveIds(activity)}
externalDiagramIds(canvas, activity) ==
  {d \in Ids \ DOMAIN activity.diagramChanges :
     contents(canvas.diagrams[d]) \cap dependencySensitiveIds(activity) # {}}

validateRevertDependencies(canvas, activity) ==
  externalConnectorIds(canvas, activity) = {} /\ externalDiagramIds(canvas, activity) = {}

\* Faulty variant: the entity as it was, with the revision it had.
rewound(current, before, a) ==
  IF ~exists(before) THEN before ELSE [before EXCEPT !.editor = a]

\* Faulty variant: what was created is overwritten, not deleted.
overwritten(current, before, a) ==
  [before EXCEPT !.revision = 1 + IF exists(current) THEN current.revision ELSE @, !.editor = a]

\* The entity as it was, under a revision of its own.
restored(current, before, a) ==
  IF ~exists(before) THEN before
  ELSE [before EXCEPT !.revision = 1 + IF exists(current) THEN current.revision ELSE @,
                      !.editor = a]

reverted(canvas, activity, a) ==
  LET direct == {id \in DOMAIN activity.objectChanges : activity.objectChanges[id].isDirect}
      objects == [id \in Ids |->
                    IF id \in direct
                      THEN restored(canvas.objects[id], activity.objectChanges[id].before, a)
                      ELSE canvas.objects[id]]
  IN [objects |-> objects,
      diagrams |-> [d \in Ids |->
                      IF d \in DOMAIN activity.diagramChanges
                        THEN restored(canvas.diagrams[d], activity.diagramChanges[d].before, a)
                        ELSE canvas.diagrams[d]],
      leases |-> [id \in Ids |-> IF exists(objects[id]) THEN canvas.leases[id] ELSE Nobody]]

referencesResolve(canvas) ==
  /\ \A c \in connectorsOf(canvas.objects) : validConnector(canvas.objects, canvas.objects[c])
  /\ \A d \in Ids : validMembers(canvas.objects, canvas.diagrams[d])

\* Faulty variant: the result is not validated.
revertFitsUnvalidated(canvas, activity, a) ==
  guardsHold(canvas, activity) /\ validateRevertDependencies(canvas, activity)

\* The compensation is possible, leases aside.
revertFits(canvas, activity, a) ==
  /\ guardsHold(canvas, activity)
  /\ validateRevertDependencies(canvas, activity)
  /\ referencesResolve(reverted(canvas, activity, a))

applyActivityRevert(canvas, activity, a) ==
  IF /\ revertFits(canvas, activity, a)
     /\ \A id \in DOMAIN activity.objectChanges :
          exists(canvas.objects[id]) => mayChange(canvas, id, a)
    THEN {reverted(canvas, activity, a)}
    ELSE {}
=============================================================================
