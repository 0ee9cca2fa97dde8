---------------------------- MODULE CanvasProofs ----------------------------
(***************************************************************************)
(* The canvas keeps its promises for any ids, transactions and canvases.   *)
(* First a transaction is followed through its steps: what the commands    *)
(* make of an object (AfterCommands), the layout (Drafted), the routing    *)
(* (Outcome) and the Diagrams (DiagramOutcome).  That gives what every     *)
(* activity leaves, a revert's too (LeavesSound), and with it the          *)
(* inductive invariant.  What must follow a change, and what lets it be    *)
(* taken back, comes last.                                                 *)
(***************************************************************************)
EXTENDS Canvas, SequenceTheorems, WellFoundedInduction, TLAPS

-----------------------------------------------------------------------------
(* What exists.                                                            *)

\* A version either is an object of this revision or later, or is absent.
LEMMA VersionKinds ==
  ASSUME NEW o \in Versions
  PROVE  /\ exists(o) <=> o \in Objects
         /\ exists(o) <=> o # NoObject
         /\ isShape(o) => exists(o)
         /\ isConnector(o) => exists(o)
         /\ exists(o) => isShape(o) \/ isConnector(o)
         /\ ~(isShape(o) /\ isConnector(o))
         /\ o.revision \in Nat
BY DEF Versions, Objects, NoObject, exists, isShape, isConnector

\* A Diagram likewise, and what is absent holds nothing.
LEMMA DiagramKinds ==
  ASSUME NEW d \in DiagramVersions
  PROVE  /\ exists(d) <=> d \in Diagrams
         /\ exists(d) <=> d # NoDiagram
         /\ d.revision \in Nat
         /\ d.memberObjectIds \subseteq Ids /\ d.connectorIds \subseteq Ids
         /\ ~exists(d) => d.memberObjectIds = {} /\ d.connectorIds = {}
BY DEF DiagramVersions, Diagrams, NoDiagram, exists

\* What an actor's activity may make of an object: the next revision of the
\* same kind, the first one, or nothing.
Succeeds(before, after, a) ==
  \/ after = before
  \/ ~exists(after)
  \/ /\ after.editor = a
     /\ exists(before) => after.revision = before.revision + 1

\* What it makes of what stays: the next revision, once, under its actor.
follows(before, after, a) ==
  after # before /\ exists(after) =>
    /\ after.editor = a
    /\ exists(before) => after.revision = before.revision + 1

SameKind(before, after) == exists(before) /\ exists(after) => after.kind = before.kind

\* A revised object is the next version of the same kind.
LEMMA RevisedIsObject ==
  ASSUME NEW o \in Objects, NEW a \in Actors
  PROVE  /\ revised(o, a) \in Objects
         /\ revised(o, a).revision = o.revision + 1
         /\ revised(o, a).editor = a
         /\ revised(o, a).kind = o.kind
<1> DEFINE n == o.revision + 1
<1>1. n \in Nat \ {0}
  BY DEF Objects
<1>2. revised(o, a) = [o EXCEPT !.revision = n, !.editor = a]
  BY DEF revised
<1> HIDE DEF n
<1>3. /\ revised(o, a).revision = n /\ revised(o, a).editor = a
      /\ revised(o, a).kind = o.kind
  BY <1>2 DEF Objects
<1>4. revised(o, a) \in Objects
  BY <1>1, <1>2 DEF Objects
<1> QED BY <1>3, <1>4 DEF n

\* A command that its checks let through leaves a version that succeeds the
\* one it found.
LEMMA CommandedIsVersion ==
  ASSUME NEW canvas_ \in Canvases, NEW tx, isTransaction(tx), NEW a \in Actors,
         NEW id \in DOMAIN tx.commands, applyObjectCommand(canvas_, tx, id, a)
  PROVE  LET o == canvas_.objects[id]
             after == commanded(o, tx.commands[id], a)
         IN /\ id \in Ids
            /\ after \in Versions
            /\ Succeeds(o, after, a)
            /\ SameKind(o, after)
            /\ o # after
            /\ exists(o) => mayChange(canvas_, id, a)
<1> DEFINE o == canvas_.objects[id]
           command == tx.commands[id]
           after == commanded(o, command, a)
<1>1. id \in Ids /\ command \in Commands
  BY DEF isTransaction
<1>2. o \in Versions
  BY <1>1 DEF Canvases, Versions
<1>3. CASE command.type = "create"
  <2>1. ~exists(o) /\ command.object \in Objects
    BY <1>1, <1>3 DEF applyObjectCommand, Commands
  <2>2. after = [command.object EXCEPT !.revision = 1, !.editor = a]
    BY <1>3 DEF commanded
  <2>3. after \in Objects /\ after.revision = 1 /\ after.editor = a
    <3>1. after.revision = 1 /\ after.editor = a
      BY <2>1, <2>2 DEF Objects
    <3>2. after \in Objects
      <4> DEFINE x == command.object
                 n == 1
      <4>1. /\ n \in Nat \ {0} /\ x \in Objects
            /\ after = [x EXCEPT !.revision = n, !.editor = a]
        BY <2>1, <2>2
      <4> HIDE DEF x, n, after
      <4> QED BY <4>1 DEF Objects
    <3> QED BY <3>1, <3>2
  <2>4. after \in Versions /\ o # after
    BY <1>2, <2>1, <2>3, VersionKinds DEF Versions
  <2> QED BY <1>1, <2>1, <2>3, <2>4 DEF Succeeds, SameKind
<1>4. CASE command.type # "create"
  <2>1. exists(o) /\ mayChange(canvas_, id, a) /\ o \in Objects
    BY <1>2, <1>4, VersionKinds DEF applyObjectCommand
  <2>2. CASE command.type = "edit"
    <3>1. command.text \in Texts
      BY <1>1, <2>2 DEF Commands
    <3>2. after = [revised(o, a) EXCEPT !.text = command.text]
      BY <2>2 DEF commanded
    <3>3. /\ after \in Objects /\ after.revision = o.revision + 1
          /\ after.editor = a /\ after.kind = o.kind
      BY <2>1, <3>1, <3>2, RevisedIsObject DEF Objects
    <3> QED BY <1>1, <2>1, <3>3 DEF Versions, Succeeds, SameKind, Objects
  <2>3. CASE command.type = "move"
    <3>1. command.place \in Places
      BY <1>1, <2>3 DEF Commands
    <3>2. after = [revised(o, a) EXCEPT !.place = command.place]
      BY <2>3 DEF commanded
    <3>3. /\ after \in Objects /\ after.revision = o.revision + 1
          /\ after.editor = a /\ after.kind = o.kind
      BY <2>1, <3>1, <3>2, RevisedIsObject DEF Objects
    <3> QED BY <1>1, <2>1, <3>3 DEF Versions, Succeeds, SameKind, Objects
  <2>4. CASE command.type = "connect"
    <3>1. command.ends \in [Terminals -> Ids \cup {Free}]
      BY <1>1, <2>4 DEF Commands
    <3>2. after = [revised(o, a) EXCEPT !.ends = command.ends]
      BY <2>4 DEF commanded
    <3>3. /\ after \in Objects /\ after.revision = o.revision + 1
          /\ after.editor = a /\ after.kind = o.kind
      BY <2>1, <3>1, <3>2, RevisedIsObject DEF Objects
    <3> QED BY <1>1, <2>1, <3>3 DEF Versions, Succeeds, SameKind, Objects
  <2>5. CASE command.type = "delete"
    <3>1. after = NoObject
      BY <2>5 DEF commanded
    <3> QED BY <1>1, <2>1, <3>1, VersionKinds DEF Versions, Succeeds, SameKind, exists, NoObject
  <2> QED BY <1>1, <1>4, <2>2, <2>3, <2>4, <2>5 DEF Commands
<1> QED BY <1>3, <1>4

-----------------------------------------------------------------------------
(* The steps of a transaction.                                             *)

Fits(canvas_, tx, a) ==
  /\ canvas_ \in Canvases /\ isTransaction(tx) /\ a \in Actors
  /\ semanticFits(canvas_, tx, a)

Layouts(tx) == [tx.layout.targets -> Places]

\* What a transaction may have made of an object that it names.
Advances(before, after, a) ==
  \/ ~exists(after)
  \/ /\ after.editor = a
     /\ exists(before) => after.revision = before.revision + 1

\* The commands change what they name, to the next version of the same kind.
LEMMA AfterCommands ==
  ASSUME NEW canvas_, NEW tx, NEW a, Fits(canvas_, tx, a), NEW id \in Ids
  PROVE  LET o == canvas_.objects[id]
             after == afterCommands(canvas_, tx, a)[id]
         IN /\ o \in Versions /\ after \in Versions
            /\ SameKind(o, after)
            /\ id \notin DOMAIN tx.commands => after = o
            /\ id \in DOMAIN tx.commands => Advances(o, after, a)
            /\ id \in DOMAIN tx.commands /\ exists(o) => mayChange(canvas_, id, a)
<1> DEFINE o == canvas_.objects[id]
           after == afterCommands(canvas_, tx, a)[id]
<1>1. o \in Versions
  BY DEF Fits, Canvases, Versions
<1>2. CASE id \notin DOMAIN tx.commands
  <2>1. after = o
    BY <1>2 DEF afterCommands
  <2> QED BY <1>1, <1>2, <2>1 DEF SameKind
<1>3. CASE id \in DOMAIN tx.commands
  <2>1. after = commanded(o, tx.commands[id], a)
    BY <1>3 DEF afterCommands
  <2>2. applyObjectCommand(canvas_, tx, id, a)
    BY <1>3 DEF Fits, semanticFits
  <2>3. /\ after \in Versions /\ Succeeds(o, after, a) /\ SameKind(o, after) /\ o # after
        /\ exists(o) => mayChange(canvas_, id, a)
    BY <1>3, <2>1, <2>2, CommandedIsVersion DEF Fits
  <2> QED BY <1>1, <1>3, <2>3 DEF Succeeds, Advances
<1> QED BY <1>2, <1>3

\* What is known of the draft of an object: of its kind still, and changed by
\* nothing but what names it.
DraftIsSound(canvas_, tx, a, places, id) ==
  LET o == canvas_.objects[id]
      after == afterCommands(canvas_, tx, a)[id]
      draft == objectsDrafted(canvas_, tx, a, places)[id]
  IN /\ o \in Versions /\ draft \in Versions
     /\ SameKind(o, draft)
     /\ draft.kind = after.kind /\ draft.ends = after.ends
     /\ exists(draft) <=> exists(after)
     /\ id \notin named(tx) => draft = o
     /\ id \in named(tx) => Advances(o, draft, a)
     /\ id \in named(tx) /\ exists(o) => mayChange(canvas_, id, a)

\* So does the layout, once: only what no command changed is revised by it.
LEMMA Drafted ==
  ASSUME NEW canvas_, NEW tx, NEW a, Fits(canvas_, tx, a),
         NEW places \in Layouts(tx), NEW id \in Ids
  PROVE  DraftIsSound(canvas_, tx, a, places, id)
<1> DEFINE o == canvas_.objects[id]
           after == afterCommands(canvas_, tx, a)[id]
           draft == objectsDrafted(canvas_, tx, a, places)[id]
<1> SUFFICES /\ o \in Versions /\ draft \in Versions
             /\ SameKind(o, draft)
             /\ draft.kind = after.kind /\ draft.ends = after.ends
             /\ exists(draft) <=> exists(after)
             /\ id \notin named(tx) => draft = o
             /\ id \in named(tx) => Advances(o, draft, a)
             /\ id \in named(tx) /\ exists(o) => mayChange(canvas_, id, a)
  BY DEF DraftIsSound
<1>1. /\ o \in Versions /\ after \in Versions
      /\ SameKind(o, after)
      /\ id \notin DOMAIN tx.commands => after = o
      /\ id \in DOMAIN tx.commands => Advances(o, after, a)
      /\ id \in DOMAIN tx.commands /\ exists(o) => mayChange(canvas_, id, a)
  BY AfterCommands
<1>2. CASE id \notin tx.layout.targets
  <2>1. draft = after
    BY <1>2 DEF objectsDrafted
  <2> QED BY <1>1, <1>2, <2>1 DEF named
<1>3. CASE id \in tx.layout.targets
  <2>1. /\ isShape(after) /\ mayChange(canvas_, id, a)
        /\ exists(o) => id \notin DOMAIN tx.commands
        /\ places[id] \in Places
    BY <1>3 DEF Fits, semanticFits, applyLayout, Layouts
  <2>2. after \in Objects /\ exists(after)
    BY <1>1, <2>1, VersionKinds
  <2>3. CASE exists(o)
    <3>1. /\ revised(o, a) \in Objects /\ revised(o, a).revision = o.revision + 1
          /\ revised(o, a).editor = a /\ revised(o, a).kind = o.kind
          /\ revised(o, a).ends = o.ends /\ after = o
      <4>1. after = o /\ o \in Objects
        BY <1>1, <2>1, <2>2, <2>3
      <4>2. revised(o, a).ends = o.ends
        BY <4>1 DEF revised, Objects
      <4> QED BY <4>1, <4>2, RevisedIsObject DEF Fits
    <3>2. draft = [revised(after, a) EXCEPT !.place = places[id]]
      BY <1>3, <2>3 DEF objectsDrafted
    <3>3. /\ draft \in Objects /\ draft.revision = o.revision + 1 /\ draft.editor = a
          /\ draft.kind = after.kind /\ draft.ends = after.ends
      BY <2>1, <3>1, <3>2 DEF Objects
    <3>4. draft \in Versions /\ exists(draft)
      BY <3>3, VersionKinds DEF Versions
    <3> QED BY <1>1, <1>3, <2>1, <2>2, <2>3, <3>1, <3>3, <3>4 DEF SameKind, Advances, named
  <2>4. CASE ~exists(o)
    <3>1. draft = [after EXCEPT !.place = places[id]]
      BY <1>3, <2>4 DEF objectsDrafted
    <3>2. /\ draft \in Objects /\ draft.revision = after.revision /\ draft.editor = after.editor
          /\ draft.kind = after.kind /\ draft.ends = after.ends
      BY <2>1, <2>2, <3>1 DEF Objects
    <3>3. draft \in Versions /\ exists(draft)
      BY <3>2, VersionKinds DEF Versions
    <3>4. id \in DOMAIN tx.commands
      BY <1>1, <2>2, <2>4
    <3>5. after.editor = a
      BY <1>1, <2>2, <3>4 DEF Advances
    <3> QED BY <1>1, <1>3, <2>1, <2>2, <2>4, <3>2, <3>3, <3>5 DEF SameKind, Advances, named
  <2> QED BY <2>3, <2>4
<1> QED BY <1>2, <1>3

\* A route changes no kind, no revision and no editor, and loosens the ends
\* whose object is gone.
LEMMA Routed ==
  ASSUME NEW objects \in [Ids -> Versions], NEW c \in Ids, isConnector(objects[c]),
         NEW resolved \in Routes,
         \A t \in Terminals : resolved.route[t] \in anchorForEndpoint(objects, objects[c], t)
  PROVE  LET o == objects[c]
             after == routed(objects, c, resolved)
         IN /\ after \in Objects
            /\ after.revision = o.revision /\ after.editor = o.editor /\ after.kind = o.kind
            /\ \A t \in Terminals : after.ends[t] =
                 IF o.ends[t] # Free /\ exists(objects[o.ends[t]]) THEN o.ends[t] ELSE Free
            /\ \A t \in Terminals :
                 after.ends[t] # Free => after.route[t] \in outline(objects[after.ends[t]].place)
<1> DEFINE o == objects[c]
           newEnds == [t \in Terminals |-> IF isBound(objects, o, t) THEN o.ends[t] ELSE Free]
           after == routed(objects, c, resolved)
<1>1. o \in Objects
  BY VersionKinds
<1>2. newEnds \in [Terminals -> Ids \cup {Free}]
  BY <1>1 DEF Objects
<1>3. /\ resolved.route \in [Terminals -> Points \cup {Nowhere}] /\ resolved.bent \in BOOLEAN
  BY DEF Routes
<1>4. after = [o EXCEPT !.ends = newEnds, !.route = resolved.route, !.bent = resolved.bent,
                        !.place = Nowhere]
  BY DEF routed
<1>5. \A t \in Terminals : newEnds[t] =
        IF o.ends[t] # Free /\ exists(objects[o.ends[t]]) THEN o.ends[t] ELSE Free
  BY DEF isBound
<1>6. \A t \in Terminals :
        newEnds[t] # Free => resolved.route[t] \in outline(objects[newEnds[t]].place)
  <2>1. \A t \in Terminals : newEnds[t] # Free =>
          /\ newEnds[t] = o.ends[t]
          /\ resolved.route[t] \in outline(objects[o.ends[t]].place)
    BY DEF anchorForEndpoint
  <2> HIDE DEF newEnds
  <2> QED BY <2>1
<1> HIDE DEF newEnds, o, after
<1>7. /\ after.revision = o.revision /\ after.editor = o.editor /\ after.kind = o.kind
      /\ after.ends = newEnds /\ after.route = resolved.route
  BY <1>1, <1>4 DEF Objects
<1>8. after \in Objects
  BY <1>1, <1>2, <1>3, <1>4 DEF Objects
<1> QED BY <1>5, <1>7, <1>8, <1>6 DEF o, after

\* What routing is asked of: connectors, and among them all that must be.
LEMMA Affected ==
  ASSUME NEW canvas_, NEW tx, NEW draft,
         NEW affected \in computeAffectedConnectorIds(canvas_, tx, draft)
  PROVE  /\ affected \subseteq connectorsOf(draft)
         /\ mustRoute(canvas_, tx, draft) \subseteq affected
<1>1. mustRoute(canvas_, tx, draft) \subseteq connectorsOf(draft)
  BY DEF mustRoute
<1>2. CASE disturbs(canvas_, tx, draft)
  BY <1>1, <1>2 DEF computeAffectedConnectorIds
<1>3. CASE ~disturbs(canvas_, tx, draft)
  <2>1. affected = {}
    BY <1>3 DEF computeAffectedConnectorIds
  <2>2. \A id \in named(tx) : ~geometryChanged(canvas_.objects[id], draft[id])
    BY <1>3 DEF disturbs, routeInputChanged
  <2>3. mustRoute(canvas_, tx, draft) = {}
    BY <1>3, <2>2 DEF mustRoute, disturbs
  <2> QED BY <2>1, <2>3
<1> QED BY <1>2, <1>3

\* A connector that is left with an end at what the commands deleted is among
\* those that must be routed.
LEMMA Dangling ==
  ASSUME NEW canvas_, NEW tx, NEW a, Fits(canvas_, tx, a),
         referencesResolve(canvas_),
         NEW places \in Layouts(tx),
         NEW c \in Ids, NEW t \in Terminals,
         isConnector(objectsDrafted(canvas_, tx, a, places)[c]),
         objectsDrafted(canvas_, tx, a, places)[c].ends[t] # Free
  PROVE  LET draft == objectsDrafted(canvas_, tx, a, places)
             end == draft[c].ends[t]
         IN \/ isShape(draft[end])
            \/ ~exists(draft[end]) /\ c \in mustRoute(canvas_, tx, draft)
<1> DEFINE draft == objectsDrafted(canvas_, tx, a, places)
           after == afterCommands(canvas_, tx, a)
           end == draft[c].ends[t]
<1>1. \A id \in Ids :
        /\ canvas_.objects[id] \in Versions /\ draft[id] \in Versions
        /\ SameKind(canvas_.objects[id], draft[id])
        /\ draft[id].kind = after[id].kind /\ draft[id].ends = after[id].ends
        /\ exists(draft[id]) <=> exists(after[id])
        /\ id \notin named(tx) => draft[id] = canvas_.objects[id]
  <2> TAKE id \in Ids
  <2>1. DraftIsSound(canvas_, tx, a, places, id)
    BY Drafted
  <2> QED BY <2>1 DEF DraftIsSound
<1> SUFFICES \/ isShape(draft[end])
             \/ ~exists(draft[end]) /\ c \in mustRoute(canvas_, tx, draft)
  OBVIOUS
<1> HIDE DEF draft, after
<1>2. end \in Ids
  <2>1. draft[c] \in Objects
    BY <1>1, VersionKinds DEF draft
  <2> QED BY <2>1 DEF Objects, draft
<1> HIDE DEF end
<1>3. ASSUME isShape(canvas_.objects[end])
      PROVE  \/ isShape(draft[end])
             \/ ~exists(draft[end]) /\ c \in mustRoute(canvas_, tx, draft)
  <2>1. CASE exists(draft[end])
    <3>1. draft[end].kind = canvas_.objects[end].kind
      BY <1>1, <1>2, <1>3, <2>1, VersionKinds DEF SameKind
    <3> QED BY <1>3, <3>1 DEF isShape
  <2>2. CASE ~exists(draft[end])
    <3>1. exists(canvas_.objects[end])
      BY <1>1, <1>2, <1>3, VersionKinds
    <3>2. end \in named(tx)
      BY <1>1, <1>2, <2>2, <3>1
    <3>3. geometryChanged(canvas_.objects[end], draft[end])
      BY <2>2 DEF geometryChanged
    <3>4. c \in connectorsOf(draft)
      BY DEF connectorsOf, draft
    <3>5. c \in mustRoute(canvas_, tx, draft)
      BY <3>2, <3>3, <3>4 DEF mustRoute, end
    <3> QED BY <2>2, <3>5
  <2> QED BY <2>1, <2>2
<1>4. CASE c \in DOMAIN tx.commands /\ tx.commands[c].type # "move"
  <2>1. /\ applyObjectCommand(canvas_, tx, c, a)
        /\ tx.commands[c] \in Commands
        /\ after[c] = commanded(canvas_.objects[c], tx.commands[c], a)
    BY <1>4 DEF Fits, semanticFits, isTransaction, after, afterCommands
  <2>2. exists(after[c])
    BY <1>1, VersionKinds DEF draft
  <2>3. tx.commands[c].type # "delete"
    BY <2>1, <2>2 DEF commanded, exists, NoObject
  <2>4. tx.commands[c].type \in {"create", "edit", "connect"}
    BY <1>4, <2>1, <2>3 DEF Commands
  <2>5. validConnector(referable(canvas_, tx, a), after[c])
    BY <2>1, <2>4 DEF applyObjectCommand
  <2>6. after[c].ends[t] = end /\ end # Free
    BY <1>1 DEF draft, end
  <2>7. isShape(referable(canvas_, tx, a)[end])
    BY <2>5, <2>6 DEF validConnector
  <2>8. CASE exists(after[end])
    <3>1. isShape(after[end])
      BY <1>2, <2>7, <2>8 DEF referable, after
    <3> QED BY <1>1, <1>2, <3>1 DEF isShape
  <2>9. CASE ~exists(after[end])
    <3>1. isShape(canvas_.objects[end])
      BY <1>2, <2>7, <2>9 DEF referable, after
    <3> QED BY <1>3, <3>1
  <2> QED BY <2>8, <2>9
<1>5. CASE c \notin DOMAIN tx.commands \/ tx.commands[c].type = "move"
  <2>1. after[c].ends = canvas_.objects[c].ends /\ after[c].kind = canvas_.objects[c].kind
    <3>1. CASE c \notin DOMAIN tx.commands
      BY <3>1 DEF after, afterCommands
    <3>2. CASE c \in DOMAIN tx.commands /\ tx.commands[c].type = "move"
      <4>1. after[c] = [revised(canvas_.objects[c], a) EXCEPT !.place = tx.commands[c].place]
        BY <3>2 DEF after, afterCommands, commanded
      <4>2. canvas_.objects[c] \in Objects
        <5>1. exists(canvas_.objects[c])
          BY <3>2 DEF Fits, semanticFits, applyObjectCommand
        <5> QED BY <1>1, <5>1, VersionKinds
      <4>3. /\ revised(canvas_.objects[c], a) \in Objects
            /\ revised(canvas_.objects[c], a).ends = canvas_.objects[c].ends
            /\ revised(canvas_.objects[c], a).kind = canvas_.objects[c].kind
        <5>1. revised(canvas_.objects[c], a).ends = canvas_.objects[c].ends
          BY <4>2 DEF revised, Objects
        <5> QED BY <4>2, <5>1, RevisedIsObject DEF Fits
      <4> QED BY <4>1, <4>3 DEF Objects
    <3> QED BY <1>5, <3>1, <3>2
  <2>2. isConnector(canvas_.objects[c]) /\ canvas_.objects[c].ends[t] = end /\ end # Free
    BY <1>1, <2>1 DEF isConnector, draft, end
  <2>3. isShape(canvas_.objects[end])
    BY <2>2 DEF referencesResolve, connectorsOf, validConnector
  <2> QED BY <1>3, <2>3
<1> QED BY <1>4, <1>5

\* A way a transaction can go: the places of its layout, the connectors that
\* are routed again and their routes.
Way(canvas_, tx, a, places, affected, way) ==
  LET draft == objectsDrafted(canvas_, tx, a, places) IN
  /\ Fits(canvas_, tx, a)
  /\ places \in Layouts(tx)
  /\ affected \in computeAffectedConnectorIds(canvas_, tx, draft)
  /\ way \in resolveAffectedConnectorRoutes(draft, affected)
  /\ \A c \in rerouted(tx, draft, affected, way) : mayChange(canvas_, c, a)

\* Whatever a transaction can make of a canvas, it makes on some way.
LEMMA TransactionGoesAWay ==
  ASSUME NEW canvas_ \in Canvases, NEW tx, isTransaction(tx), NEW a \in Actors,
         NEW x \in applySemanticTransaction(canvas_, tx, a)
  PROVE  \E places, affected, way :
           /\ Way(canvas_, tx, a, places, affected, way)
           /\ x = transacted(canvas_, tx, objectsDrafted(canvas_, tx, a, places), affected, way, a)
<1>1. Fits(canvas_, tx, a)
  BY DEF Fits, applySemanticTransaction
<1>2. PICK places \in Layouts(tx) :
        x \in LET draft == objectsDrafted(canvas_, tx, a, places) IN
              UNION {{transacted(canvas_, tx, draft, affected, way, a) :
                        way \in {w \in resolveAffectedConnectorRoutes(draft, affected) :
                                    \A c \in rerouted(tx, draft, affected, w) : mayChange(canvas_, c, a)}} :
                     affected \in computeAffectedConnectorIds(canvas_, tx, draft)}
  BY <1>1 DEF Fits, applySemanticTransaction, Layouts
<1> DEFINE draft == objectsDrafted(canvas_, tx, a, places)
<1> HIDE DEF draft
<1>3. PICK affected \in computeAffectedConnectorIds(canvas_, tx, draft) :
        x \in {transacted(canvas_, tx, draft, affected, way, a) :
                 way \in {w \in resolveAffectedConnectorRoutes(draft, affected) :
                             \A c \in rerouted(tx, draft, affected, w) : mayChange(canvas_, c, a)}}
  BY <1>2 DEF draft
<1>4. PICK way \in resolveAffectedConnectorRoutes(draft, affected) :
        /\ \A c \in rerouted(tx, draft, affected, way) : mayChange(canvas_, c, a)
        /\ x = transacted(canvas_, tx, draft, affected, way, a)
  BY <1>3
<1>5. Way(canvas_, tx, a, places, affected, way)
  BY <1>1, <1>3, <1>4 DEF Way, draft
<1> QED BY <1>4, <1>5 DEF draft

\* What is known of an object after a transaction: it has the kind of its
\* draft, it is the next version or the same, and if it was and is another
\* now, its actor might change it.  Where it is routed again, no end is left
\* at what is gone.
OutcomeIsSound(canvas_, tx, a, places, affected, way, id) ==
  LET o == canvas_.objects[id]
      draft == objectsDrafted(canvas_, tx, a, places)
      after == objectsAfter(tx, draft, affected, way, a)[id]
  IN /\ after \in Versions
     /\ after.kind = draft[id].kind
     /\ exists(after) <=> exists(draft[id])
     /\ SameKind(o, after)
     /\ Succeeds(o, after, a)
     /\ after # o /\ exists(o) => mayChange(canvas_, id, a)
     /\ isConnector(after) =>
          \A t \in Terminals :
            after.ends[t] \in {draft[id].ends[t], Free}
     /\ id \in affected =>
          \A t \in Terminals : after.ends[t] # Free => exists(draft[after.ends[t]])

\* That holds on every way a transaction can go.
LEMMA Outcome ==
  ASSUME NEW canvas_, NEW tx, NEW a, NEW places, NEW affected, NEW way,
         Way(canvas_, tx, a, places, affected, way), NEW id \in Ids
  PROVE  OutcomeIsSound(canvas_, tx, a, places, affected, way, id)
<1> DEFINE o == canvas_.objects[id]
           draft == objectsDrafted(canvas_, tx, a, places)
           after == objectsAfter(tx, draft, affected, way, a)[id]
<1>1. /\ Fits(canvas_, tx, a) /\ a \in Actors
      /\ affected \subseteq connectorsOf(draft)
      /\ way \in resolveAffectedConnectorRoutes(draft, affected)
      /\ \A c \in rerouted(tx, draft, affected, way) : mayChange(canvas_, c, a)
  BY Affected DEF Way, Fits
<1>2. \A i \in Ids : DraftIsSound(canvas_, tx, a, places, i)
  BY Drafted DEF Way
<1>3. draft \in [Ids -> Versions]
  <2>1. \A i \in Ids : draft[i] \in Versions
    BY <1>2 DEF DraftIsSound
  <2> QED BY <2>1 DEF objectsDrafted
<1>4. /\ o \in Versions /\ draft[id] \in Versions
      /\ SameKind(o, draft[id])
      /\ id \notin named(tx) => draft[id] = o
      /\ id \in named(tx) => Advances(o, draft[id], a)
      /\ id \in named(tx) /\ exists(o) => mayChange(canvas_, id, a)
  BY <1>2 DEF DraftIsSound
<1>5. CASE id \notin affected
  <2>1. after = draft[id]
    BY <1>5 DEF objectsAfter, rerouted
  <2>2. Succeeds(o, draft[id], a)
    BY <1>4 DEF Succeeds, Advances
  <2> QED BY <1>4, <1>5, <2>1, <2>2 DEF OutcomeIsSound
<1>6. CASE id \in affected
  <2> DEFINE resolved == way[id]
             route == routed(draft, id, resolved)
  <2>1. isConnector(draft[id])
    BY <1>1, <1>6 DEF connectorsOf
  <2> HIDE DEF draft
  <2>2. /\ route \in Objects
        /\ route.revision = draft[id].revision /\ route.editor = draft[id].editor
        /\ route.kind = draft[id].kind
        /\ \A t \in Terminals : route.ends[t] =
             IF draft[id].ends[t] # Free /\ exists(draft[draft[id].ends[t]])
             THEN draft[id].ends[t] ELSE Free
    <3>1. /\ resolved \in Routes
          /\ \A t \in Terminals : resolved.route[t] \in anchorForEndpoint(draft, draft[id], t)
      BY <1>1, <1>6 DEF resolveAffectedConnectorRoutes
    <3> HIDE DEF resolved
    <3> QED BY <1>3, <2>1, <3>1, Routed
  <2>3. exists(draft[id]) /\ draft[id] \in Objects
    BY <1>4, <2>1, VersionKinds
  <2>4. CASE id \in rerouted(tx, draft, affected, way)
    <3>1. after = revised(route, a)
      <4>1. id \notin named(tx)
        BY <2>4 DEF rerouted
      <4> QED BY <2>4, <4>1 DEF objectsAfter
    <3>2. id \notin named(tx) /\ draft[id] = o /\ mayChange(canvas_, id, a)
      BY <1>1, <1>4, <2>4 DEF rerouted, draft
    <3> HIDE DEF route
    <3>3. /\ after \in Objects /\ after.revision = o.revision + 1 /\ after.editor = a
          /\ after.kind = draft[id].kind /\ after.ends = route.ends
      <4>1. revised(route, a).ends = route.ends
        BY <2>2 DEF revised, Objects
      <4> HIDE DEF after
      <4> QED BY <1>1, <2>2, <3>1, <3>2, <4>1, RevisedIsObject
    <3>4. after \in Versions /\ exists(after)
      BY <3>3, VersionKinds DEF Versions
    <3>5. /\ \A t \in Terminals : after.ends[t] \in {draft[id].ends[t], Free}
          /\ \A t \in Terminals : after.ends[t] # Free => exists(draft[after.ends[t]])
      BY <2>2, <3>3
    <3> HIDE DEF after, o
    <3>6. SameKind(o, after) /\ Succeeds(o, after, a)
      BY <1>4, <3>2, <3>3, <3>4 DEF SameKind, Succeeds
    <3> QED BY <1>4, <2>3, <3>2, <3>3, <3>4, <3>5, <3>6
            DEF OutcomeIsSound, draft, after, o
  <2>5. CASE id \notin rerouted(tx, draft, affected, way) /\ id \in named(tx)
    <3>1. after = route
      BY <1>6, <2>5 DEF objectsAfter, draft
    <3> HIDE DEF route
    <3>2. after \in Versions /\ exists(after)
      BY <2>2, <3>1, VersionKinds DEF Versions
    <3>3. /\ \A t \in Terminals : after.ends[t] \in {draft[id].ends[t], Free}
          /\ \A t \in Terminals : after.ends[t] # Free => exists(draft[after.ends[t]])
      BY <2>2, <3>1
    <3>4. Advances(o, draft[id], a)
      BY <1>4, <2>5 DEF draft
    <3>5. /\ after.kind = draft[id].kind /\ after.revision = draft[id].revision
          /\ after.editor = draft[id].editor
      BY <2>2, <3>1
    <3> HIDE DEF after, o
    <3>6. SameKind(o, after) /\ Succeeds(o, after, a)
      BY <1>4, <2>3, <3>2, <3>4, <3>5 DEF SameKind, Succeeds, Advances, draft, o
    <3> QED BY <1>4, <2>3, <2>5, <3>2, <3>3, <3>5, <3>6
            DEF OutcomeIsSound, draft, after, o
  <2>6. CASE id \notin rerouted(tx, draft, affected, way) /\ id \notin named(tx)
    <3>1. after = draft[id]
      BY <2>6 DEF objectsAfter, draft
    <3>2. draft[id] = o
      BY <1>4, <2>6 DEF draft
    <3>3. route = draft[id]
      BY <1>6, <2>6 DEF rerouted
    <3> HIDE DEF route
    <3>4. \A t \in Terminals : after.ends[t] # Free => exists(draft[after.ends[t]])
      BY <2>2, <3>1, <3>3
    <3> QED BY <1>4, <2>3, <3>1, <3>2, <3>4
            DEF OutcomeIsSound, draft, Succeeds, SameKind
  <2> QED BY <2>4, <2>5, <2>6
<1> QED BY <1>5, <1>6

\* A transaction that starts where every reference resolves leaves no
\* connector with an end at what is not a shape.
LEMMA ConnectorsResolve ==
  ASSUME NEW canvas_, NEW tx, NEW a, NEW places, NEW affected, NEW way,
         Way(canvas_, tx, a, places, affected, way), referencesResolve(canvas_),
         NEW c \in Ids,
         isConnector(objectsAfter(tx, objectsDrafted(canvas_, tx, a, places), affected, way, a)[c])
  PROVE  LET objects == objectsAfter(tx, objectsDrafted(canvas_, tx, a, places), affected, way, a)
         IN validConnector(objects, objects[c])
<1> DEFINE draft == objectsDrafted(canvas_, tx, a, places)
           objects == objectsAfter(tx, draft, affected, way, a)
<1>1. /\ Fits(canvas_, tx, a) /\ places \in Layouts(tx)
      /\ mustRoute(canvas_, tx, draft) \subseteq affected
  BY Affected DEF Way
<1>2. \A i \in Ids : OutcomeIsSound(canvas_, tx, a, places, affected, way, i)
  BY Outcome
<1>3. \A i \in Ids : /\ objects[i] \in Versions
                     /\ objects[i].kind = draft[i].kind
                     /\ exists(objects[i]) <=> exists(draft[i])
  BY <1>2 DEF OutcomeIsSound
<1>4. /\ \A t \in Terminals : objects[c].ends[t] \in {draft[c].ends[t], Free}
      /\ c \in affected =>
           \A t \in Terminals : objects[c].ends[t] # Free => exists(draft[objects[c].ends[t]])
  <2>1. OutcomeIsSound(canvas_, tx, a, places, affected, way, c)
    BY <1>2
  <2> QED BY <2>1 DEF OutcomeIsSound
<1> SUFFICES ASSUME NEW t \in Terminals, objects[c].ends[t] # Free
             PROVE  isShape(objects[objects[c].ends[t]])
  BY DEF validConnector
<1> DEFINE end == objects[c].ends[t]
<1>5. end = draft[c].ends[t]
  BY <1>4
<1>6. isConnector(draft[c])
  BY <1>3 DEF isConnector
<1>7. \/ isShape(draft[end])
      \/ ~exists(draft[end]) /\ c \in mustRoute(canvas_, tx, draft)
  BY <1>1, <1>5, <1>6, Dangling
<1>8. end \in Ids
  <2>1. objects[c] \in Objects
    BY <1>3, VersionKinds
  <2> HIDE DEF objects
  <2> QED BY <2>1 DEF Objects
<1>9. isShape(draft[end])
  BY <1>1, <1>4, <1>7
<1> HIDE DEF objects, draft
<1> QED BY <1>3, <1>8, <1>9 DEF isShape

\* What a command makes of a Diagram: the first version, or another content
\* of the same one.
LEMMA DiagramCommanded ==
  ASSUME NEW before \in DiagramVersions, NEW command \in DiagramCommands, NEW a \in Actors,
         command.type = "create" <=> ~exists(before)
  PROVE  LET after == diagramCommanded(before, command, a)
         IN /\ after \in Diagrams
            /\ ~exists(before) => after.editor = a
            /\ exists(before) => after.revision = before.revision
<1> DEFINE after == diagramCommanded(before, command, a)
<1>1. CASE command.type = "create"
  <2> DEFINE d == command.diagram
             n == 1
  <2>0. ~exists(before)
    BY <1>1
  <2>1. d \in Diagrams /\ n \in Nat \ {0}
    BY <1>1 DEF DiagramCommands
  <2>2. after = [d EXCEPT !.revision = n, !.editor = a]
    BY <1>1 DEF diagramCommanded
  <2> HIDE DEF d, n, after
  <2>3. after \in Diagrams
    BY <2>1, <2>2 DEF Diagrams
  <2>4. after.editor = a
    BY <2>1, <2>2 DEF Diagrams
  <2> QED BY <2>0, <2>3, <2>4 DEF after
<1>2. CASE command.type = "retitle"
  <2>1. before \in Diagrams /\ exists(before) /\ command.text \in Texts
    BY <1>2, DiagramKinds DEF DiagramCommands
  <2>2. after = [before EXCEPT !.text = command.text]
    BY <1>2 DEF diagramCommanded
  <2> HIDE DEF after
  <2>3. after \in Diagrams /\ after.revision = before.revision
    BY <2>1, <2>2 DEF Diagrams
  <2> QED BY <2>1, <2>3 DEF after
<1>3. CASE command.type = "arrange"
  <2>1. /\ before \in Diagrams /\ exists(before)
        /\ command.memberObjectIds \subseteq Ids /\ command.connectorIds \subseteq Ids
    BY <1>3, DiagramKinds DEF DiagramCommands
  <2>2. after = [before EXCEPT !.memberObjectIds = command.memberObjectIds,
                               !.connectorIds = command.connectorIds]
    BY <1>3 DEF diagramCommanded
  <2> HIDE DEF after
  <2>3. after \in Diagrams /\ after.revision = before.revision
    BY <2>1, <2>2 DEF Diagrams
  <2> QED BY <2>1, <2>3 DEF after
<1> QED BY <1>1, <1>2, <1>3 DEF DiagramCommands

\* A revised Diagram holds what it held.
LEMMA RevisedIsDiagram ==
  ASSUME NEW d \in Diagrams, NEW a \in Actors
  PROVE  /\ revised(d, a) \in Diagrams
         /\ revised(d, a).revision = d.revision + 1
         /\ revised(d, a).editor = a
         /\ revised(d, a).memberObjectIds = d.memberObjectIds
         /\ revised(d, a).connectorIds = d.connectorIds
<1> DEFINE n == d.revision + 1
<1>1. n \in Nat \ {0}
  BY DEF Diagrams
<1>2. revised(d, a) = [d EXCEPT !.revision = n, !.editor = a]
  BY DEF revised
<1> HIDE DEF n
<1>3. /\ revised(d, a).revision = n /\ revised(d, a).editor = a
      /\ revised(d, a).memberObjectIds = d.memberObjectIds
      /\ revised(d, a).connectorIds = d.connectorIds
  BY <1>2 DEF Diagrams
<1>4. revised(d, a) \in Diagrams
  BY <1>1, <1>2 DEF Diagrams
<1> QED BY <1>3, <1>4 DEF n

\* A Diagram after a transaction: the same, the next version, or gone with
\* what it held; and what it holds is there.
LEMMA DiagramOutcome ==
  ASSUME NEW canvas_, NEW tx, NEW a, NEW places, NEW affected, NEW way,
         Way(canvas_, tx, a, places, affected, way), NEW touched, NEW d \in Ids
  PROVE  LET objects == objectsAfter(tx, objectsDrafted(canvas_, tx, a, places), affected, way, a)
             before == canvas_.diagrams[d]
             after == diagramsAfter(canvas_, tx, objects, touched, a)[d]
         IN /\ after \in DiagramVersions
            /\ follows(before, after, a)
            /\ validMembers(objects, after)
            /\ contents(before) \cap touched # {} => after # before
<1> DEFINE objects == objectsAfter(tx, objectsDrafted(canvas_, tx, a, places), affected, way, a)
           before == canvas_.diagrams[d]
           after == diagramsAfter(canvas_, tx, objects, touched, a)[d]
           drafted == diagramsDrafted(canvas_, tx, a)[d]
           kept == IF d \in DOMAIN tx.diagramCommands THEN drafted
                   ELSE [drafted EXCEPT
                           !.memberObjectIds = {id \in @ : isShape(objects[id])},
                           !.connectorIds = {id \in @ : isConnector(objects[id])}]
<1>1. /\ Fits(canvas_, tx, a) /\ a \in Actors /\ isTransaction(tx)
      /\ before \in DiagramVersions
  BY DEF Way, Fits, Canvases, DiagramVersions
<1>2. after = IF exists(before) /\ (\/ d \in DOMAIN tx.diagramCommands
                                    \/ contents(before) \cap touched # {}
                                    \/ kept # before)
              THEN revised(kept, a) ELSE kept
  BY DEF diagramsAfter
<1>3. /\ kept \in DiagramVersions
      /\ exists(kept) <=> (exists(before) \/ d \in DOMAIN tx.diagramCommands)
      /\ exists(before) => kept.revision = before.revision
      /\ exists(kept) /\ ~exists(before) => kept.editor = a
      /\ ~exists(kept) => kept = before
      /\ validMembers(objects, kept)
  <2>1. CASE d \in DOMAIN tx.diagramCommands
    <3> DEFINE command == tx.diagramCommands[d]
    <3>1. /\ command \in DiagramCommands
          /\ command.type = "create" <=> ~exists(before)
          /\ validMembers(afterCommands(canvas_, tx, a), diagramCommanded(before, command, a))
      <4>1. command \in DiagramCommands
        BY <1>1, <2>1 DEF isTransaction
      <4>2. applyDiagramCommand(canvas_, tx, d, a)
        BY <1>1, <2>1 DEF Fits, semanticFits
      <4>3. command.type = "create" <=> ~exists(before)
        BY <4>2 DEF applyDiagramCommand
      <4>4. validMembers(afterCommands(canvas_, tx, a), diagramCommanded(before, command, a))
        BY <4>2 DEF applyDiagramCommand
      <4> QED BY <4>1, <4>3, <4>4
    <3>2. kept = diagramCommanded(before, command, a)
      BY <2>1 DEF diagramsDrafted
    <3> HIDE DEF command, kept, before
    <3>3. /\ kept \in Diagrams
          /\ ~exists(before) => kept.editor = a
          /\ exists(before) => kept.revision = before.revision
      BY <1>1, <3>1, <3>2, DiagramCommanded
    <3>4. kept \in DiagramVersions /\ exists(kept)
      BY <3>3, DiagramKinds DEF DiagramVersions
    <3>5. \A id \in Ids : objects[id].kind = afterCommands(canvas_, tx, a)[id].kind
      <4> TAKE id \in Ids
      <4>1. OutcomeIsSound(canvas_, tx, a, places, affected, way, id)
        BY Outcome
      <4>2. DraftIsSound(canvas_, tx, a, places, id)
        BY Drafted DEF Way
      <4> QED BY <4>1, <4>2 DEF OutcomeIsSound, DraftIsSound
    <3> HIDE DEF objects
    <3>6. validMembers(objects, kept)
      BY <3>1, <3>2, <3>3, <3>5 DEF validMembers, isShape, isConnector, Diagrams
    <3> QED BY <2>1, <3>3, <3>4, <3>6
  <2>2. CASE d \notin DOMAIN tx.diagramCommands
    <3> DEFINE m == {id \in before.memberObjectIds : isShape(objects[id])}
               l == {id \in before.connectorIds : isConnector(objects[id])}
    <3>1. kept = [before EXCEPT !.memberObjectIds = m, !.connectorIds = l]
      BY <2>2 DEF diagramsDrafted
    <3>2. /\ m \subseteq before.memberObjectIds /\ l \subseteq before.connectorIds
          /\ \A id \in m : isShape(objects[id])
          /\ \A id \in l : isConnector(objects[id])
      OBVIOUS
    <3> HIDE DEF m, l, kept, objects, before
    <3>3. CASE exists(before)
      <4>1. before \in Diagrams
        BY <1>1, <3>3, DiagramKinds
      <4>2. m \subseteq Ids /\ l \subseteq Ids
        BY <3>2, <4>1 DEF Diagrams
      <4>3. /\ kept.memberObjectIds = m /\ kept.connectorIds = l
            /\ kept.revision = before.revision
        BY <3>1, <4>1 DEF Diagrams
      <4>4. kept \in Diagrams
        BY <3>1, <4>1, <4>2 DEF Diagrams
      <4>5. kept \in DiagramVersions /\ exists(kept)
        BY <4>4, DiagramKinds DEF DiagramVersions
      <4>6. validMembers(objects, kept)
        BY <3>2, <4>3 DEF validMembers
      <4> QED BY <3>3, <4>3, <4>5, <4>6
    <3>4. CASE ~exists(before)
      <4>1. before = NoDiagram
        BY <1>1, <3>4, DiagramKinds
      <4>2. m = {} /\ l = {}
        BY <3>2, <4>1 DEF NoDiagram
      <4>3. kept = NoDiagram
        BY <3>1, <4>1, <4>2 DEF NoDiagram
      <4>4. validMembers(objects, NoDiagram)
        BY DEF validMembers, NoDiagram
      <4> QED BY <1>1, <2>2, <3>4, <4>1, <4>3, <4>4
    <3> QED BY <3>3, <3>4
  <2> QED BY <2>1, <2>2
<1> HIDE DEF kept, objects, before, after
<1>4. CASE after = revised(kept, a) /\ exists(before)
  <2>1. kept \in Diagrams
    BY <1>3, <1>4, DiagramKinds
  <2>2. /\ after \in Diagrams /\ after.revision = before.revision + 1 /\ after.editor = a
        /\ after.memberObjectIds = kept.memberObjectIds
        /\ after.connectorIds = kept.connectorIds
    BY <1>1, <1>3, <1>4, <2>1, RevisedIsDiagram
  <2>3. validMembers(objects, after)
    BY <1>3, <2>2 DEF validMembers
  <2>4. after.revision # before.revision
    <3>1. before.revision \in Nat
      BY <1>1, DiagramKinds
    <3> QED BY <2>2, <3>1
  <2> QED BY <2>2, <2>3, <2>4 DEF DiagramVersions, follows, objects, before, after
<1>5. CASE /\ after = kept
           /\ exists(before) => kept = before /\ contents(before) \cap touched = {}
  <2>1. follows(before, after, a)
    BY <1>3, <1>5 DEF follows
  <2>2. contents(before) \cap touched = {}
    BY <1>1, <1>5, DiagramKinds DEF contents
  <2> QED BY <1>3, <1>5, <2>1, <2>2 DEF objects, before, after
<1> QED BY <1>2, <1>4, <1>5

-----------------------------------------------------------------------------
(* What every activity of a leaves.                                        *)

\* The canvas is of its type and its references resolve, an entity is as it
\* was or the next version by a, and no object that another holds changed.
LeavesSound(x, a, after) ==
  /\ after \in Canvases
  /\ sound(after)
  /\ \A id \in Ids : /\ follows(x.objects[id], after.objects[id], a)
                     /\ follows(x.diagrams[id], after.diagrams[id], a)
                     /\ after.objects[id] # x.objects[id] => x.leases[id] \in {Nobody, a}

\* Everything a transaction can make of a sound canvas is sound.
LEMMA TransactionLeavesSound ==
  ASSUME NEW x \in Canvases, sound(x), NEW tx, isTransaction(tx), NEW a \in Actors,
         NEW after \in applySemanticTransaction(x, tx, a)
  PROVE  LeavesSound(x, a, after)
<1>1. PICK places, affected, way :
        /\ Way(x, tx, a, places, affected, way)
        /\ after = transacted(x, tx, objectsDrafted(x, tx, a, places), affected, way, a)
  BY TransactionGoesAWay
<1> DEFINE draft == objectsDrafted(x, tx, a, places)
           objects == objectsAfter(tx, draft, affected, way, a)
           touched == named(tx) \cup rerouted(tx, draft, affected, way)
           diagrams == diagramsAfter(x, tx, objects, touched, a)
           leases == [id \in Ids |-> IF exists(objects[id]) THEN x.leases[id] ELSE Nobody]
<1>2. after = [objects |-> objects, diagrams |-> diagrams, leases |-> leases]
  BY <1>1 DEF transacted
<1>3. \A id \in Ids :
        /\ objects[id] \in Versions
        /\ Succeeds(x.objects[id], objects[id], a)
        /\ objects[id] # x.objects[id] /\ exists(x.objects[id]) => mayChange(x, id, a)
  <2> TAKE id \in Ids
  <2>1. OutcomeIsSound(x, tx, a, places, affected, way, id)
    BY <1>1, Outcome
  <2> QED BY <2>1 DEF OutcomeIsSound
<1>4. \A d \in Ids : /\ diagrams[d] \in DiagramVersions
                     /\ follows(x.diagrams[d], diagrams[d], a)
                     /\ validMembers(objects, diagrams[d])
  <2> TAKE d \in Ids
  <2> QED BY <1>1, DiagramOutcome
<1>5. \A c \in Ids : isConnector(objects[c]) => validConnector(objects, objects[c])
  <2> TAKE c \in Ids
  <2>1. referencesResolve(x)
    BY DEF sound
  <2> QED BY <1>1, <2>1, ConnectorsResolve
<1>6. /\ objects \in [Ids -> Objects \cup {NoObject}]
      /\ diagrams \in [Ids -> Diagrams \cup {NoDiagram}]
      /\ leases \in [Ids -> Actors \cup {Nobody}]
  <2>1. objects \in [Ids -> Versions]
    BY <1>3 DEF objectsAfter
  <2>2. diagrams \in [Ids -> DiagramVersions]
    BY <1>4 DEF diagramsAfter
  <2>3. leases \in [Ids -> Actors \cup {Nobody}]
    BY DEF Canvases
  <2> QED BY <2>1, <2>2, <2>3 DEF Versions, DiagramVersions
<1>7. \A id \in Ids : leases[id] # Nobody => exists(objects[id])
  OBVIOUS
<1> HIDE DEF objects, diagrams, leases
<1>8. /\ after \in Canvases
      /\ after.objects = objects /\ after.diagrams = diagrams /\ after.leases = leases
  BY <1>2, <1>6 DEF Canvases
<1>9. sound(after)
  BY <1>4, <1>5, <1>7, <1>8 DEF sound, referencesResolve, connectorsOf
<1>10. \A id \in Ids : follows(x.objects[id], objects[id], a)
  BY <1>3 DEF Succeeds, follows
<1>11. \A id \in Ids : objects[id] # x.objects[id] => x.leases[id] \in {Nobody, a}
  BY <1>3 DEF mayChange, sound
<1> QED BY <1>4, <1>8, <1>9, <1>10, <1>11 DEF LeavesSound

\* Functions from some of the ids.
Partial(S) == UNION {[D -> S] : D \in SUBSET Ids}

ObjectChanges == [isDirect: BOOLEAN, before: Versions, after: Versions]
DiagramChanges == [before: DiagramVersions, after: DiagramVersions]
ActivityRecords == [actor: Actors, revertsActivityId: Nat,
                    objectChanges: Partial(ObjectChanges), diagramChanges: Partial(DiagramChanges)]

\* Their values are where they are defined.
LEMMA PartialFunctions ==
  ASSUME NEW S, NEW f \in Partial(S)
  PROVE  DOMAIN f \subseteq Ids /\ \A id \in DOMAIN f : f[id] \in S
BY DEF Partial

\* What a revert makes of an object is a version that follows the current one.
LEMMA RestoredObject ==
  ASSUME NEW current \in Versions, NEW before \in Versions, NEW a \in Actors
  PROVE  /\ restored(current, before, a) \in Versions
         /\ follows(current, restored(current, before, a), a)
<1>1. CASE ~exists(before)
  <2>1. restored(current, before, a) = before
    BY <1>1 DEF restored
  <2> QED BY <1>1, <2>1 DEF follows
<1>2. CASE exists(before)
  <2> DEFINE n == 1 + IF exists(current) THEN current.revision ELSE before.revision
             after == restored(current, before, a)
  <2>1. before \in Objects
    BY <1>2, VersionKinds
  <2>2. current.revision \in Nat /\ before.revision \in Nat
    BY VersionKinds
  <2>3. n \in Nat \ {0}
    BY <2>2 DEF exists
  <2>4. after = [before EXCEPT !.revision = n, !.editor = a]
    BY <1>2 DEF restored
  <2>5. exists(current) => n = current.revision + 1
    BY <2>2
  <2> HIDE DEF n, after
  <2>6. after.revision = n /\ after.editor = a
    BY <2>1, <2>4 DEF Objects
  <2>7. after \in Objects
    BY <2>1, <2>3, <2>4 DEF Objects
  <2> QED BY <2>5, <2>6, <2>7 DEF Versions, follows, after
<1> QED BY <1>1, <1>2

\* So is what it makes of a Diagram.
LEMMA RestoredDiagram ==
  ASSUME NEW current \in DiagramVersions, NEW before \in DiagramVersions, NEW a \in Actors
  PROVE  /\ restored(current, before, a) \in DiagramVersions
         /\ follows(current, restored(current, before, a), a)
<1>1. CASE ~exists(before)
  <2>1. restored(current, before, a) = before
    BY <1>1 DEF restored
  <2> QED BY <1>1, <2>1 DEF follows
<1>2. CASE exists(before)
  <2> DEFINE n == 1 + IF exists(current) THEN current.revision ELSE before.revision
             after == restored(current, before, a)
  <2>1. before \in Diagrams
    BY <1>2, DiagramKinds
  <2>2. current.revision \in Nat /\ before.revision \in Nat
    BY DiagramKinds
  <2>3. n \in Nat \ {0}
    BY <2>2 DEF exists
  <2>4. after = [before EXCEPT !.revision = n, !.editor = a]
    BY <1>2 DEF restored
  <2>5. exists(current) => n = current.revision + 1
    BY <2>2
  <2> HIDE DEF n, after
  <2>6. after.revision = n /\ after.editor = a
    BY <2>1, <2>4 DEF Diagrams
  <2>7. after \in Diagrams
    BY <2>1, <2>3, <2>4 DEF Diagrams
  <2> QED BY <2>5, <2>6, <2>7 DEF DiagramVersions, follows, after
<1> QED BY <1>1, <1>2

\* So is everything a revert can make of it.
LEMMA RevertLeavesSound ==
  ASSUME NEW x \in Canvases, sound(x), NEW activity \in ActivityRecords, NEW a \in Actors,
         NEW after \in applyActivityRevert(x, activity, a)
  PROVE  LeavesSound(x, a, after)
<1>1. /\ revertFits(x, activity, a)
      /\ \A id \in DOMAIN activity.objectChanges : exists(x.objects[id]) => mayChange(x, id, a)
      /\ after = reverted(x, activity, a)
  BY DEF applyActivityRevert
<1> DEFINE direct == {id \in DOMAIN activity.objectChanges : activity.objectChanges[id].isDirect}
           objects == [id \in Ids |->
                         IF id \in direct
                           THEN restored(x.objects[id], activity.objectChanges[id].before, a)
                           ELSE x.objects[id]]
           diagrams == [d \in Ids |->
                          IF d \in DOMAIN activity.diagramChanges
                            THEN restored(x.diagrams[d], activity.diagramChanges[d].before, a)
                            ELSE x.diagrams[d]]
           leases == [id \in Ids |-> IF exists(objects[id]) THEN x.leases[id] ELSE Nobody]
<1>2. after = [objects |-> objects, diagrams |-> diagrams, leases |-> leases]
  BY <1>1 DEF reverted
<1>3. /\ direct \subseteq DOMAIN activity.objectChanges
      /\ \A id \in DOMAIN activity.objectChanges : activity.objectChanges[id].before \in Versions
      /\ \A d \in DOMAIN activity.diagramChanges :
           activity.diagramChanges[d].before \in DiagramVersions
  <2>1. /\ activity.objectChanges \in Partial(ObjectChanges)
        /\ activity.diagramChanges \in Partial(DiagramChanges)
    BY DEF ActivityRecords
  <2>2. /\ \A id \in DOMAIN activity.objectChanges : activity.objectChanges[id] \in ObjectChanges
        /\ \A d \in DOMAIN activity.diagramChanges : activity.diagramChanges[d] \in DiagramChanges
    BY <2>1, PartialFunctions
  <2> QED BY <2>2 DEF ObjectChanges, DiagramChanges
<1>4. \A id \in Ids : x.objects[id] \in Versions /\ x.diagrams[id] \in DiagramVersions
  BY DEF Canvases, Versions, DiagramVersions
<1>5. \A id \in Ids : /\ objects[id] \in Versions
                      /\ follows(x.objects[id], objects[id], a)
                      /\ objects[id] # x.objects[id] => id \in direct
  <2> TAKE id \in Ids
  <2>1. CASE id \in direct
    <3>1. objects[id] = restored(x.objects[id], activity.objectChanges[id].before, a)
      BY <2>1
    <3> HIDE DEF objects, direct
    <3> QED BY <1>3, <1>4, <2>1, <3>1, RestoredObject
  <2>2. CASE id \notin direct
    <3>1. objects[id] = x.objects[id]
      BY <2>2
    <3> HIDE DEF objects, direct
    <3> QED BY <1>4, <3>1 DEF follows
  <2> QED BY <2>1, <2>2
<1>6. \A d \in Ids : /\ diagrams[d] \in DiagramVersions
                     /\ follows(x.diagrams[d], diagrams[d], a)
  <2> TAKE d \in Ids
  <2>1. CASE d \in DOMAIN activity.diagramChanges
    <3>1. diagrams[d] = restored(x.diagrams[d], activity.diagramChanges[d].before, a)
      BY <2>1
    <3> HIDE DEF diagrams
    <3> QED BY <1>3, <1>4, <2>1, <3>1, RestoredDiagram
  <2>2. CASE d \notin DOMAIN activity.diagramChanges
    <3>1. diagrams[d] = x.diagrams[d]
      BY <2>2
    <3> HIDE DEF diagrams
    <3> QED BY <1>4, <3>1 DEF follows
  <2> QED BY <2>1, <2>2
<1>7. /\ objects \in [Ids -> Objects \cup {NoObject}]
      /\ diagrams \in [Ids -> Diagrams \cup {NoDiagram}]
      /\ leases \in [Ids -> Actors \cup {Nobody}]
  <2>1. objects \in [Ids -> Versions]
    BY <1>5
  <2>2. diagrams \in [Ids -> DiagramVersions]
    BY <1>6
  <2>3. leases \in [Ids -> Actors \cup {Nobody}]
    BY DEF Canvases
  <2> QED BY <2>1, <2>2, <2>3 DEF Versions, DiagramVersions
<1>8. \A id \in Ids : leases[id] # Nobody => exists(objects[id])
  OBVIOUS
<1>9. \A id \in Ids : objects[id] # x.objects[id] => x.leases[id] \in {Nobody, a}
  <2> HIDE DEF objects, direct
  <2> QED BY <1>1, <1>3, <1>5 DEF mayChange, sound
<1> HIDE DEF objects, diagrams, leases, direct
<1>10. /\ after \in Canvases
       /\ after.objects = objects /\ after.diagrams = diagrams /\ after.leases = leases
  BY <1>2, <1>7 DEF Canvases
<1>11. referencesResolve(after)
  BY <1>1 DEF revertFits
<1>12. sound(after)
  BY <1>8, <1>10, <1>11 DEF sound
<1> QED BY <1>5, <1>6, <1>9, <1>10, <1>12 DEF LeavesSound

\* The record of a change between canvases is of its type.
LEMMA RecordIsActivity ==
  ASSUME NEW before \in Canvases, NEW after \in Canvases, NEW a \in Actors, NEW i \in Nat
  PROVE  LET activity == buildRoomActivity(before, after, a, i)
         IN activity \in ActivityRecords /\ activity.actor = a /\ activity.revertsActivityId = i
<1> DEFINE direct == {id \in Ids : before.objects[id] # after.objects[id]}
           moved == {id \in Ids : /\ exists(after.objects[id])
                                  /\ diagramIds(before, id) # diagramIds(after, id)}
           edited == {d \in Ids : before.diagrams[d] # after.diagrams[d]}
           objectChanges == [id \in direct \cup moved |->
                               [isDirect |-> id \in direct, before |-> before.objects[id],
                                                            after |-> after.objects[id]]]
           diagramChanges == [d \in edited |-> [before |-> before.diagrams[d],
                                                after |-> after.diagrams[d]]]
           activity == buildRoomActivity(before, after, a, i)
<1>1. activity = [actor |-> a, revertsActivityId |-> i,
                  objectChanges |-> objectChanges, diagramChanges |-> diagramChanges]
  BY DEF buildRoomActivity
<1>2. \A id \in Ids : /\ before.objects[id] \in Versions /\ after.objects[id] \in Versions
                      /\ before.diagrams[id] \in DiagramVersions
                      /\ after.diagrams[id] \in DiagramVersions
  BY DEF Canvases, Versions, DiagramVersions
<1>3. direct \cup moved \in SUBSET Ids /\ edited \in SUBSET Ids
  OBVIOUS
<1>4. objectChanges \in [direct \cup moved -> ObjectChanges]
  <2>1. ASSUME NEW id \in direct \cup moved
        PROVE  [isDirect |-> id \in direct, before |-> before.objects[id],
                after |-> after.objects[id]] \in ObjectChanges
    <3>1. id \in Ids
      BY <1>3
    <3>2. (id \in direct) \in BOOLEAN
      OBVIOUS
    <3> HIDE DEF direct, moved
    <3> QED BY <1>2, <3>1, <3>2 DEF ObjectChanges
  <2> HIDE DEF direct, moved
  <2> QED BY <2>1
<1>5. diagramChanges \in [edited -> DiagramChanges]
  <2>1. ASSUME NEW d \in edited
        PROVE  [before |-> before.diagrams[d], after |-> after.diagrams[d]] \in DiagramChanges
    <3>1. d \in Ids
      BY <1>3
    <3> HIDE DEF edited
    <3> QED BY <1>2, <3>1 DEF DiagramChanges
  <2> HIDE DEF edited
  <2> QED BY <2>1
<1> HIDE DEF direct, moved, edited, objectChanges, diagramChanges, activity
<1>6. objectChanges \in Partial(ObjectChanges) /\ diagramChanges \in Partial(DiagramChanges)
  BY <1>3, <1>4, <1>5 DEF Partial
<1> QED BY <1>1, <1>6 DEF ActivityRecords, activity

-----------------------------------------------------------------------------
(* The inductive invariant.                                                *)

RequestRecords == {transaction(tx) : tx \in Proposals} \cup {reversal(i) : i \in Nat}
Guards == [objects: Partial(Versions), diagrams: Partial(DiagramVersions)]
ProposalRecords == [id: Nat, status: {"pending", "applied", "rejected"}, author: Agents,
                    request: RequestRecords, targetGuards: Guards, activityId: Nat]

HistoryOK ==
  /\ activities \in Seq(ActivityRecords)
  /\ \A n \in 1..Len(activities) : activities[n].revertsActivityId \in 0..(n - 1)

QueueOK ==
  /\ reviewProposals \in Seq(ProposalRecords)
  /\ \A i \in 1..Len(reviewProposals) :
       /\ reviewProposals[i].request \in Requests(Proposals)
       /\ reviewProposals[i].activityId \in 0..Len(activities)

CanvasInv ==
  /\ canvas \in Canvases
  /\ sound(canvas)
  /\ agentEditPolicy \in {"live", "review"}
  /\ HistoryOK
  /\ QueueOK

\* It has the type correctness that the runs check.
LEMMA InvType == CanvasInv => CanvasTypeOK
<1> SUFFICES ASSUME CanvasInv PROVE CanvasTypeOK
  OBVIOUS
<1>1. ASSUME NEW n \in DOMAIN activities
      PROVE  /\ activities[n].actor \in Actors
             /\ activities[n].revertsActivityId \in 0..(n - 1)
             /\ DOMAIN activities[n].objectChanges \subseteq Ids
             /\ DOMAIN activities[n].diagramChanges \subseteq Ids
             /\ \A change \in Range(activities[n].objectChanges) :
                  change \in [isDirect: BOOLEAN, before: Versions, after: Versions]
             /\ \A change \in Range(activities[n].diagramChanges) :
                  change \in [before: DiagramVersions, after: DiagramVersions]
  <2>1. n \in 1..Len(activities) /\ activities[n] \in ActivityRecords
    BY DEF CanvasInv, HistoryOK
  <2>2. /\ activities[n].actor \in Actors
        /\ activities[n].objectChanges \in Partial(ObjectChanges)
        /\ activities[n].diagramChanges \in Partial(DiagramChanges)
    BY <2>1 DEF ActivityRecords
  <2>3. activities[n].revertsActivityId \in 0..(n - 1)
    BY <2>1 DEF CanvasInv, HistoryOK
  <2>4. /\ DOMAIN activities[n].objectChanges \subseteq Ids
        /\ \A id \in DOMAIN activities[n].objectChanges :
             activities[n].objectChanges[id] \in ObjectChanges
    BY <2>2, PartialFunctions
  <2>5. /\ DOMAIN activities[n].diagramChanges \subseteq Ids
        /\ \A d \in DOMAIN activities[n].diagramChanges :
             activities[n].diagramChanges[d] \in DiagramChanges
    BY <2>2, PartialFunctions
  <2>6. \A change \in Range(activities[n].objectChanges) :
          change \in [isDirect: BOOLEAN, before: Versions, after: Versions]
    BY <2>4 DEF Range, ObjectChanges
  <2>7. \A change \in Range(activities[n].diagramChanges) :
          change \in [before: DiagramVersions, after: DiagramVersions]
    BY <2>5 DEF Range, DiagramChanges
  <2> QED BY <2>2, <2>3, <2>4, <2>5, <2>6, <2>7
<1>2. ASSUME NEW p \in Range(reviewProposals)
      PROVE  /\ p.status \in {"pending", "applied", "rejected"}
             /\ p.author \in Agents
             /\ p.request \in Requests(Proposals)
             /\ p.activityId \in 0..Len(activities)
  <2>1. PICK i \in 1..Len(reviewProposals) : p = reviewProposals[i]
    BY DEF CanvasInv, QueueOK, Range
  <2>2. reviewProposals[i] \in ProposalRecords
    BY DEF CanvasInv, QueueOK
  <2> QED BY <2>1, <2>2 DEF CanvasInv, QueueOK, ProposalRecords
<1> QED BY <1>1, <1>2 DEF CanvasTypeOK, CanvasInv

\* A request is a transaction that may be asked, or names an activity there is.
LEMMA RequestKinds ==
  ASSUME NEW txs, NEW request \in Requests(txs)
  PROVE  \/ /\ request.kind = "semantic_transaction"
            /\ \E tx \in txs : request = transaction(tx) /\ request.transaction = tx
         \/ /\ request.kind = "activity_revert"
            /\ \E i \in 1..Len(activities) : request = reversal(i) /\ request.activityId = i
BY DEF Requests, transaction, reversal

\* What the canvas came to by: a transaction, or the compensation of an
\* activity.
Transacted(a, i) ==
  /\ i = None
  /\ \E tx \in Transactions : canvas' \in applySemanticTransaction(canvas, tx, a)
Reversed(a, i) ==
  /\ i \in 1..Len(activities)
  /\ canvas' \in applyActivityRevert(canvas, activities[i], a)

\* What applying a request does: the canvas it leaves is sound, and the
\* history grows by its record.
ActivityOf(a) ==
  /\ LeavesSound(canvas, a, canvas')
  /\ Transacted(a, latest'.revertsActivityId) \/ Reversed(a, latest'.revertsActivityId)
  /\ latest' = buildRoomActivity(canvas, canvas', a, latest'.revertsActivityId)
  /\ activities' \in Seq(ActivityRecords)
  /\ Len(activities') = Len(activities) + 1
  /\ \A n \in 1..Len(activities) : activities'[n] = activities[n]
  /\ latest'.actor = a
  /\ latest'.revertsActivityId \in 0..Len(activities)
  /\ HistoryOK'

\* Applying a request, asked for directly or by a proposal, is an activity of
\* its author.
LEMMA ApplyRecords ==
  ASSUME CanvasInv, NEW a \in Actors, NEW request \in Requests(Transactions), Apply(request, a)
  PROVE  ActivityOf(a)
<1>1. /\ canvas \in Canvases /\ sound(canvas) /\ HistoryOK
      /\ Len(activities) \in Nat
  BY DEF CanvasInv, HistoryOK
<1>2. LeavesSound(canvas, a, canvas')
  <2>1. CASE request.kind = "semantic_transaction"
    <3>1. /\ isTransaction(request.transaction)
          /\ canvas' \in applySemanticTransaction(canvas, request.transaction, a)
      BY <2>1, RequestKinds, CanvasAssumption DEF Apply, results
    <3> QED BY <1>1, <3>1, TransactionLeavesSound
  <2>2. CASE request.kind = "activity_revert"
    <3>1. /\ request.activityId \in 1..Len(activities)
          /\ canvas' \in applyActivityRevert(canvas, activities[request.activityId], a)
      BY <2>2, RequestKinds DEF Apply, results
    <3>2. activities[request.activityId] \in ActivityRecords
      BY <1>1, <3>1 DEF HistoryOK
    <3> QED BY <1>1, <3>1, <3>2, RevertLeavesSound
  <2> QED BY <2>1, <2>2, RequestKinds
<1> DEFINE i == revertsActivityId(request)
           activity == buildRoomActivity(canvas, canvas', a, i)
<1>0. Transacted(a, i) \/ Reversed(a, i)
  <2>1. CASE request.kind = "semantic_transaction"
    <3>1. PICK tx \in Transactions : request.transaction = tx
      BY <2>1, RequestKinds
    <3>2. canvas' \in applySemanticTransaction(canvas, tx, a) /\ i = None
      BY <2>1, <3>1 DEF Apply, results, revertsActivityId
    <3> QED BY <3>2 DEF Transacted
  <2>2. CASE request.kind = "activity_revert"
    <3>1. /\ request.activityId \in 1..Len(activities) /\ i = request.activityId
          /\ canvas' \in applyActivityRevert(canvas, activities[request.activityId], a)
      BY <2>2, RequestKinds DEF Apply, results, revertsActivityId
    <3> QED BY <3>1 DEF Reversed
  <2> QED BY <2>1, <2>2, RequestKinds
<1>3. i \in 0..Len(activities)
  BY <1>1, RequestKinds DEF revertsActivityId, None
<1>4. activity \in ActivityRecords /\ activity.actor = a /\ activity.revertsActivityId = i
  <2>1. canvas' \in Canvases
    BY <1>2 DEF LeavesSound
  <2> QED BY <1>1, <1>3, <2>1, RecordIsActivity
<1>5. activities' = Append(activities, activity)
  BY DEF Apply
<1> HIDE DEF activity, i
<1>6. /\ activities' \in Seq(ActivityRecords)
      /\ Len(activities') = Len(activities) + 1
      /\ \A n \in 1..Len(activities) : activities'[n] = activities[n]
      /\ activities'[Len(activities) + 1] = activity
  BY <1>1, <1>4, <1>5, AppendProperties DEF HistoryOK
<1>7. latest' = activity
  BY <1>6 DEF latest
<1>8. \A n \in 1..Len(activities') : activities'[n].revertsActivityId \in 0..(n - 1)
  <2> TAKE n \in 1..Len(activities')
  <2>1. CASE n \in 1..Len(activities)
    BY <1>1, <1>6, <2>1 DEF HistoryOK
  <2>2. CASE n = Len(activities) + 1
    BY <1>1, <1>3, <1>4, <1>6, <2>2
  <2> QED BY <1>1, <1>6, <2>1, <2>2
<1>9. HistoryOK'
  BY <1>6, <1>8 DEF HistoryOK
<1>10. latest' = buildRoomActivity(canvas, canvas', a, latest'.revertsActivityId)
  BY <1>4, <1>7 DEF activity
<1> QED BY <1>0, <1>2, <1>3, <1>4, <1>6, <1>7, <1>9, <1>10 DEF ActivityOf

\* The queue's entries stay what they are while the history grows.
LEMMA RequestsGrow ==
  ASSUME Len(activities) \in Nat, Len(activities') \in Nat, Len(activities') >= Len(activities),
         NEW txs
  PROVE  Requests(txs) \subseteq Requests(txs)'
BY DEF Requests

\* The canvases a room may start with have the invariant.
LEMMA InitInv == Init => CanvasInv
<1> SUFFICES ASSUME Init PROVE CanvasInv
  OBVIOUS
<1>1. canvas \in Canvases /\ sound(canvas)
  BY CanvasAssumption DEF Init
<1>2. HistoryOK
  BY DEF Init, HistoryOK
<1>3. QueueOK
  BY DEF Init, QueueOK
<1> QED BY <1>1, <1>2, <1>3 DEF CanvasInv, Init

\* A request applied at once keeps it, and is not one that must be proposed.
LEMMA TransactStep ==
  ASSUME CanvasInv, NEW a \in Actors, NEW request \in Requests(Transactions), Transact(a, request)
  PROVE  CanvasInv' /\ ActivityOf(a) /\ ~mustPropose(a) /\ UNCHANGED reviewProposals
<1>1. ActivityOf(a)
  BY ApplyRecords DEF Transact
<1>2. canvas' \in Canvases /\ sound(canvas)'
  BY <1>1 DEF ActivityOf, LeavesSound, sound
<1>3. HistoryOK'
  BY <1>1 DEF ActivityOf
<1>4. Len(activities) \in Nat /\ Len(activities') = Len(activities) + 1
  BY <1>1 DEF ActivityOf, CanvasInv, HistoryOK
<1>5. UNCHANGED <<agentEditPolicy, reviewProposals>> /\ ~mustPropose(a)
  BY DEF Transact
<1>6. Requests(Proposals) \subseteq Requests(Proposals)'
  BY <1>4, RequestsGrow
<1>7. QueueOK'
  BY <1>4, <1>5, <1>6 DEF CanvasInv, QueueOK
<1> QED BY <1>1, <1>2, <1>3, <1>5, <1>7 DEF CanvasInv

\* Deciding a proposal changes its status and its activity, and no other.
LEMMA Decided ==
  ASSUME CanvasInv, NEW i \in DOMAIN reviewProposals,
         NEW status \in {"applied", "rejected"}, NEW n \in Nat, decide(i, status, n)
  PROVE  /\ reviewProposals' \in Seq(ProposalRecords)
         /\ Len(reviewProposals') = Len(reviewProposals)
         /\ reviewProposals'[i].status = status /\ reviewProposals'[i].activityId = n
         /\ \A j \in 1..Len(reviewProposals) :
              /\ reviewProposals'[j].id = reviewProposals[j].id
              /\ reviewProposals'[j].request = reviewProposals[j].request
              /\ reviewProposals'[j].activityId \in {reviewProposals[j].activityId, n}
<1>1. reviewProposals \in Seq(ProposalRecords) /\ i \in 1..Len(reviewProposals)
  BY DEF CanvasInv, QueueOK
<1>2. reviewProposals[i] \in ProposalRecords
  BY <1>1
<1> DEFINE p == [reviewProposals[i] EXCEPT !.status = status, !.activityId = n]
<1>3. reviewProposals' = [reviewProposals EXCEPT ![i] = p]
  BY DEF decide
<1>4. /\ p \in ProposalRecords /\ p.status = status /\ p.activityId = n
      /\ p.id = reviewProposals[i].id /\ p.request = reviewProposals[i].request
  BY <1>2 DEF ProposalRecords
<1> HIDE DEF p
<1>5. /\ reviewProposals' \in Seq(ProposalRecords)
      /\ Len(reviewProposals') = Len(reviewProposals)
      /\ reviewProposals'[i] = p
      /\ \A j \in 1..Len(reviewProposals) : j # i => reviewProposals'[j] = reviewProposals[j]
  BY <1>1, <1>3, <1>4
<1> QED BY <1>4, <1>5

\* Approving a proposal keeps it, as an activity of the proposal's author.
LEMMA ApproveStep ==
  ASSUME CanvasInv, NEW i \in DOMAIN reviewProposals, Approve(i)
  PROVE  /\ CanvasInv' /\ ActivityOf(reviewProposals[i].author)
         /\ reviewProposals[i].status = "pending" /\ reviewProposals'[i].status = "applied"
         /\ \A j \in 1..Len(reviewProposals) : reviewProposals'[j].id = reviewProposals[j].id
         /\ reviewProposals \in Seq(ProposalRecords)
         /\ reviewProposals' \in Seq(ProposalRecords)
         /\ Len(reviewProposals') = Len(reviewProposals)
<1> DEFINE p == reviewProposals[i]
<1>1. /\ i \in 1..Len(reviewProposals) /\ reviewProposals \in Seq(ProposalRecords)
      /\ p \in ProposalRecords /\ p.request \in Requests(Proposals)
  BY DEF CanvasInv, QueueOK
<1>2. p.author \in Actors /\ p.request \in Requests(Transactions)
  BY <1>1, CanvasAssumption DEF ProposalRecords, Requests
<1>3. /\ p.status = "pending" /\ Apply(p.request, p.author)
      /\ decide(i, "applied", Len(activities')) /\ UNCHANGED agentEditPolicy
  BY DEF Approve
<1> HIDE DEF p
<1>4. ActivityOf(p.author)
  BY <1>2, <1>3, ApplyRecords
<1>5. canvas' \in Canvases /\ sound(canvas)' /\ HistoryOK'
  BY <1>4 DEF ActivityOf, LeavesSound, sound
<1>6. Len(activities) \in Nat /\ Len(activities') = Len(activities) + 1
  BY <1>4 DEF ActivityOf, CanvasInv, HistoryOK
<1>7. Requests(Proposals) \subseteq Requests(Proposals)'
  BY <1>6, RequestsGrow
<1>8. /\ reviewProposals' \in Seq(ProposalRecords)
      /\ Len(reviewProposals') = Len(reviewProposals)
      /\ reviewProposals'[i].status = "applied"
      /\ \A j \in 1..Len(reviewProposals) :
           /\ reviewProposals'[j].id = reviewProposals[j].id
           /\ reviewProposals'[j].request = reviewProposals[j].request
           /\ reviewProposals'[j].activityId \in {reviewProposals[j].activityId, Len(activities')}
  BY <1>3, <1>6, Decided
<1>9. QueueOK'
  <2>1. ASSUME NEW j \in 1..Len(reviewProposals')
        PROVE  /\ reviewProposals'[j].request \in Requests(Proposals)'
               /\ reviewProposals'[j].activityId \in 0..Len(activities')
    <3>1. /\ reviewProposals[j].request \in Requests(Proposals)
          /\ reviewProposals[j].activityId \in 0..Len(activities)
      BY <1>8, <2>1 DEF CanvasInv, QueueOK
    <3>2. reviewProposals'[j].request \in Requests(Proposals)'
      BY <1>7, <1>8, <2>1, <3>1
    <3>3. reviewProposals'[j].activityId \in {reviewProposals[j].activityId, Len(activities')}
      BY <1>8, <2>1
    <3> QED BY <1>6, <3>1, <3>2, <3>3
  <2> QED BY <1>8, <2>1 DEF QueueOK
<1> QED BY <1>1, <1>3, <1>4, <1>5, <1>8, <1>9 DEF CanvasInv, p

\* Rejecting one changes nothing but that proposal.
LEMMA RejectStep ==
  ASSUME CanvasInv, NEW i \in DOMAIN reviewProposals, Reject(i)
  PROVE  /\ CanvasInv'
         /\ \A j \in 1..Len(reviewProposals) : reviewProposals'[j].id = reviewProposals[j].id
         /\ reviewProposals \in Seq(ProposalRecords)
         /\ reviewProposals' \in Seq(ProposalRecords)
         /\ Len(reviewProposals') = Len(reviewProposals)
<1>1. UNCHANGED <<canvas, agentEditPolicy, activities>> /\ decide(i, "rejected", 0)
  BY DEF Reject, None
<1>2. /\ reviewProposals' \in Seq(ProposalRecords)
      /\ Len(reviewProposals') = Len(reviewProposals)
      /\ \A j \in 1..Len(reviewProposals) :
           /\ reviewProposals'[j].id = reviewProposals[j].id
           /\ reviewProposals'[j].request = reviewProposals[j].request
           /\ reviewProposals'[j].activityId \in {reviewProposals[j].activityId, 0}
  BY <1>1, Decided
<1>3. canvas' \in Canvases /\ sound(canvas)' /\ HistoryOK' /\ Len(activities) \in Nat
  <2>1. HistoryOK' /\ Len(activities) \in Nat
    BY <1>1 DEF CanvasInv, HistoryOK
  <2>2. canvas' = canvas /\ canvas \in Canvases /\ sound(canvas)
    BY <1>1 DEF CanvasInv
  <2>3. canvas' \in Canvases /\ sound(canvas')
    BY <2>2
  <2> QED BY <2>1, <2>3
<1>4. Requests(Proposals)' = Requests(Proposals)
  BY <1>1 DEF Requests
<1>5. QueueOK'
  BY <1>1, <1>2, <1>3, <1>4 DEF CanvasInv, QueueOK
<1> QED BY <1>1, <1>2, <1>3, <1>5 DEF CanvasInv, QueueOK

\* Leases come and go with everything else as it is.
LEMMA LeaseStep ==
  ASSUME CanvasInv, NEW leases \in [Ids -> Actors \cup {Nobody}],
         \A id \in Ids : leases[id] # Nobody => exists(canvas.objects[id]),
         canvas' = [canvas EXCEPT !.leases = leases],
         UNCHANGED <<agentEditPolicy, activities, reviewProposals>>
  PROVE  CanvasInv' /\ canvas'.objects = canvas.objects /\ canvas'.diagrams = canvas.diagrams
<1>1. /\ canvas' \in Canvases
      /\ canvas'.objects = canvas.objects /\ canvas'.diagrams = canvas.diagrams
      /\ canvas'.leases = leases
  BY DEF CanvasInv, Canvases
<1>2. sound(canvas')
  <2>1. referencesResolve(canvas) /\ canvas \in Canvases
    BY DEF CanvasInv, sound
  <2>2. \A c \in connectorsOf(canvas'.objects) : validConnector(canvas'.objects, canvas'.objects[c])
    BY <1>1, <2>1 DEF referencesResolve
  <2>3. \A d \in Ids : validMembers(canvas'.objects, canvas'.diagrams[d])
    BY <1>1, <2>1 DEF referencesResolve
  <2> QED BY <1>1, <2>2, <2>3 DEF sound, referencesResolve
<1>3. HistoryOK' /\ QueueOK'
  BY DEF CanvasInv, HistoryOK, QueueOK, Requests
<1> QED BY <1>1, <1>2, <1>3 DEF CanvasInv, sound

\* Taking leases, renewing them included, keeps it.
LEMMA AcquireStep ==
  ASSUME CanvasInv, NEW a \in Actors, NEW targets, acquireObjectLeases(a, targets)
  PROVE  CanvasInv' /\ canvas'.objects = canvas.objects /\ canvas'.diagrams = canvas.diagrams
<1> DEFINE leases == [id \in Ids |-> IF id \in targets THEN a ELSE canvas.leases[id]]
<1>1. /\ canvas' = [canvas EXCEPT !.leases = leases]
      /\ UNCHANGED <<agentEditPolicy, activities, reviewProposals>>
      /\ \A id \in targets : exists(canvas.objects[id])
  BY DEF acquireObjectLeases
<1>2. canvas.leases \in [Ids -> Actors \cup {Nobody}]
      /\ \A id \in Ids : canvas.leases[id] # Nobody => exists(canvas.objects[id])
  BY DEF CanvasInv, Canvases, sound
<1>3. /\ leases \in [Ids -> Actors \cup {Nobody}]
      /\ \A id \in Ids : leases[id] # Nobody => exists(canvas.objects[id])
  BY <1>1, <1>2
<1> HIDE DEF leases
<1> QED BY <1>1, <1>3, LeaseStep

\* Giving leases back keeps it.
LEMMA ReleaseStep ==
  ASSUME CanvasInv, NEW a, NEW targets, releaseObjectLeases(a, targets)
  PROVE  CanvasInv' /\ canvas'.objects = canvas.objects /\ canvas'.diagrams = canvas.diagrams
<1> DEFINE leases == [id \in Ids |-> IF id \in targets THEN Nobody ELSE canvas.leases[id]]
<1>1. /\ canvas' = [canvas EXCEPT !.leases = leases]
      /\ UNCHANGED <<agentEditPolicy, activities, reviewProposals>>
  BY DEF releaseObjectLeases
<1>2. canvas.leases \in [Ids -> Actors \cup {Nobody}]
      /\ \A id \in Ids : canvas.leases[id] # Nobody => exists(canvas.objects[id])
  BY DEF CanvasInv, Canvases, sound
<1>3. /\ leases \in [Ids -> Actors \cup {Nobody}]
      /\ \A id \in Ids : leases[id] # Nobody => exists(canvas.objects[id])
  BY <1>2
<1> HIDE DEF leases
<1> QED BY <1>1, <1>3, LeaseStep

\* Leases that run out keep it.
LEMMA ExpireStep ==
  ASSUME CanvasInv, NEW id \in Ids, Expire(id)
  PROVE  CanvasInv' /\ canvas'.objects = canvas.objects /\ canvas'.diagrams = canvas.diagrams
<1> DEFINE leases == [canvas.leases EXCEPT ![id] = Nobody]
<1>1. /\ canvas' = [canvas EXCEPT !.leases = leases]
      /\ UNCHANGED <<agentEditPolicy, activities, reviewProposals>>
  BY DEF Expire
<1>2. canvas.leases \in [Ids -> Actors \cup {Nobody}]
      /\ \A i \in Ids : canvas.leases[i] # Nobody => exists(canvas.objects[i])
  BY DEF CanvasInv, Canvases, sound
<1>3. /\ leases \in [Ids -> Actors \cup {Nobody}]
      /\ \A i \in Ids : leases[i] # Nobody => exists(canvas.objects[i])
  BY <1>2
<1> HIDE DEF leases
<1> QED BY <1>1, <1>3, LeaseStep

\* Another review policy changes nothing else.
LEMMA PolicyStep ==
  ASSUME CanvasInv, NEW a, NEW policy \in {"live", "review"}, setAgentEditPolicy(a, policy)
  PROVE  CanvasInv' /\ UNCHANGED <<canvas, activities, reviewProposals>>
<1>1. agentEditPolicy' = policy /\ UNCHANGED <<canvas, activities, reviewProposals>>
  BY DEF setAgentEditPolicy
<1>2. HistoryOK' /\ QueueOK'
  BY <1>1 DEF CanvasInv, HistoryOK, QueueOK, Requests
<1>3. canvas' = canvas /\ canvas \in Canvases /\ sound(canvas)
  BY <1>1 DEF CanvasInv
<1>4. canvas' \in Canvases /\ sound(canvas')
  BY <1>3
<1> QED BY <1>1, <1>2, <1>4 DEF CanvasInv

-----------------------------------------------------------------------------
(* The queue.                                                              *)

\* The last of some places in a sequence.
LEMMA LastPlace ==
  ASSUME NEW n \in Nat, NEW K \in SUBSET (1..n), K # {}
  PROVE  (CHOOSE i \in K : \A j \in K : j <= i) \in K
<1> DEFINE S == {n - k : k \in K}
<1>1. S \subseteq Nat /\ S # {}
  <2>1. \A t \in S : t \in Nat
    OBVIOUS
  <2> QED BY <2>1
<1>2. PICK s \in S : \A t \in S : ~(<<t, s>> \in OpToRel(<, Nat))
  <2> HIDE DEF S
  <2> QED BY <1>1, NatLessThanWellFounded, WFMin
<1>3. \A t \in S : ~(t < s)
  BY <1>1, <1>2 DEF OpToRel
<1>4. PICK k \in K : s = n - k
  OBVIOUS
<1>5. \A l \in K : l <= k
  <2> TAKE l \in K
  <2>1. ~(n - l < n - k)
    BY <1>3, <1>4
  <2>2. k \in Int /\ l \in Int
    OBVIOUS
  <2> QED BY <2>1, <2>2
<1> QED BY <1>5

\* Removing an entry keeps the others.
LEMMA Removed ==
  ASSUME NEW S, NEW s \in Seq(S), NEW i \in 1..Len(s)
  PROVE  /\ RemoveAt(s, i) \in Seq(S)
         /\ \A j \in 1..Len(s) : j # i =>
              \E k \in 1..Len(RemoveAt(s, i)) : RemoveAt(s, i)[k] = s[j]
         /\ \A k \in 1..Len(RemoveAt(s, i)) : \E j \in 1..Len(s) : RemoveAt(s, i)[k] = s[j]
<1> DEFINE front == SubSeq(s, 1, i - 1)
           back == SubSeq(s, i + 1, Len(s))
<1>1. i \in Int /\ Len(s) \in Nat /\ i - 1 \in Int /\ i + 1 \in Int /\ \A j \in 1..Len(s) : s[j] \in S
  OBVIOUS
<1>2. /\ front \in Seq(S) /\ Len(front) = i - 1
      /\ \A k \in 1..(i - 1) : front[k] = s[k]
  <2>1. \A j \in 1..(i - 1) : s[j] \in S
    BY <1>1
  <2>2. /\ SubSeq(s, 1, i - 1) \in Seq(S)
        /\ Len(SubSeq(s, 1, i - 1)) = IF 1 <= i - 1 THEN (i - 1) - 1 + 1 ELSE 0
        /\ \A k \in 1..((i - 1) - 1 + 1) : SubSeq(s, 1, i - 1)[k] = s[1 + k - 1]
    BY <1>1, <2>1, SubSeqProperties
  <2> QED BY <1>1, <2>2
<1>3. /\ back \in Seq(S) /\ Len(back) = Len(s) - i
      /\ \A k \in 1..(Len(s) - i) : back[k] = s[i + k]
  <2>1. \A j \in (i + 1)..Len(s) : s[j] \in S
    BY <1>1
  <2>2. /\ SubSeq(s, i + 1, Len(s)) \in Seq(S)
        /\ Len(SubSeq(s, i + 1, Len(s))) = IF i + 1 <= Len(s) THEN Len(s) - (i + 1) + 1 ELSE 0
        /\ \A k \in 1..(Len(s) - (i + 1) + 1) : SubSeq(s, i + 1, Len(s))[k] = s[(i + 1) + k - 1]
    BY <1>1, <2>1, SubSeqProperties
  <2> QED BY <1>1, <2>2
<1>4. RemoveAt(s, i) = front \o back
  BY DEF RemoveAt
<1> HIDE DEF front, back
<1> DEFINE r == front \o back
<1>5. /\ r \in Seq(S) /\ Len(r) = Len(s) - 1
      /\ \A k \in 1..(i - 1) : r[k] = s[k]
      /\ \A k \in i..(Len(s) - 1) : r[k] = s[k + 1]
  <2>1. /\ r \in Seq(S) /\ Len(r) = Len(front) + Len(back)
        /\ \A k \in 1..(Len(front) + Len(back)) : r[k] = IF k <= Len(front) THEN front[k] ELSE back[k - Len(front)]
    BY <1>2, <1>3, ConcatProperties
  <2>2. Len(r) = Len(s) - 1
    BY <1>1, <1>2, <1>3, <2>1
  <2>3. \A k \in 1..(i - 1) : r[k] = s[k]
    BY <1>1, <1>2, <2>1, <2>2
  <2>4. ASSUME NEW k \in i..(Len(s) - 1) PROVE r[k] = s[k + 1]
    <3>1. r[k] = back[k - (i - 1)]
      BY <1>1, <1>2, <2>1, <2>2
    <3>2. k - (i - 1) \in 1..(Len(s) - i) /\ i + (k - (i - 1)) = k + 1
      BY <1>1
    <3> QED BY <1>3, <3>1, <3>2
  <2> QED BY <2>1, <2>2, <2>3, <2>4
<1> HIDE DEF r
<1>6. ASSUME NEW j \in 1..Len(s), j # i
      PROVE  \E k \in 1..Len(r) : r[k] = s[j]
  <2>1. CASE j < i
    BY <1>1, <1>5, <2>1
  <2>2. CASE j > i
    <3>1. j - 1 \in i..(Len(s) - 1) /\ j - 1 \in 1..Len(r) /\ (j - 1) + 1 = j
      BY <1>1, <1>5, <2>2
    <3> QED BY <1>5, <3>1
  <2> QED BY <1>1, <1>6, <2>1, <2>2
<1>7. ASSUME NEW k \in 1..Len(r)
      PROVE  \E j \in 1..Len(s) : r[k] = s[j]
  <2>1. CASE k < i
    BY <1>1, <1>5, <2>1
  <2>2. CASE k >= i
    BY <1>1, <1>5, <2>2
  <2> QED BY <1>1, <2>1, <2>2
<1> QED BY <1>4, <1>5, <1>6, <1>7 DEF r

\* What a proposal guards is versions of objects and Diagrams.
LEMMA GuardsAreTyped ==
  ASSUME canvas \in Canvases, NEW request \in Requests(Proposals)
  PROVE  targetGuards(request) \in Guards
<1>1. \A id \in Ids : canvas.objects[id] \in Versions /\ canvas.diagrams[id] \in DiagramVersions
  BY DEF Canvases, Versions, DiagramVersions
<1>2. CASE request.kind = "activity_revert"
  <2>1. targetGuards(request) = [objects |-> <<>>, diagrams |-> <<>>]
    BY <1>2 DEF targetGuards
  <2>2. \A S : <<>> \in [{} -> S]
    OBVIOUS
  <2>3. \A S : <<>> \in Partial(S)
    BY <2>2 DEF Partial
  <2> QED BY <2>1, <2>3 DEF Guards
<1>3. CASE request.kind = "semantic_transaction"
  <2>1. PICK tx \in Proposals : request.transaction = tx /\ isTransaction(tx)
    BY <1>3, RequestKinds, CanvasAssumption
  <2> DEFINE members == UNION {LET command == tx.diagramCommands[d] IN
                               CASE command.type = "create"  -> contents(command.diagram)
                                 [] command.type = "arrange" -> contents(command)
                                 [] command.type = "retitle" -> {} :
                               d \in DOMAIN tx.diagramCommands}
             D == named(tx) \cup members
             E == DOMAIN tx.diagramCommands \cup ({tx.layout.diagram} \ {NoId})
             objects == [id \in D |-> canvas.objects[id]]
             diagrams == [d \in E |-> canvas.diagrams[d]]
  <2>2. targetGuards(request) = [objects |-> objects, diagrams |-> diagrams]
    BY <1>3, <2>1 DEF targetGuards
  <2>3. members \subseteq Ids
    <3>1. ASSUME NEW d \in DOMAIN tx.diagramCommands
          PROVE  LET command == tx.diagramCommands[d] IN
                 (CASE command.type = "create"  -> contents(command.diagram)
                    [] command.type = "arrange" -> contents(command)
                    [] command.type = "retitle" -> {}) \subseteq Ids
      <4> DEFINE command == tx.diagramCommands[d]
      <4>1. command \in DiagramCommands
        BY <2>1 DEF isTransaction
      <4> HIDE DEF command
      <4>2. CASE command.type = "create"
        <5>1. command.diagram \in Diagrams
          BY <4>1, <4>2 DEF DiagramCommands
        <5>2. contents(command.diagram) \subseteq Ids
          BY <5>1 DEF Diagrams, contents
        <5> QED BY <4>2, <5>2 DEF command
      <4>3. CASE command.type = "arrange"
        <5>1. contents(command) \subseteq Ids
          BY <4>1, <4>3 DEF DiagramCommands, contents
        <5> QED BY <4>3, <5>1 DEF command
      <4>4. CASE command.type = "retitle"
        BY <4>4 DEF command
      <4> QED BY <4>1, <4>2, <4>3, <4>4 DEF DiagramCommands
    <3> QED BY <3>1
  <2>4. D \in SUBSET Ids /\ E \in SUBSET Ids
    BY <2>1, <2>3 DEF named, isTransaction
  <2> HIDE DEF D, E, members
  <2>5. objects \in [D -> Versions] /\ diagrams \in [E -> DiagramVersions]
    BY <1>1, <2>4
  <2> HIDE DEF objects, diagrams
  <2>6. objects \in Partial(Versions) /\ diagrams \in Partial(DiagramVersions)
    BY <2>4, <2>5 DEF Partial
  <2> QED BY <2>2, <2>6 DEF Guards
<1> QED BY <1>2, <1>3, RequestKinds

\* Queueing a proposal keeps it, and drops nothing undecided.
LEMMA QueueStep ==
  ASSUME CanvasInv, NEW a \in Agents, NEW request \in Requests(Proposals),
         queueAgentEdit(a, request)
  PROVE  /\ CanvasInv' /\ UNCHANGED <<canvas, activities>>
         /\ \A i \in DOMAIN reviewProposals : reviewProposals[i].status = "pending" =>
              \E k \in DOMAIN reviewProposals' : reviewProposals'[k] = reviewProposals[i]
<1> DEFINE proposal == buildAgentEditProposal(a, request)
           Q == makeRoom
<1>1. /\ UNCHANGED <<canvas, agentEditPolicy, activities>>
      /\ reviewProposals' = <<proposal>> \o Q
      /\ Len(reviewProposals) < MaxProposals \/ decided # {}
  BY DEF queueAgentEdit
<1>2. reviewProposals \in Seq(ProposalRecords) /\ Len(reviewProposals) \in Nat
  BY DEF CanvasInv, QueueOK
<1>3. proposal \in ProposalRecords /\ proposal.request = request /\ proposal.activityId = 0
  <2> DEFINE n == IF reviewProposals = <<>> THEN 1 ELSE Head(reviewProposals).id + 1
             guards == targetGuards(request)
  <2>1. proposal = [id |-> n, status |-> "pending", author |-> a, request |-> request,
                    targetGuards |-> guards, activityId |-> 0]
    BY DEF buildAgentEditProposal, None
  <2>2. n \in Nat
    <3>1. CASE reviewProposals # <<>>
      <4>1. Head(reviewProposals) \in ProposalRecords
        BY <1>2, <3>1
      <4>2. Head(reviewProposals).id \in Nat
        BY <4>1 DEF ProposalRecords
      <4> QED BY <3>1, <4>2
    <3> QED BY <3>1
  <2>3. guards \in Guards
    BY GuardsAreTyped DEF CanvasInv
  <2>4. request \in RequestRecords
    <3>1. 1..Len(activities) \subseteq Nat
      BY DEF CanvasInv, HistoryOK
    <3> QED BY <3>1 DEF Requests, RequestRecords
  <2> HIDE DEF n, guards
  <2> QED BY <2>1, <2>2, <2>3, <2>4 DEF ProposalRecords
<1>4. /\ Q \in Seq(ProposalRecords)
      /\ \A k \in 1..Len(Q) : \E j \in 1..Len(reviewProposals) : Q[k] = reviewProposals[j]
      /\ \A i \in 1..Len(reviewProposals) : reviewProposals[i].status = "pending" =>
           \E k \in 1..Len(Q) : Q[k] = reviewProposals[i]
  <2>1. CASE Len(reviewProposals) < MaxProposals
    <3>1. Q = reviewProposals
      BY <2>1 DEF makeRoom
    <3> QED BY <1>2, <3>1
  <2>2. CASE ~(Len(reviewProposals) < MaxProposals)
    <3> DEFINE i == CHOOSE i \in decided : \A j \in decided : j <= i
    <3>1. Q = RemoveAt(reviewProposals, i)
      BY <2>2 DEF makeRoom
    <3>2. decided \in SUBSET (1..Len(reviewProposals)) /\ decided # {}
      BY <1>1, <1>2, <2>2 DEF decided
    <3>3. i \in decided
      <4> HIDE DEF i
      <4>1. (CHOOSE k \in decided : \A j \in decided : j <= k) \in decided
        BY <1>2, <3>2, LastPlace
      <4> QED BY <4>1 DEF i
    <3> HIDE DEF i, Q
    <3>4. i \in 1..Len(reviewProposals) /\ reviewProposals[i].status # "pending"
      BY <3>2, <3>3 DEF decided
    <3>5. /\ Q \in Seq(ProposalRecords)
          /\ \A j \in 1..Len(reviewProposals) : j # i =>
               \E k \in 1..Len(Q) : Q[k] = reviewProposals[j]
          /\ \A k \in 1..Len(Q) : \E j \in 1..Len(reviewProposals) : Q[k] = reviewProposals[j]
      BY <1>2, <3>1, <3>4, Removed
    <3> QED BY <3>4, <3>5 DEF Q
  <2> QED BY <2>1, <2>2
<1> HIDE DEF proposal, Q
<1>5. /\ reviewProposals' \in Seq(ProposalRecords)
      /\ Len(reviewProposals') = Len(Q) + 1
      /\ reviewProposals'[1] = proposal
      /\ \A k \in 1..Len(Q) : reviewProposals'[k + 1] = Q[k]
  <2>1. <<proposal>> \in Seq(ProposalRecords) /\ Len(<<proposal>>) = 1 /\ <<proposal>>[1] = proposal
    BY <1>3
  <2> QED BY <1>1, <1>4, <2>1
<1>6. \A k \in 1..Len(reviewProposals') :
        /\ reviewProposals'[k].request \in Requests(Proposals)
        /\ reviewProposals'[k].activityId \in 0..Len(activities)
  <2> TAKE k \in 1..Len(reviewProposals')
  <2>1. CASE k = 1
    <3>1. Len(activities) \in Nat
      BY DEF CanvasInv, HistoryOK
    <3> QED BY <1>3, <1>5, <2>1, <3>1
  <2>2. CASE k # 1
    <3>1. k - 1 \in 1..Len(Q) /\ (k - 1) + 1 = k
      BY <1>4, <1>5, <2>2
    <3>2. \E j \in 1..Len(reviewProposals) : Q[k - 1] = reviewProposals[j]
      BY <1>4, <3>1
    <3>3. PICK j \in 1..Len(reviewProposals) : Q[k - 1] = reviewProposals[j]
      BY <3>2
    <3>4. reviewProposals'[(k - 1) + 1] = Q[k - 1]
      BY <1>5, <3>1
    <3>5. reviewProposals'[k] = reviewProposals[j]
      BY <3>1, <3>3, <3>4
    <3> QED BY <3>5 DEF CanvasInv, QueueOK
  <2> QED BY <2>1, <2>2
<1>7. QueueOK'
  <2>1. Requests(Proposals)' = Requests(Proposals)
    BY <1>1 DEF Requests
  <2> QED BY <1>1, <1>5, <1>6, <2>1 DEF QueueOK
<1>8. HistoryOK'
  BY <1>1 DEF CanvasInv, HistoryOK
<1>9. canvas' \in Canvases /\ sound(canvas')
  <2>1. canvas' = canvas /\ canvas \in Canvases /\ sound(canvas)
    BY <1>1 DEF CanvasInv
  <2> QED BY <2>1
<1>10. CanvasInv'
  BY <1>1, <1>7, <1>8, <1>9 DEF CanvasInv
<1>11. \A i \in DOMAIN reviewProposals : reviewProposals[i].status = "pending" =>
         \E k \in DOMAIN reviewProposals' : reviewProposals'[k] = reviewProposals[i]
  <2> SUFFICES ASSUME NEW i \in DOMAIN reviewProposals, reviewProposals[i].status = "pending"
               PROVE  \E k \in DOMAIN reviewProposals' : reviewProposals'[k] = reviewProposals[i]
    OBVIOUS
  <2>1. i \in 1..Len(reviewProposals)
    BY <1>2
  <2>2. PICK k \in 1..Len(Q) : Q[k] = reviewProposals[i]
    BY <1>4, <2>1
  <2>3. k + 1 \in DOMAIN reviewProposals' /\ reviewProposals'[k + 1] = reviewProposals[i]
    BY <1>4, <1>5, <2>2
  <2> QED BY <2>3
<1> QED BY <1>1, <1>10, <1>11

-----------------------------------------------------------------------------
(* The theorems.                                                           *)

\* What a step may be.
LEMMA StepKinds ==
  ASSUME CanvasInv, [Next]_vars
  PROVE  /\ CanvasInv'
         /\ \/ /\ \E a \in Actors : ActivityOf(a) /\ ~mustPropose(a)
               /\ UNCHANGED reviewProposals
            \/ \E i \in DOMAIN reviewProposals :
                 /\ ActivityOf(reviewProposals[i].author)
                 /\ reviewProposals[i].status = "pending"
                 /\ reviewProposals'[i].status = "applied"
            \/ /\ canvas'.objects = canvas.objects /\ canvas'.diagrams = canvas.diagrams
               /\ UNCHANGED activities
         /\ \A i \in DOMAIN reviewProposals : reviewProposals[i].status = "pending" =>
              \E k \in DOMAIN reviewProposals' : reviewProposals'[k].id = reviewProposals[i].id
<1>0. reviewProposals \in Seq(ProposalRecords)
  BY DEF CanvasInv, QueueOK
<1>1. CASE UNCHANGED vars
  <2>1. UNCHANGED <<canvas, agentEditPolicy, activities, reviewProposals>>
    BY <1>1 DEF vars
  <2>2. HistoryOK' /\ QueueOK'
    BY <2>1 DEF CanvasInv, HistoryOK, QueueOK, Requests
  <2>3. canvas' \in Canvases /\ sound(canvas')
    <3>1. canvas' = canvas /\ canvas \in Canvases /\ sound(canvas)
      BY <2>1 DEF CanvasInv
    <3> QED BY <3>1
  <2>4. CanvasInv'
    BY <2>1, <2>2, <2>3 DEF CanvasInv
  <2> QED BY <2>1, <2>4
<1>2. CASE \E a \in Actors, request \in Requests(Transactions) : Transact(a, request)
  <2>1. PICK a \in Actors, request \in Requests(Transactions) : Transact(a, request)
    BY <1>2
  <2>2. CanvasInv' /\ ActivityOf(a) /\ ~mustPropose(a) /\ UNCHANGED reviewProposals
    BY <2>1, TransactStep
  <2> QED BY <2>2
<1>3. CASE \E a \in Agents, request \in Requests(Proposals) : queueAgentEdit(a, request)
  <2>1. PICK a \in Agents, request \in Requests(Proposals) : queueAgentEdit(a, request)
    BY <1>3
  <2>2. /\ CanvasInv' /\ UNCHANGED <<canvas, activities>>
        /\ \A i \in DOMAIN reviewProposals : reviewProposals[i].status = "pending" =>
             \E k \in DOMAIN reviewProposals' : reviewProposals'[k] = reviewProposals[i]
    BY <2>1, QueueStep
  <2> QED BY <2>2
<1>4. CASE \E i \in DOMAIN reviewProposals : Approve(i)
  <2>1. PICK i \in DOMAIN reviewProposals : Approve(i)
    BY <1>4
  <2>2. /\ CanvasInv' /\ ActivityOf(reviewProposals[i].author)
        /\ reviewProposals[i].status = "pending" /\ reviewProposals'[i].status = "applied"
        /\ \A j \in 1..Len(reviewProposals) : reviewProposals'[j].id = reviewProposals[j].id
        /\ reviewProposals' \in Seq(ProposalRecords)
        /\ Len(reviewProposals') = Len(reviewProposals)
    BY <2>1, ApproveStep
  <2>3. DOMAIN reviewProposals' = DOMAIN reviewProposals
        /\ DOMAIN reviewProposals = 1..Len(reviewProposals)
    BY <1>0, <2>2
  <2> QED BY <2>2, <2>3
<1>5. CASE \E i \in DOMAIN reviewProposals : Reject(i)
  <2>1. PICK i \in DOMAIN reviewProposals : Reject(i)
    BY <1>5
  <2>2. /\ CanvasInv'
        /\ \A j \in 1..Len(reviewProposals) : reviewProposals'[j].id = reviewProposals[j].id
        /\ reviewProposals' \in Seq(ProposalRecords)
        /\ Len(reviewProposals') = Len(reviewProposals)
    BY <2>1, RejectStep
  <2>3. DOMAIN reviewProposals' = DOMAIN reviewProposals
        /\ DOMAIN reviewProposals = 1..Len(reviewProposals)
    BY <1>0, <2>2
  <2>4. UNCHANGED <<canvas, activities>>
    BY <2>1 DEF Reject
  <2> QED BY <2>2, <2>3, <2>4
<1>6. CASE \E a \in Actors, policy \in {"live", "review"} : setAgentEditPolicy(a, policy)
  BY <1>6, PolicyStep
<1>7. CASE \E a \in Actors, targets \in LeaseTargets :
             acquireObjectLeases(a, targets) \/ releaseObjectLeases(a, targets)
  <2>1. PICK a \in Actors, targets \in LeaseTargets :
          acquireObjectLeases(a, targets) \/ releaseObjectLeases(a, targets)
    BY <1>7
  <2>2. CanvasInv' /\ canvas'.objects = canvas.objects /\ canvas'.diagrams = canvas.diagrams
    BY <2>1, AcquireStep, ReleaseStep
  <2>3. UNCHANGED <<activities, reviewProposals>>
    BY <2>1 DEF acquireObjectLeases, releaseObjectLeases
  <2> QED BY <2>2, <2>3
<1>8. CASE \E id \in Ids : Expire(id)
  <2>1. PICK id \in Ids : Expire(id)
    BY <1>8
  <2>2. CanvasInv' /\ canvas'.objects = canvas.objects /\ canvas'.diagrams = canvas.diagrams
    BY <2>1, ExpireStep
  <2>3. UNCHANGED <<activities, reviewProposals>>
    BY <2>1 DEF Expire
  <2> QED BY <2>2, <2>3
<1> QED BY <1>1, <1>2, <1>3, <1>4, <1>5, <1>6, <1>7, <1>8 DEF Next

\* The inductive invariant of the canvas, its history and the review queue.
THEOREM CanvasCorrect == Spec => []CanvasInv
<1>1. CanvasInv /\ [Next]_vars => CanvasInv'
  BY StepKinds
<1> QED BY InitInv, <1>1, PTL DEF Spec

\* The canvas, its history and the queue keep their types.
THEOREM CanvasTypes == Spec => []CanvasTypeOK
<1> QED BY CanvasCorrect, InvType, PTL

\* After any number of transactions, reverts and applied proposals, ends and
\* members name what is there and of the right kind, and only what exists is
\* leased.
THEOREM NothingDangles == Spec => []ReferencesResolve
<1>1. CanvasInv => ReferencesResolve
  BY DEF CanvasInv, ReferencesResolve
<1> QED BY CanvasCorrect, <1>1, PTL

\* No activity, whoever's and however it comes to touch the object, changes
\* what another actor holds.
THEOREM LeasesHold == Spec => LeaseHolds
<1>1. ASSUME CanvasInv, [Next]_vars
      PROVE  [\A id \in Ids : canvas'.objects[id] # canvas.objects[id] =>
                canvas.leases[id] \in {Nobody, latest'.actor}]_vars
  <2>1. CASE \E a \in Actors : ActivityOf(a)
    <3>1. PICK a \in Actors : ActivityOf(a)
      BY <2>1
    <3> QED BY <3>1 DEF ActivityOf, LeavesSound
  <2>2. CASE \E i \in DOMAIN reviewProposals : ActivityOf(reviewProposals[i].author)
    <3>1. PICK i \in DOMAIN reviewProposals : ActivityOf(reviewProposals[i].author)
      BY <2>2
    <3> QED BY <3>1 DEF ActivityOf, LeavesSound
  <2>3. CASE canvas'.objects = canvas.objects
    BY <2>3
  <2> QED BY <1>1, <2>1, <2>2, <2>3, StepKinds
<1> QED BY CanvasCorrect, <1>1, PTL DEF Spec, LeaseHolds

\* In review mode only a decision changes the canvas in an agent's name, and
\* nothing undecided leaves the queue.
THEOREM ReviewGates == Spec => ReviewGatesAgents
<1>1. ASSUME CanvasInv, [Next]_vars
      PROVE  [/\ Recorded /\ latest'.actor \in Agents /\ agentEditPolicy = "review" =>
                   \E i \in DOMAIN reviewProposals :
                     /\ reviewProposals[i].status = "pending"
                     /\ reviewProposals[i].author = latest'.actor
                     /\ reviewProposals'[i].status = "applied"
              /\ \A p \in Range(reviewProposals) : p.status = "pending" =>
                   \E q \in Range(reviewProposals') : q.id = p.id]_vars
  <2>1. \A p \in Range(reviewProposals) : p.status = "pending" =>
          \E q \in Range(reviewProposals') : q.id = p.id
    <3> SUFFICES ASSUME NEW i \in DOMAIN reviewProposals, reviewProposals[i].status = "pending"
                 PROVE  \E q \in Range(reviewProposals') : q.id = reviewProposals[i].id
      BY DEF Range
    <3>1. PICK k \in DOMAIN reviewProposals' : reviewProposals'[k].id = reviewProposals[i].id
      BY <1>1, StepKinds
    <3>2. reviewProposals'[k] \in Range(reviewProposals')
      BY DEF Range
    <3> QED BY <3>1, <3>2
  <2>2. Recorded /\ latest'.actor \in Agents /\ agentEditPolicy = "review" =>
          \E i \in DOMAIN reviewProposals :
            /\ reviewProposals[i].status = "pending"
            /\ reviewProposals[i].author = latest'.actor
            /\ reviewProposals'[i].status = "applied"
    <3>1. CASE \E a \in Actors : ActivityOf(a) /\ ~mustPropose(a)
      BY <3>1 DEF ActivityOf, mustPropose
    <3>2. CASE \E i \in DOMAIN reviewProposals :
                 /\ ActivityOf(reviewProposals[i].author)
                 /\ reviewProposals[i].status = "pending"
                 /\ reviewProposals'[i].status = "applied"
      BY <3>2 DEF ActivityOf
    <3>3. CASE UNCHANGED activities
      BY <3>3 DEF Recorded
    <3> QED BY <1>1, <3>1, <3>2, <3>3, StepKinds
  <2> QED BY <2>1, <2>2
<1> QED BY CanvasCorrect, <1>1, PTL DEF Spec, ReviewGatesAgents

-----------------------------------------------------------------------------
(* What depends on what changes.                                           *)

\* A bound end lies on the outline of its object.
RouteIsCurrent(o, objects) ==
  \A t \in Terminals : o.ends[t] # Free => o.route[t] \in outline(objects[o.ends[t]].place)

\* Every route that was asked for has its ends on the outlines their objects
\* have in the draft.
LEMMA AffectedIsCurrent ==
  ASSUME NEW canvas_, NEW tx, NEW a, NEW places, NEW affected, NEW way,
         Way(canvas_, tx, a, places, affected, way), NEW c \in affected
  PROVE  LET draft == objectsDrafted(canvas_, tx, a, places)
         IN RouteIsCurrent(objectsAfter(tx, draft, affected, way, a)[c], draft)
<1> DEFINE draft == objectsDrafted(canvas_, tx, a, places)
           after == objectsAfter(tx, draft, affected, way, a)[c]
           resolved == way[c]
           route == routed(draft, c, resolved)
<1>1. c \in Ids /\ isConnector(draft[c])
  BY Affected DEF Way, connectorsOf
<1>2. draft \in [Ids -> Versions]
  <2>1. \A i \in Ids : draft[i] \in Versions
    <3> TAKE i \in Ids
    <3>1. DraftIsSound(canvas_, tx, a, places, i)
      BY Drafted DEF Way
    <3> QED BY <3>1 DEF DraftIsSound
  <2> QED BY <2>1 DEF objectsDrafted
<1>3. after = revised(route, a) \/ after = route
  BY <1>1 DEF objectsAfter, rerouted
<1> HIDE DEF draft
<1>4. /\ route \in Objects
      /\ \A t \in Terminals : route.ends[t] # Free =>
           route.route[t] \in outline(draft[route.ends[t]].place)
  <2>1. /\ resolved \in Routes
        /\ \A t \in Terminals : resolved.route[t] \in anchorForEndpoint(draft, draft[c], t)
    BY DEF Way, resolveAffectedConnectorRoutes, draft
  <2> HIDE DEF resolved
  <2> QED BY <1>1, <1>2, <2>1, Routed
<1> HIDE DEF route, after
<1>5. after.ends = route.ends /\ after.route = route.route
  <2>1. revised(route, a).ends = route.ends /\ revised(route, a).route = route.route
    BY <1>4 DEF revised, Objects
  <2> QED BY <1>3, <2>1
<1> QED BY <1>4, <1>5 DEF RouteIsCurrent, after, draft

\* A transaction that finds every route at the outlines of its ends leaves
\* them so.
LEMMA RoutesStayCurrent ==
  ASSUME NEW canvas_, NEW tx, NEW a, NEW places, NEW affected, NEW way,
         Way(canvas_, tx, a, places, affected, way),
         referencesResolve(canvas_), routesAreCurrent(canvas_.objects)
  PROVE  routesAreCurrent(objectsAfter(tx, objectsDrafted(canvas_, tx, a, places), affected, way, a))
<1> DEFINE draft == objectsDrafted(canvas_, tx, a, places)
           objects == objectsAfter(tx, draft, affected, way, a)
<1> SUFFICES ASSUME NEW c \in Ids, isConnector(objects[c]), NEW t \in Terminals,
                    objects[c].ends[t] # Free
             PROVE  objects[c].route[t] \in outline(objects[objects[c].ends[t]].place)
  BY DEF routesAreCurrent, connectorsOf
<1> DEFINE e == objects[c].ends[t]
<1>1. OutcomeIsSound(canvas_, tx, a, places, affected, way, c)
  BY Outcome
<1>2. objects[c] \in Versions /\ objects[c] \in Objects /\ isConnector(draft[c])
  <2>1. objects[c] \in Versions /\ objects[c].kind = draft[c].kind
    BY <1>1 DEF OutcomeIsSound
  <2> QED BY <2>1, VersionKinds DEF isConnector
<1>3. e \in Ids /\ isShape(objects[e])
  <2>1. e \in Ids
    BY <1>2 DEF Objects
  <2>2. validConnector(objects, objects[c])
    BY ConnectorsResolve
  <2> QED BY <2>1, <2>2 DEF validConnector
<1>4. objects[e] = draft[e] /\ isShape(draft[e])
  <2>1. OutcomeIsSound(canvas_, tx, a, places, affected, way, e)
    BY <1>3, Outcome
  <2>2. isShape(draft[e])
    BY <1>3, <2>1 DEF OutcomeIsSound, isShape
  <2>3. e \notin affected
    BY <2>2, Affected DEF Way, connectorsOf, isShape, isConnector
  <2>4. objects[e] = draft[e]
    BY <1>3, <2>3 DEF objectsAfter, rerouted
  <2> QED BY <2>2, <2>4
<1>5. CASE c \in affected
  <2>1. RouteIsCurrent(objects[c], draft)
    BY <1>5, AffectedIsCurrent
  <2> QED BY <1>4, <2>1 DEF RouteIsCurrent
<1>6. CASE c \notin affected
  <2> DEFINE o == canvas_.objects[c]
             f == canvas_.objects[e]
  <2>1. objects[c] = draft[c]
    BY <1>6 DEF objectsAfter, rerouted
  <2>2. c \notin mustRoute(canvas_, tx, draft)
    BY <1>6, Affected DEF Way
  <2>3. draft[c].ends[t] = e
    BY <2>1
  <2>4. DraftIsSound(canvas_, tx, a, places, c) /\ DraftIsSound(canvas_, tx, a, places, e)
    BY <1>3, Drafted DEF Way
  <2> HIDE DEF draft, objects, e
  <2>5. /\ c \in named(tx) => ~routeInputChanged(o, draft[c])
        /\ e \in named(tx) => ~geometryChanged(f, draft[e])
    BY <1>2, <2>2, <2>3 DEF mustRoute, connectorsOf
  <2>6. o \in Versions /\ f \in Versions /\ SameKind(o, draft[c])
        /\ (c \notin named(tx) => draft[c] = o) /\ (e \notin named(tx) => draft[e] = f)
    BY <2>4 DEF DraftIsSound, draft
  <2>7. o.route = draft[c].route /\ o.ends = draft[c].ends /\ isConnector(o)
    <3>1. CASE c \notin named(tx)
      BY <1>2, <2>6, <3>1
    <3>2. CASE c \in named(tx)
      BY <1>2, <2>5, <2>6, <3>2 DEF routeInputChanged, geometryChanged, SameKind, isConnector
    <3> QED BY <3>1, <3>2
  <2>8. f.place = draft[e].place
    BY <2>5, <2>6 DEF geometryChanged
  <2>9. o.ends[t] # Free => o.route[t] \in outline(canvas_.objects[o.ends[t]].place)
    BY <2>7 DEF routesAreCurrent, connectorsOf
  <2>10. o.ends[t] = e /\ e # Free
    BY <2>3, <2>7 DEF e
  <2> QED BY <1>4, <2>1, <2>7, <2>8, <2>9, <2>10 DEF e
<1> QED BY <1>5, <1>6

\* What a transaction changed, it named or routed again, and a Diagram that
\* holds or held it is revised.
LEMMA DiagramsFollow ==
  ASSUME NEW canvas_, NEW tx, NEW a, NEW places, NEW affected, NEW way,
         Way(canvas_, tx, a, places, affected, way), NEW id \in Ids, NEW d \in Ids,
         NEW x, x = transacted(canvas_, tx, objectsDrafted(canvas_, tx, a, places), affected, way, a),
         x.objects[id] # canvas_.objects[id],
         id \in contents(canvas_.diagrams[d]) \cup contents(x.diagrams[d])
  PROVE  x.diagrams[d].revision # canvas_.diagrams[d].revision
<1> DEFINE draft == objectsDrafted(canvas_, tx, a, places)
           objects == objectsAfter(tx, draft, affected, way, a)
           touched == named(tx) \cup rerouted(tx, draft, affected, way)
           before == canvas_.diagrams[d]
           after == diagramsAfter(canvas_, tx, objects, touched, a)[d]
<1>1. x.objects = objects /\ x.diagrams[d] = after
  BY DEF transacted
<1>2. id \in touched
  <2>1. DraftIsSound(canvas_, tx, a, places, id)
    BY Drafted DEF Way
  <2>2. id \notin named(tx) => draft[id] = canvas_.objects[id]
    BY <2>1 DEF DraftIsSound
  <2>3. objects[id] # canvas_.objects[id]
    BY <1>1
  <2> QED BY <2>2, <2>3 DEF objectsAfter
<1>3. /\ after \in DiagramVersions /\ before \in DiagramVersions
      /\ follows(before, after, a)
      /\ contents(before) \cap touched # {} => after # before
  <2> HIDE DEF touched
  <2>1. before \in DiagramVersions
    BY DEF Way, Fits, Canvases, DiagramVersions
  <2> QED BY <2>1, DiagramOutcome
<1> HIDE DEF after, before, touched
<1>4. id \in contents(before) \cup contents(after)
  BY <1>1 DEF before
<1>5. after # before
  <2>1. CASE id \in contents(before)
    BY <1>2, <1>3, <2>1
  <2>2. CASE id \notin contents(before)
    BY <1>4, <2>2
  <2> QED BY <2>1, <2>2
<1>6. before.revision \in Nat /\ after.revision \in Nat
  BY <1>3, DiagramKinds
<1>7. exists(before) \/ exists(after)
  BY <1>3, <1>4, DiagramKinds DEF contents
<1>8. after.revision # before.revision
  BY <1>3, <1>5, <1>6, <1>7 DEF follows, exists
<1> QED BY <1>1, <1>8 DEF before

\* What is recorded is an activity of the actor it names.
LEMMA RecordedActivity ==
  ASSUME CanvasInv, [Next]_vars, Recorded
  PROVE  ActivityOf(latest'.actor) /\ latest'.actor \in Actors /\ CanvasInv'
<1>1. CASE \E a \in Actors : ActivityOf(a)
  <2>1. PICK a \in Actors : ActivityOf(a)
    BY <1>1
  <2>2. latest'.actor = a
    BY <2>1 DEF ActivityOf
  <2> QED BY <2>1, <2>2, StepKinds
<1>2. CASE \E i \in DOMAIN reviewProposals : ActivityOf(reviewProposals[i].author)
  <2>1. PICK i \in DOMAIN reviewProposals : ActivityOf(reviewProposals[i].author)
    BY <1>2
  <2>2. latest'.actor = reviewProposals[i].author
    BY <2>1 DEF ActivityOf
  <2>3. reviewProposals[i].author \in Actors
    <3>1. reviewProposals[i] \in ProposalRecords
      BY DEF CanvasInv, QueueOK
    <3> QED BY <3>1, CanvasAssumption DEF ProposalRecords
  <2> QED BY <2>1, <2>2, <2>3, StepKinds
<1> QED BY <1>1, <1>2, StepKinds DEF Recorded

\* What depends on an object follows it: whatever a transaction does, it
\* leaves every route where its ends are, if it found them so, and revises
\* the Diagrams of what it changed.
THEOREM DependentsFollowed == Spec => DependentsFollow
<1>1. ASSUME CanvasInv, [Next]_vars
      PROVE  [Recorded /\ latest'.revertsActivityId = None =>
                /\ routesAreCurrent(canvas.objects) => routesAreCurrent(canvas'.objects)
                /\ \A id, d \in Ids :
                     /\ canvas'.objects[id] # canvas.objects[id]
                     /\ id \in contents(canvas.diagrams[d]) \cup contents(canvas'.diagrams[d])
                     => canvas'.diagrams[d].revision # canvas.diagrams[d].revision]_vars
  <2> SUFFICES ASSUME Recorded, latest'.revertsActivityId = None
               PROVE  /\ routesAreCurrent(canvas.objects) => routesAreCurrent(canvas'.objects)
                      /\ \A id, d \in Ids :
                           /\ canvas'.objects[id] # canvas.objects[id]
                           /\ id \in contents(canvas.diagrams[d]) \cup contents(canvas'.diagrams[d])
                           => canvas'.diagrams[d].revision # canvas.diagrams[d].revision
    OBVIOUS
  <2> DEFINE a == latest'.actor
  <2>1. ActivityOf(a) /\ a \in Actors /\ canvas \in Canvases /\ sound(canvas)
    BY <1>1, RecordedActivity DEF CanvasInv
  <2>2. Transacted(a, None)
    <3>1. ~Reversed(a, None)
      BY <1>1 DEF Reversed, None, CanvasInv, HistoryOK
    <3> QED BY <2>1, <3>1 DEF ActivityOf
  <2> HIDE DEF a
  <2>3. PICK tx \in Transactions : canvas' \in applySemanticTransaction(canvas, tx, a)
    BY <2>2 DEF Transacted
  <2>4. isTransaction(tx)
    BY CanvasAssumption
  <2>5. PICK places, affected, way :
          /\ Way(canvas, tx, a, places, affected, way)
          /\ canvas' = transacted(canvas, tx, objectsDrafted(canvas, tx, a, places), affected, way, a)
    BY <2>1, <2>3, <2>4, TransactionGoesAWay
  <2>6. routesAreCurrent(canvas.objects) => routesAreCurrent(canvas'.objects)
    <3>1. canvas'.objects = objectsAfter(tx, objectsDrafted(canvas, tx, a, places), affected, way, a)
      BY <2>5 DEF transacted
    <3>2. referencesResolve(canvas)
      BY <2>1 DEF sound
    <3> QED BY <2>5, <3>1, <3>2, RoutesStayCurrent
  <2>7. ASSUME NEW id \in Ids, NEW d \in Ids,
               canvas'.objects[id] # canvas.objects[id],
               id \in contents(canvas.diagrams[d]) \cup contents(canvas'.diagrams[d])
        PROVE  canvas'.diagrams[d].revision # canvas.diagrams[d].revision
    BY <2>5, <2>7, DiagramsFollow
  <2> QED BY <2>6, <2>7
<1> QED BY CanvasCorrect, <1>1, PTL DEF Spec, DependentsFollow

-----------------------------------------------------------------------------
(* What was done can be taken back.                                        *)

\* What the record of a change from x to after says.
IsRecord(x, after, activity) ==
  LET direct == {id \in Ids : x.objects[id] # after.objects[id]}
      moved == {id \in Ids : exists(after.objects[id]) /\ diagramIds(x, id) # diagramIds(after, id)}
      changes == activity.objectChanges
  IN /\ DOMAIN changes = direct \cup moved
     /\ \A id \in DOMAIN changes : /\ changes[id].isDirect <=> id \in direct
                                   /\ changes[id].before = x.objects[id]
                                   /\ changes[id].after = after.objects[id]
     /\ DOMAIN activity.diagramChanges = {d \in Ids : x.diagrams[d] # after.diagrams[d]}
     /\ \A d \in DOMAIN activity.diagramChanges :
          /\ activity.diagramChanges[d].before = x.diagrams[d]
          /\ activity.diagramChanges[d].after = after.diagrams[d]

\* Every activity is the record of its change.
LEMMA BuiltRecord ==
  ASSUME NEW x, NEW after, NEW a, NEW i
  PROVE  IsRecord(x, after, buildRoomActivity(x, after, a, i))
<1> DEFINE direct == {id \in Ids : x.objects[id] # after.objects[id]}
           moved == {id \in Ids : exists(after.objects[id]) /\ diagramIds(x, id) # diagramIds(after, id)}
           edited == {d \in Ids : x.diagrams[d] # after.diagrams[d]}
           objectChanges == [id \in direct \cup moved |->
                               [isDirect |-> id \in direct, before |-> x.objects[id],
                                                            after |-> after.objects[id]]]
           diagramChanges == [d \in edited |-> [before |-> x.diagrams[d],
                                                after |-> after.diagrams[d]]]
           activity == buildRoomActivity(x, after, a, i)
<1>1. activity.objectChanges = objectChanges /\ activity.diagramChanges = diagramChanges
  BY DEF buildRoomActivity
<1>2. \A id \in direct \cup moved : /\ objectChanges[id].isDirect <=> id \in direct
                                    /\ objectChanges[id].before = x.objects[id]
                                    /\ objectChanges[id].after = after.objects[id]
  OBVIOUS
<1>3. \A d \in edited : /\ diagramChanges[d].before = x.diagrams[d]
                        /\ diagramChanges[d].after = after.diagrams[d]
  OBVIOUS
<1>4. DOMAIN objectChanges = direct \cup moved /\ DOMAIN diagramChanges = edited
  OBVIOUS
<1> HIDE DEF objectChanges, diagramChanges, activity
<1> QED BY <1>1, <1>2, <1>3, <1>4 DEF IsRecord, activity

\* An object that an activity records without having changed it went into a
\* Diagram or left one that the activity records too.
MovesAreRecorded(activity) ==
  \A id \in DOMAIN activity.objectChanges : ~activity.objectChanges[id].isDirect =>
    \E d \in DOMAIN activity.diagramChanges :
      ~(id \in contents(activity.diagramChanges[d].before)
        <=> id \in contents(activity.diagramChanges[d].after))

\* Every record of a change says so.
LEMMA BuiltMoves ==
  ASSUME NEW x, NEW after, NEW activity, IsRecord(x, after, activity)
  PROVE  MovesAreRecorded(activity)
<1> SUFFICES ASSUME NEW id \in DOMAIN activity.objectChanges,
                    ~activity.objectChanges[id].isDirect
             PROVE  \E d \in DOMAIN activity.diagramChanges :
                      ~(id \in contents(activity.diagramChanges[d].before)
                        <=> id \in contents(activity.diagramChanges[d].after))
  BY DEF MovesAreRecorded
<1>1. diagramIds(x, id) # diagramIds(after, id)
  BY DEF IsRecord
<1>2. PICK d \in Ids : ~(id \in contents(x.diagrams[d]) <=> id \in contents(after.diagrams[d]))
  BY <1>1 DEF diagramIds
<1>3. x.diagrams[d] # after.diagrams[d]
  BY <1>2
<1>4. d \in DOMAIN activity.diagramChanges
  BY <1>3 DEF IsRecord
<1>5. /\ activity.diagramChanges[d].before = x.diagrams[d]
      /\ activity.diagramChanges[d].after = after.diagrams[d]
  BY <1>4 DEF IsRecord
<1> QED BY <1>2, <1>4, <1>5

\* Nothing that a change left as it was, and in the Diagrams it was in,
\* refers to an object whose geometry it changed, but a connector that is
\* attached to it still.
Disturbed(x, after, id) ==
  x.objects[id] # after.objects[id] /\ geometryChanged(x.objects[id], after.objects[id])

Undisturbed(x, after) ==
  /\ \A c \in Ids : /\ isConnector(after.objects[c])
                    /\ x.objects[c] = after.objects[c]
                    /\ diagramIds(x, c) = diagramIds(after, c)
                    /\ c \notin stillAttached(x.objects, after.objects)
       => \A t \in Terminals, e \in Ids :
            after.objects[c].ends[t] = e => ~Disturbed(x, after, e)
  /\ \A d \in Ids : x.diagrams[d] = after.diagrams[d] =>
       \A id \in Ids : id \in contents(after.diagrams[d]) => ~Disturbed(x, after, id)

\* A restored entity is the one before in all but its revision and its
\* editor, and it is never the current one.
LEMMA RestoredAsBefore ==
  ASSUME NEW current \in Versions, NEW before \in Versions, NEW a \in Actors
  PROVE  LET after == restored(current, before, a)
         IN /\ after.kind = before.kind /\ after.ends = before.ends
            /\ after.place = before.place /\ after.route = before.route
            /\ after.bent = before.bent
            /\ exists(after) <=> exists(before)
            /\ exists(before) => after # current
<1>1. CASE ~exists(before)
  <2>1. restored(current, before, a) = before
    BY <1>1 DEF restored
  <2> QED BY <1>1, <2>1
<1>2. CASE exists(before)
  <2> DEFINE n == 1 + IF exists(current) THEN current.revision ELSE before.revision
             after == restored(current, before, a)
  <2>1. before \in Objects
    BY <1>2, VersionKinds
  <2>2. current.revision \in Nat /\ before.revision \in Nat
    BY VersionKinds
  <2>3. n \in Nat \ {0} /\ n # current.revision
    BY <1>2, <2>2 DEF exists
  <2>4. after = [before EXCEPT !.revision = n, !.editor = a]
    BY <1>2 DEF restored
  <2> HIDE DEF n, after
  <2>5. /\ after.kind = before.kind /\ after.ends = before.ends
        /\ after.place = before.place /\ after.route = before.route
        /\ after.bent = before.bent /\ after.revision = n
    BY <2>1, <2>4 DEF Objects
  <2>6. exists(after)
    BY <2>3, <2>5 DEF exists
  <2>7. after # current
    BY <2>3, <2>5
  <2> QED BY <1>2, <2>5, <2>6, <2>7 DEF after
<1> QED BY <1>1, <1>2

\* So is a restored Diagram.
LEMMA RestoredDiagramAsBefore ==
  ASSUME NEW current \in DiagramVersions, NEW before \in DiagramVersions, NEW a \in Actors
  PROVE  LET after == restored(current, before, a)
         IN /\ after.memberObjectIds = before.memberObjectIds
            /\ after.connectorIds = before.connectorIds
            /\ contents(after) = contents(before)
            /\ exists(before) => after # current
<1>1. CASE ~exists(before)
  <2>1. restored(current, before, a) = before
    BY <1>1 DEF restored
  <2> QED BY <1>1, <2>1
<1>2. CASE exists(before)
  <2> DEFINE n == 1 + IF exists(current) THEN current.revision ELSE before.revision
             after == restored(current, before, a)
  <2>1. before \in Diagrams
    BY <1>2, DiagramKinds
  <2>2. current.revision \in Nat /\ before.revision \in Nat
    BY DiagramKinds
  <2>3. n \in Nat \ {0} /\ n # current.revision
    BY <1>2, <2>2 DEF exists
  <2>4. after = [before EXCEPT !.revision = n, !.editor = a]
    BY <1>2 DEF restored
  <2> HIDE DEF n, after
  <2>5. /\ after.memberObjectIds = before.memberObjectIds
        /\ after.connectorIds = before.connectorIds /\ after.revision = n
    BY <2>1, <2>4 DEF Diagrams
  <2>7. after # current
    BY <2>3, <2>5
  <2> QED BY <1>2, <2>5, <2>7 DEF after, contents
<1> QED BY <1>1, <1>2

\* What a record lets its actor take back.
TakesBack(x, after, activity, a) ==
  /\ guardsHold(after, activity)
  /\ externalConnectorIds(after, activity) \subseteq stillAttached(x.objects, after.objects)
  /\ externalDiagramIds(after, activity) = {}
  /\ referencesResolve(reverted(after, activity, a))

\* What the record of a sound change gives back resolves where the canvas
\* before it did.
LEMMA RecordFits ==
  ASSUME NEW x \in Canvases, referencesResolve(x), NEW after \in Canvases, NEW a \in Actors,
         NEW activity, IsRecord(x, after, activity), Undisturbed(x, after)
  PROVE  TakesBack(x, after, activity, a)
<1>1. /\ \A id \in Ids : x.objects[id] \in Versions /\ after.objects[id] \in Versions
      /\ \A d \in Ids : x.diagrams[d] \in DiagramVersions /\ after.diagrams[d] \in DiagramVersions
  BY DEF Canvases, Versions, DiagramVersions
<1>2. guardsHold(after, activity)
  BY DEF guardsHold, IsRecord
<1>3. /\ externalConnectorIds(after, activity) \subseteq stillAttached(x.objects, after.objects)
      /\ externalDiagramIds(after, activity) = {}
  <2> DEFINE changes == activity.objectChanges
             sensitive == dependencySensitiveIds(activity)
  <2>1. \A id \in sensitive : id \in Ids /\ Disturbed(x, after, id)
    BY DEF IsRecord, Disturbed, dependencySensitiveIds
  <2> HIDE DEF sensitive
  <2>2. ASSUME NEW c \in connectorsOf(after.objects), c \notin DOMAIN changes, NEW t \in Terminals,
               c \notin stillAttached(x.objects, after.objects)
        PROVE  after.objects[c].ends[t] \notin sensitive
    <3>1. c \in Ids /\ isConnector(after.objects[c]) /\ exists(after.objects[c])
      BY <1>1, VersionKinds DEF connectorsOf
    <3>2. x.objects[c] = after.objects[c] /\ diagramIds(x, c) = diagramIds(after, c)
      BY <2>2, <3>1 DEF IsRecord
    <3> QED BY <2>1, <2>2, <3>1, <3>2 DEF Undisturbed
  <2>3. ASSUME NEW d \in Ids, d \notin DOMAIN activity.diagramChanges
        PROVE  contents(after.diagrams[d]) \cap sensitive = {}
    <3>1. x.diagrams[d] = after.diagrams[d]
      BY <2>3 DEF IsRecord
    <3> QED BY <2>1, <3>1 DEF Undisturbed
  <2> QED BY <2>2, <2>3 DEF externalConnectorIds, externalDiagramIds, sensitive
<1>4. referencesResolve(reverted(after, activity, a))
  <2> DEFINE y == reverted(after, activity, a)
  <2>1. ASSUME NEW id \in Ids
        PROVE  y.objects[id].kind = x.objects[id].kind /\ y.objects[id].ends = x.objects[id].ends
    <3>1. CASE x.objects[id] # after.objects[id]
      <4>1. /\ id \in DOMAIN activity.objectChanges /\ activity.objectChanges[id].isDirect
            /\ activity.objectChanges[id].before = x.objects[id]
        BY <3>1 DEF IsRecord
      <4>2. y.objects[id] = restored(after.objects[id], x.objects[id], a)
        BY <4>1 DEF reverted
      <4> DEFINE o == x.objects[id]
                 current == after.objects[id]
      <4>3. o \in Versions /\ current \in Versions
        BY <1>1
      <4> HIDE DEF o, current
      <4>4. restored(current, o, a).kind = o.kind /\ restored(current, o, a).ends = o.ends
        BY <4>3, RestoredAsBefore
      <4> QED BY <4>2, <4>4 DEF o, current
    <3>2. CASE x.objects[id] = after.objects[id]
      <4>1. ~(id \in DOMAIN activity.objectChanges /\ activity.objectChanges[id].isDirect)
        BY <3>2 DEF IsRecord
      <4>2. y.objects[id] = after.objects[id]
        BY <4>1 DEF reverted
      <4> QED BY <3>2, <4>2
    <3> QED BY <3>1, <3>2
  <2>2. ASSUME NEW d \in Ids
        PROVE  /\ y.diagrams[d].memberObjectIds = x.diagrams[d].memberObjectIds
               /\ y.diagrams[d].connectorIds = x.diagrams[d].connectorIds
    <3>1. CASE x.diagrams[d] # after.diagrams[d]
      <4>1. /\ d \in DOMAIN activity.diagramChanges
            /\ activity.diagramChanges[d].before = x.diagrams[d]
        BY <3>1 DEF IsRecord
      <4>2. y.diagrams[d] = restored(after.diagrams[d], x.diagrams[d], a)
        BY <4>1 DEF reverted
      <4> DEFINE o == x.diagrams[d]
                 current == after.diagrams[d]
      <4>3. o \in DiagramVersions /\ current \in DiagramVersions
        BY <1>1
      <4> HIDE DEF o, current
      <4>4. restored(current, o, a).memberObjectIds = o.memberObjectIds /\ restored(current, o, a).connectorIds = o.connectorIds
        BY <4>3, RestoredDiagramAsBefore
      <4> QED BY <4>2, <4>4 DEF o, current
    <3>2. CASE x.diagrams[d] = after.diagrams[d]
      <4>1. d \notin DOMAIN activity.diagramChanges
        BY <3>2 DEF IsRecord
      <4>2. y.diagrams[d] = after.diagrams[d]
        BY <4>1 DEF reverted
      <4> QED BY <3>2, <4>2
    <3> QED BY <3>1, <3>2
  <2> HIDE DEF y
  <2>3. ASSUME NEW c \in connectorsOf(y.objects)
        PROVE  validConnector(y.objects, y.objects[c])
    <3>1. c \in connectorsOf(x.objects)
      BY <2>1 DEF connectorsOf, isConnector
    <3>2. \A t \in Terminals : x.objects[c].ends[t] # Free => x.objects[c].ends[t] \in Ids
      BY <1>1, <3>1, VersionKinds DEF connectorsOf, Objects
    <3>3. validConnector(x.objects, x.objects[c])
      BY <3>1 DEF referencesResolve
    <3> QED BY <2>1, <3>1, <3>2, <3>3 DEF validConnector, isShape, connectorsOf
  <2>4. ASSUME NEW d \in Ids
        PROVE  validMembers(y.objects, y.diagrams[d])
    <3>1. validMembers(x.objects, x.diagrams[d])
      BY DEF referencesResolve
    <3>2. x.diagrams[d].memberObjectIds \subseteq Ids /\ x.diagrams[d].connectorIds \subseteq Ids
      BY <1>1, DiagramKinds
    <3> QED BY <2>1, <2>2, <3>1, <3>2 DEF validMembers, isShape, isConnector
  <2> QED BY <2>3, <2>4 DEF referencesResolve, y
<1> QED BY <1>2, <1>3, <1>4 DEF TakesBack

\* Of an object that stays, a transaction's draft changes no route and no
\* bend.
KeepsRoute(o, after) == after.route = o.route /\ after.bent = o.bent

\* The commands on an object that stays, and the layout, only move it.
LEMMA DraftKeepsRoute ==
  ASSUME NEW canvas_, NEW tx, NEW a, NEW places, Fits(canvas_, tx, a), NEW id \in Ids,
         exists(canvas_.objects[id]), exists(objectsDrafted(canvas_, tx, a, places)[id]),
         canvas_.objects[id] \in Objects
  PROVE  KeepsRoute(canvas_.objects[id], objectsDrafted(canvas_, tx, a, places)[id])
<1> DEFINE o == canvas_.objects[id]
           after == afterCommands(canvas_, tx, a)[id]
           draft == objectsDrafted(canvas_, tx, a, places)[id]
<1>1. CASE id \notin DOMAIN tx.commands
  <2>1. after = o
    BY <1>1 DEF afterCommands
  <2>2. draft = o \/ draft = [revised(o, a) EXCEPT !.place = places[id]]
    BY <2>1 DEF objectsDrafted
  <2> HIDE DEF draft, o
  <2>3. [revised(o, a) EXCEPT !.place = places[id]].route = o.route
        /\ [revised(o, a) EXCEPT !.place = places[id]].bent = o.bent
    BY DEF revised, Objects, o
  <2> QED BY <2>2, <2>3 DEF draft, o, KeepsRoute
<1>2. CASE id \in DOMAIN tx.commands
  <2> DEFINE command == tx.commands[id]
  <2>1. after = commanded(o, command, a)
    BY <1>2 DEF afterCommands
  <2>2. command \in Commands /\ command.type # "create"
    <3>1. applyObjectCommand(canvas_, tx, id, a)
      BY <1>2 DEF Fits, semanticFits
    <3>2. command.type # "create"
      BY <3>1 DEF applyObjectCommand
    <3> QED BY <1>2, <3>2 DEF Fits, isTransaction
  <2>3. draft = after
    <3>1. id \notin tx.layout.targets
      BY <1>2 DEF Fits, semanticFits, applyLayout
    <3> QED BY <3>1 DEF objectsDrafted
  <2>4. command.type # "delete"
    BY <2>1, <2>3 DEF commanded, exists, NoObject
  <2>5. command.type \in {"edit", "move", "connect"}
    BY <2>2, <2>4 DEF Commands
  <2> HIDE DEF command, draft, after, o
  <2>6. \/ after = [revised(o, a) EXCEPT !.text = command.text]
        \/ after = [revised(o, a) EXCEPT !.place = command.place]
        \/ after = [revised(o, a) EXCEPT !.ends = command.ends]
    BY <2>1, <2>5 DEF commanded
  <2>7. after.route = o.route /\ after.bent = o.bent
    BY <2>6 DEF revised, Objects, o
  <2> QED BY <2>3, <2>7 DEF draft, o, KeepsRoute
<1> QED BY <1>1, <1>2

\* A transaction that finds every route at the outlines of its ends disturbs
\* nothing that it leaves as it was, but connectors that are attached still.
LEMMA TransactionUndisturbed ==
  ASSUME NEW x \in Canvases, sound(x), routesAreCurrent(x.objects),
         NEW tx, isTransaction(tx), NEW a \in Actors,
         NEW after \in applySemanticTransaction(x, tx, a)
  PROVE  Undisturbed(x, after)
<1>1. PICK places, affected, way :
        /\ Way(x, tx, a, places, affected, way)
        /\ after = transacted(x, tx, objectsDrafted(x, tx, a, places), affected, way, a)
  BY TransactionGoesAWay
<1> DEFINE draft == objectsDrafted(x, tx, a, places)
<1>2. /\ referencesResolve(x) /\ referencesResolve(after)
      /\ after \in Canvases
      /\ routesAreCurrent(after.objects)
      /\ after.objects = objectsAfter(tx, draft, affected, way, a)
  <2>1. after.objects = objectsAfter(tx, draft, affected, way, a)
    BY <1>1 DEF transacted
  <2>2. referencesResolve(x)
    BY DEF sound
  <2>3. routesAreCurrent(after.objects)
    BY <1>1, <2>1, <2>2, RoutesStayCurrent
  <2>4. LeavesSound(x, a, after)
    BY TransactionLeavesSound
  <2> QED BY <2>1, <2>2, <2>3, <2>4 DEF LeavesSound, sound
<1>3. ASSUME NEW c \in Ids, isConnector(after.objects[c]), x.objects[c] = after.objects[c],
             c \notin stillAttached(x.objects, after.objects),
             NEW t \in Terminals, NEW e \in Ids, after.objects[c].ends[t] = e,
             Disturbed(x, after, e)
      PROVE  FALSE
  <2> DEFINE o == x.objects[e]
             p == after.objects[e]
  <2>1. e # Free
    BY EngineAssumption
  <2>2. isShape(o) /\ isShape(p)
    <3>1. validConnector(x.objects, x.objects[c]) /\ validConnector(after.objects, after.objects[c])
      BY <1>2, <1>3 DEF referencesResolve, connectorsOf
    <3> QED BY <1>3, <2>1, <3>1 DEF validConnector
  <2>3. o \in Objects /\ exists(o)
    <3>1. o \in Versions
      BY DEF Canvases, Versions
    <3> HIDE DEF o
    <3> QED BY <2>2, <3>1, VersionKinds
  <2>4. p = draft[e] /\ exists(draft[e])
    <3>1. OutcomeIsSound(x, tx, a, places, affected, way, e)
      BY <1>1, Outcome
    <3>2. isShape(draft[e]) /\ draft[e].kind = p.kind
      BY <1>2, <2>2, <3>1 DEF OutcomeIsSound, isShape
    <3>3. e \notin affected
      BY <1>1, <3>2, Affected DEF Way, connectorsOf, isShape, isConnector
    <3>4. p = draft[e]
      BY <1>2, <3>3 DEF objectsAfter, rerouted
    <3>5. DraftIsSound(x, tx, a, places, e)
      BY <1>1, Drafted DEF Way
    <3>6. draft[e] \in Versions
      BY <3>5 DEF DraftIsSound
    <3> HIDE DEF draft
    <3> QED BY <3>2, <3>4, <3>6, VersionKinds
  <2>5. draft[e].route = o.route /\ draft[e].bent = o.bent
    <3>1. Fits(x, tx, a)
      BY <1>1 DEF Way
    <3>2. exists(x.objects[e]) /\ exists(draft[e]) /\ x.objects[e] \in Objects
      BY <2>3, <2>4
    <3>3. KeepsRoute(x.objects[e], draft[e])
      BY <3>1, <3>2, DraftKeepsRoute
    <3> QED BY <3>3 DEF KeepsRoute
  <2>6. o.place # p.place
    <3> HIDE DEF o, p, draft
    <3> QED BY <1>3, <2>3, <2>4, <2>5 DEF Disturbed, geometryChanged, o, p
  <2>7. x.objects[c].route[t] \in outline(p.place)
    BY <1>2, <1>3, <2>1 DEF routesAreCurrent, connectorsOf
  <2> QED BY <1>3, <2>1, <2>6, <2>7 DEF stillAttached, connectorsOf
<1>4. ASSUME NEW d \in Ids, x.diagrams[d] = after.diagrams[d],
             NEW id \in Ids, id \in contents(after.diagrams[d]), Disturbed(x, after, id)
      PROVE  FALSE
  <2>1. after.objects[id] # x.objects[id]
    BY <1>4 DEF Disturbed
  <2>2. after.diagrams[d].revision # x.diagrams[d].revision
    BY <1>1, <1>4, <2>1, DiagramsFollow
  <2> QED BY <1>4, <2>2
<1> QED BY <1>3, <1>4 DEF Undisturbed

\* Neither does a revert, which first looks for what depends on what it
\* takes back.
LEMMA RevertUndisturbed ==
  ASSUME NEW x \in Canvases, NEW activity \in ActivityRecords, MovesAreRecorded(activity),
         NEW a \in Actors, NEW after \in applyActivityRevert(x, activity, a)
  PROVE  Undisturbed(x, after)
<1> DEFINE changes == activity.objectChanges
           edited == activity.diagramChanges
           sensitive == dependencySensitiveIds(activity)
<1>1. revertFits(x, activity, a) /\ after = reverted(x, activity, a)
  BY DEF applyActivityRevert
<1>2. /\ DOMAIN changes \subseteq Ids /\ DOMAIN edited \subseteq Ids
      /\ \A id \in DOMAIN changes : changes[id].before \in Versions
      /\ \A d \in DOMAIN edited : edited[d].before \in DiagramVersions
  <2>1. /\ activity.objectChanges \in Partial(ObjectChanges)
        /\ activity.diagramChanges \in Partial(DiagramChanges)
    BY DEF ActivityRecords
  <2>2. /\ \A id \in DOMAIN changes : changes[id] \in ObjectChanges
        /\ \A d \in DOMAIN edited : edited[d] \in DiagramChanges
        /\ DOMAIN changes \subseteq Ids /\ DOMAIN edited \subseteq Ids
    BY <2>1, PartialFunctions
  <2> QED BY <2>2 DEF ObjectChanges, DiagramChanges
<1>3. /\ \A id \in Ids : x.objects[id] \in Versions /\ x.diagrams[id] \in DiagramVersions
      /\ \A id \in DOMAIN changes : x.objects[id] = changes[id].after
      /\ \A d \in DOMAIN edited : x.diagrams[d] = edited[d].after
  BY <1>1 DEF revertFits, guardsHold, Canvases, Versions, DiagramVersions
<1>4. /\ \A c \in connectorsOf(x.objects) \ DOMAIN changes :
           \A t \in Terminals : x.objects[c].ends[t] \notin sensitive
      /\ \A d \in Ids \ DOMAIN edited : contents(x.diagrams[d]) \cap sensitive = {}
  BY <1>1 DEF revertFits, validateRevertDependencies, externalConnectorIds, externalDiagramIds
<1>5. /\ \A id \in Ids : ~(id \in DOMAIN changes /\ changes[id].isDirect)
                         => after.objects[id] = x.objects[id]
      /\ \A id \in DOMAIN changes : changes[id].isDirect =>
           after.objects[id] = restored(x.objects[id], changes[id].before, a)
      /\ \A d \in Ids \ DOMAIN edited : after.diagrams[d] = x.diagrams[d]
      /\ \A d \in DOMAIN edited : after.diagrams[d] = restored(x.diagrams[d], edited[d].before, a)
  BY <1>1, <1>2 DEF reverted
<1> HIDE DEF changes, edited, sensitive
<1>6. ASSUME NEW id \in Ids, Disturbed(x, after, id)
      PROVE  id \in sensitive
  <2> DEFINE o == x.objects[id]
             before == changes[id].before
             y == after.objects[id]
  <2>1. id \in DOMAIN changes /\ changes[id].isDirect
    BY <1>5, <1>6 DEF Disturbed
  <2>2. o \in Versions /\ before \in Versions /\ y = restored(o, before, a) /\ o = changes[id].after
    BY <1>2, <1>3, <1>5, <2>1
  <2>3. geometryChanged(o, y)
    BY <1>6 DEF Disturbed
  <2> HIDE DEF o, before, y
  <2>4. /\ y.place = before.place /\ y.route = before.route /\ y.bent = before.bent
        /\ exists(y) <=> exists(before)
    <3>1. o \in Versions /\ before \in Versions
      BY <2>2
    <3>2. LET z == restored(o, before, a) IN
          /\ z.place = before.place /\ z.route = before.route /\ z.bent = before.bent
          /\ exists(z) <=> exists(before)
      BY <3>1, RestoredAsBefore
    <3> QED BY <2>2, <3>2
  <2>5. geometryChanged(before, o)
    BY <2>3, <2>4 DEF geometryChanged
  <2> QED BY <2>1, <2>2, <2>5 DEF before, changes, sensitive, dependencySensitiveIds
<1>7. ASSUME NEW d \in Ids, x.diagrams[d] = after.diagrams[d], NEW id \in Ids,
             id \in contents(after.diagrams[d]), Disturbed(x, after, id)
      PROVE  FALSE
  <2>1. id \in sensitive
    BY <1>6, <1>7
  <2>2. d \in DOMAIN edited
    BY <1>4, <1>7, <2>1
  <2> DEFINE e == x.diagrams[d]
             before == edited[d].before
  <2>3. e \in DiagramVersions /\ before \in DiagramVersions /\ e = restored(e, before, a)
    BY <1>2, <1>3, <1>5, <1>7, <2>2
  <2>4. id \in contents(e)
    BY <1>7
  <2> HIDE DEF e, before
  <2>5. ~exists(before) /\ contents(e) = contents(before)
    BY <2>3, RestoredDiagramAsBefore
  <2>6. contents(before) = {}
    BY <2>3, <2>5, DiagramKinds DEF contents
  <2> QED BY <2>4, <2>5, <2>6
<1>8. ASSUME NEW c \in Ids, isConnector(after.objects[c]), x.objects[c] = after.objects[c],
             diagramIds(x, c) = diagramIds(after, c),
             NEW t \in Terminals, NEW e \in Ids, after.objects[c].ends[t] = e,
             Disturbed(x, after, e)
      PROVE  FALSE
  <2>1. e \in sensitive
    BY <1>6, <1>8
  <2>2. c \in DOMAIN changes
    BY <1>4, <1>8, <2>1 DEF connectorsOf
  <2>3. CASE changes[c].isDirect
    <3> DEFINE o == x.objects[c]
               before == changes[c].before
    <3>1. /\ o \in Versions /\ before \in Versions /\ o = restored(o, before, a)
          /\ isConnector(o)
      BY <1>2, <1>3, <1>5, <1>8, <2>2, <2>3
    <3> HIDE DEF o, before
    <3>2. ~exists(before) /\ exists(o)
      BY <3>1, RestoredAsBefore, VersionKinds
    <3> QED BY <3>1, <3>2 DEF restored
  <2>4. CASE ~changes[c].isDirect
    <3>1. PICK d \in DOMAIN edited : ~(c \in contents(edited[d].before)
                                       <=> c \in contents(edited[d].after))
      BY <2>2, <2>4 DEF MovesAreRecorded, changes, edited
    <3> DEFINE current == x.diagrams[d]
               before == edited[d].before
    <3>2. /\ current \in DiagramVersions /\ before \in DiagramVersions
          /\ after.diagrams[d] = restored(current, before, a) /\ current = edited[d].after
      BY <1>2, <1>3, <1>5, <3>1
    <3> HIDE DEF current, before
    <3>3. contents(after.diagrams[d]) = contents(before)
      <4> DEFINE y == restored(current, before, a)
      <4>1. y.memberObjectIds = before.memberObjectIds /\ y.connectorIds = before.connectorIds
        BY <3>2, RestoredDiagramAsBefore
      <4> QED BY <3>2, <4>1 DEF contents
    <3>4. ~(c \in contents(x.diagrams[d]) <=> c \in contents(after.diagrams[d]))
      BY <3>1, <3>2, <3>3 DEF current, before
    <3> QED BY <1>2, <1>8, <3>1, <3>4 DEF diagramIds
  <2> QED BY <2>3, <2>4
<1> QED BY <1>7, <1>8 DEF Undisturbed

\* The history has only such activities.
HistoryIsTrue == \A n \in 1..Len(activities) : MovesAreRecorded(activities[n])

\* Every step keeps it so, because activities never change.
LEMMA HistoryStaysTrue ==
  ASSUME CanvasInv, HistoryIsTrue, [Next]_vars
  PROVE  HistoryIsTrue'
<1>1. CASE Recorded
  <2>1. ActivityOf(latest'.actor)
    BY <1>1, RecordedActivity
  <2>2. /\ Len(activities) \in Nat /\ Len(activities') = Len(activities) + 1
        /\ \A n \in 1..Len(activities) : activities'[n] = activities[n]
        /\ latest' = buildRoomActivity(canvas, canvas', latest'.actor, latest'.revertsActivityId)
    BY <2>1 DEF ActivityOf, CanvasInv, HistoryOK
  <2>3. MovesAreRecorded(latest')
    <3> DEFINE a == latest'.actor
               i == latest'.revertsActivityId
    <3> HIDE DEF a, i
    <3>1. IsRecord(canvas, canvas', buildRoomActivity(canvas, canvas', a, i))
      BY BuiltRecord
    <3>2. MovesAreRecorded(buildRoomActivity(canvas, canvas', a, i))
      BY <3>1, BuiltMoves
    <3> QED BY <2>2, <3>2 DEF a, i
  <2>4. latest' = activities'[Len(activities')]
    BY DEF latest
  <2> QED BY <2>2, <2>3, <2>4 DEF HistoryIsTrue
<1>2. CASE ~Recorded
  BY <1>2 DEF Recorded, HistoryIsTrue
<1> QED BY <1>1, <1>2

\* What was just done can be taken back: its record has all that it changed,
\* nothing it left alone depends on that but connectors that are attached
\* still, and what is given back resolves.
THEOREM ChangesCanBeTakenBack == Spec => LastChangeCanBeTakenBack
<1>1. ASSUME CanvasInv, HistoryIsTrue, [Next]_vars
      PROVE  [Recorded /\ routesAreCurrent(canvas.objects) =>
                canBeTakenBack(canvas, canvas', latest')]_vars
  <2> SUFFICES ASSUME Recorded, routesAreCurrent(canvas.objects)
               PROVE  canBeTakenBack(canvas, canvas', latest')
    OBVIOUS
  <2> DEFINE a == latest'.actor
             i == latest'.revertsActivityId
  <2>1. ActivityOf(a) /\ a \in Actors /\ canvas \in Canvases /\ sound(canvas)
    BY <1>1, RecordedActivity DEF CanvasInv
  <2>2. latest' = buildRoomActivity(canvas, canvas', a, i) /\ canvas' \in Canvases
        /\ (Transacted(a, i) \/ Reversed(a, i))
    BY <2>1 DEF ActivityOf, LeavesSound
  <2> HIDE DEF a, i
  <2>3. IsRecord(canvas, canvas', latest')
    BY <2>2, BuiltRecord
  <2>4. Undisturbed(canvas, canvas')
    <3>1. CASE Transacted(a, i)
      <4>1. PICK tx \in Transactions : canvas' \in applySemanticTransaction(canvas, tx, a)
        BY <3>1 DEF Transacted
      <4>2. isTransaction(tx)
        BY CanvasAssumption
      <4> QED BY <2>1, <4>1, <4>2, TransactionUndisturbed
    <3>2. CASE Reversed(a, i)
      <4>1. i \in 1..Len(activities) /\ canvas' \in applyActivityRevert(canvas, activities[i], a)
        BY <3>2 DEF Reversed
      <4>2. activities[i] \in ActivityRecords /\ MovesAreRecorded(activities[i])
        BY <1>1, <4>1 DEF CanvasInv, HistoryOK, HistoryIsTrue
      <4> QED BY <2>1, <4>1, <4>2, RevertUndisturbed
    <3> QED BY <2>2, <3>1, <3>2
  <2>5. referencesResolve(canvas)
    BY <2>1 DEF sound
  <2>6. TakesBack(canvas, canvas', latest', a)
    BY <2>1, <2>2, <2>3, <2>4, <2>5, RecordFits
  <2> QED BY <2>6 DEF a, TakesBack, canBeTakenBack
<1>2. Init => HistoryIsTrue
  BY DEF Init, HistoryIsTrue
<1>3. Spec => []HistoryIsTrue
  <2>1. CanvasInv /\ HistoryIsTrue /\ [Next]_vars => HistoryIsTrue'
    BY HistoryStaysTrue
  <2> QED BY CanvasCorrect, <1>2, <2>1, PTL DEF Spec
<1> QED BY CanvasCorrect, <1>1, <1>3, PTL DEF Spec, LastChangeCanBeTakenBack

-----------------------------------------------------------------------------
(* A revision names one version for as long as its entity lives.           *)

\* Activities m to n deleted the entity.
Deleted(records, m, n, id) ==
  \E k \in m..n : id \in DOMAIN records[k] /\ ~exists(records[k][id].after)

\* What an activity found is still there, or something with a later revision
\* is, or it was deleted since.
InLife(records, n, current) ==
  \A m \in 1..n : \A id \in DOMAIN records[m] :
    \/ records[m][id].before = current[id]
    \/ records[m][id].before.revision < current[id].revision
    \/ Deleted(records, m, n, id)

\* The entities of Ids have revisions.
Revised(current) == \A id \in Ids : current[id].revision \in Nat

\* An activity's record says what it changes from x to y, and it changes what
\* stays to the next revision.
Records(record, x, y) ==
  /\ DOMAIN record \subseteq Ids
  /\ \A id \in DOMAIN record : record[id].before = x[id] /\ record[id].after = y[id]
  /\ \A id \in Ids : x[id] # y[id] => id \in DOMAIN record
  /\ \A id \in Ids : x[id] # y[id] /\ exists(x[id]) /\ exists(y[id]) =>
       y[id].revision = x[id].revision + 1

\* What was found before an activity and is found, or is outdated, after it.
LEMMA LifeOfOne ==
  ASSUME NEW n \in Nat, NEW grown, NEW x, NEW y, Revised(x), Revised(y), Records(grown[n + 1], x, y),
         NEW m \in 1..(n + 1), NEW id \in Ids, NEW found, found.revision \in Nat,
         found = x[id] \/ found.revision < x[id].revision
  PROVE  found = y[id] \/ found.revision < y[id].revision \/ Deleted(grown, m, n + 1, id)
<1>1. x[id].revision \in Nat /\ y[id].revision \in Nat
  BY DEF Revised
<1>2. CASE x[id] = y[id]
  BY <1>2
<1>3. CASE x[id] # y[id] /\ ~exists(y[id])
  <2>1. id \in DOMAIN grown[n + 1] /\ grown[n + 1][id].after = y[id]
    BY <1>3 DEF Records
  <2>2. n + 1 \in m..(n + 1)
    OBVIOUS
  <2> QED BY <1>3, <2>1, <2>2 DEF Deleted
<1>4. CASE x[id] # y[id] /\ exists(y[id]) /\ exists(x[id])
  <2>1. y[id].revision = x[id].revision + 1
    BY <1>4 DEF Records
  <2>2. found.revision <= x[id].revision
    BY <1>1
  <2> QED BY <1>1, <2>1, <2>2
<1>5. CASE x[id] # y[id] /\ exists(y[id]) /\ ~exists(x[id])
  <2>1. x[id].revision = 0 /\ y[id].revision > 0
    BY <1>1, <1>5 DEF exists
  <2>2. found.revision <= x[id].revision
    BY <1>1
  <2> QED BY <1>1, <2>1, <2>2
<1> QED BY <1>2, <1>3, <1>4, <1>5

\* The records of a history up to n.
History(records, n) ==
  /\ DOMAIN records = 1..n
  /\ \A k \in 1..n : /\ DOMAIN records[k] \subseteq Ids
                     /\ \A id \in DOMAIN records[k] : records[k][id].before.revision \in Nat

\* Another activity keeps every life in order.
LEMMA LifeGoesOn ==
  ASSUME NEW n \in Nat, NEW records, NEW grown, NEW x, NEW y, Revised(x), Revised(y),
         History(records, n), DOMAIN grown = 1..(n + 1), \A k \in 1..n : grown[k] = records[k],
         Records(grown[n + 1], x, y), InLife(records, n, x), inOrder(records)
  PROVE  InLife(grown, n + 1, y) /\ inOrder(grown)
<1>1. InLife(grown, n + 1, y)
  <2> SUFFICES ASSUME NEW m \in 1..(n + 1), NEW id \in DOMAIN grown[m]
               PROVE  \/ grown[m][id].before = y[id]
                      \/ grown[m][id].before.revision < y[id].revision
                      \/ Deleted(grown, m, n + 1, id)
    BY DEF InLife
  <2> DEFINE found == grown[m][id].before
  <2>1. CASE m = n + 1
    <3>1. id \in Ids /\ found = x[id]
      BY <2>1 DEF Records
    <3>2. found.revision \in Nat
      BY <3>1 DEF Revised
    <3> HIDE DEF found
    <3>3. found = y[id] \/ found.revision < y[id].revision \/ Deleted(grown, m, n + 1, id)
      BY <3>1, <3>2, LifeOfOne
    <3> QED BY <3>3 DEF found
  <2>2. CASE m \in 1..n
    <3>1. grown[m] = records[m] /\ id \in DOMAIN records[m]
      BY <2>2
    <3>2. id \in Ids /\ found.revision \in Nat
      BY <2>2, <3>1 DEF History
    <3>3. found = x[id] \/ found.revision < x[id].revision \/ Deleted(records, m, n, id)
      BY <2>2, <3>1 DEF InLife
    <3>4. CASE Deleted(records, m, n, id)
      <4>1. PICK k \in m..n : id \in DOMAIN records[k] /\ ~exists(records[k][id].after)
        BY <3>4 DEF Deleted
      <4>2. k \in m..(n + 1) /\ grown[k] = records[k]
        BY <2>2, <4>1
      <4> QED BY <4>1, <4>2 DEF Deleted
    <3> HIDE DEF found
    <3>5. CASE found = x[id] \/ found.revision < x[id].revision
      <4>1. found = y[id] \/ found.revision < y[id].revision \/ Deleted(grown, m, n + 1, id)
        BY <3>2, <3>5, LifeOfOne
      <4> QED BY <4>1 DEF found
    <3> QED BY <3>3, <3>4, <3>5
  <2> QED BY <2>1, <2>2
<1>2. inOrder(grown)
  <2> SUFFICES ASSUME NEW m \in 1..(n + 1), NEW k \in 1..(n + 1), m <= k,
                      NEW id \in DOMAIN grown[m] \cap DOMAIN grown[k]
               PROVE  \/ grown[m][id].before = grown[k][id].after
                      \/ grown[m][id].before.revision < grown[k][id].after.revision
                      \/ Deleted(grown, m, k, id)
    BY DEF inOrder, Deleted
  <2>1. CASE k = n + 1
    <3>1. grown[k][id].after = y[id]
      BY <2>1 DEF Records
    <3>2. \/ grown[m][id].before = y[id]
          \/ grown[m][id].before.revision < y[id].revision
          \/ Deleted(grown, m, n + 1, id)
      BY <1>1 DEF InLife
    <3> QED BY <2>1, <3>1, <3>2
  <2>2. CASE k \in 1..n
    <3>1. m \in 1..n /\ grown[m] = records[m] /\ grown[k] = records[k]
      BY <2>2
    <3>2. \/ records[m][id].before = records[k][id].after
          \/ records[m][id].before.revision < records[k][id].after.revision
          \/ Deleted(records, m, k, id)
      BY <2>2, <3>1 DEF inOrder, Deleted, History
    <3>3. Deleted(records, m, k, id) => Deleted(grown, m, k, id)
      <4>1. \A l \in m..k : grown[l] = records[l]
        BY <2>2, <3>1
      <4> QED BY <4>1 DEF Deleted
    <3> QED BY <3>1, <3>2, <3>3
  <2> QED BY <2>1, <2>2
<1> QED BY <1>1, <1>2

\* The history as it is told of objects, and of Diagrams.
objectHistory == [n \in DOMAIN activities |-> activities[n].objectChanges]
diagramHistory == [n \in DOMAIN activities |-> activities[n].diagramChanges]

LivesInOrder ==
  /\ InLife(objectHistory, Len(activities), canvas.objects)
  /\ InLife(diagramHistory, Len(activities), canvas.diagrams)
  /\ inOrder(objectHistory)
  /\ inOrder(diagramHistory)

\* Every step keeps lives in order.
LEMMA LivesStayInOrder ==
  ASSUME CanvasInv, LivesInOrder, [Next]_vars
  PROVE  LivesInOrder'
<1>1. CASE Recorded
  <2> DEFINE n == Len(activities)
             a == latest'.actor
             i == latest'.revertsActivityId
  <2>1. ActivityOf(a) /\ canvas \in Canvases
    BY <1>1, RecordedActivity DEF CanvasInv
  <2>2. /\ latest' = buildRoomActivity(canvas, canvas', a, i)
        /\ LeavesSound(canvas, a, canvas')
        /\ activities \in Seq(ActivityRecords) /\ activities' \in Seq(ActivityRecords)
        /\ Len(activities') = n + 1 /\ n \in Nat
        /\ \A k \in 1..n : activities'[k] = activities[k]
        /\ latest' = activities'[n + 1]
    BY <2>1 DEF ActivityOf, CanvasInv, HistoryOK, latest
  <2> HIDE DEF n, a, i
  <2>3. IsRecord(canvas, canvas', activities'[n + 1])
    BY <2>2, BuiltRecord
  <2>4. DOMAIN activities = 1..n /\ DOMAIN activities' = 1..(n + 1)
    BY <2>2 DEF n
  <2>5. \A k \in 1..n :
          /\ activities[k].objectChanges \in Partial(ObjectChanges)
          /\ activities[k].diagramChanges \in Partial(DiagramChanges)
    <3> TAKE k \in 1..n
    <3>1. activities[k] \in ActivityRecords
      BY <2>2, <2>4
    <3> QED BY <3>1 DEF ActivityRecords
  <2>6. canvas' \in Canvases
    BY <2>2 DEF LeavesSound
  <2>7. InLife(objectHistory', n + 1, canvas'.objects) /\ inOrder(objectHistory')
    <3>1. Revised(canvas.objects) /\ Revised(canvas'.objects)
      <4>1. \A id \in Ids : canvas.objects[id] \in Versions /\ canvas'.objects[id] \in Versions
        BY <2>1, <2>6 DEF Canvases, Versions
      <4> QED BY <4>1, VersionKinds DEF Revised
    <3>2. /\ DOMAIN objectHistory = 1..n /\ DOMAIN objectHistory' = 1..(n + 1)
          /\ \A k \in 1..n : objectHistory[k] = activities[k].objectChanges
          /\ \A k \in 1..(n + 1) : objectHistory'[k] = activities'[k].objectChanges
      BY <2>4 DEF objectHistory
    <3>3. \A k \in 1..n : objectHistory'[k] = objectHistory[k]
      BY <2>2, <3>2
    <3>4. History(objectHistory, n)
      <4>1. ASSUME NEW k \in 1..n, NEW id \in DOMAIN objectHistory[k]
            PROVE  objectHistory[k][id].before.revision \in Nat
        <5>1. objectHistory[k][id] \in ObjectChanges
          BY <2>5, <3>2, PartialFunctions
        <5>2. objectHistory[k][id].before \in Versions
          BY <5>1 DEF ObjectChanges
        <5> QED BY <5>2, VersionKinds
      <4>2. \A k \in 1..n : DOMAIN objectHistory[k] \subseteq Ids
        BY <2>5, <3>2, PartialFunctions
      <4> QED BY <3>2, <4>1, <4>2 DEF History
    <3>5. Records(objectHistory'[n + 1], canvas.objects, canvas'.objects)
      <4> DEFINE record == objectHistory'[n + 1]
      <4>1. record = activities'[n + 1].objectChanges
        BY <2>2, <3>2
      <4> HIDE DEF record
      <4>2. /\ DOMAIN record \subseteq Ids
            /\ \A id \in DOMAIN record : /\ record[id].before = canvas.objects[id]
                                         /\ record[id].after = canvas'.objects[id]
            /\ \A id \in Ids : canvas.objects[id] # canvas'.objects[id] => id \in DOMAIN record
        BY <2>3, <4>1 DEF IsRecord
      <4>3. \A id \in Ids : follows(canvas.objects[id], canvas'.objects[id], a)
        BY <2>2 DEF LeavesSound
      <4> QED BY <4>2, <4>3 DEF Records, follows, record
    <3>6. InLife(objectHistory, n, canvas.objects) /\ inOrder(objectHistory)
      BY DEF LivesInOrder, n
    <3> QED BY <2>2, <3>1, <3>2, <3>3, <3>4, <3>5, <3>6, LifeGoesOn
  <2>8. InLife(diagramHistory', n + 1, canvas'.diagrams) /\ inOrder(diagramHistory')
    <3>1. Revised(canvas.diagrams) /\ Revised(canvas'.diagrams)
      <4>1. \A d \in Ids : canvas.diagrams[d] \in DiagramVersions /\ canvas'.diagrams[d] \in DiagramVersions
        BY <2>1, <2>6 DEF Canvases, DiagramVersions
      <4> QED BY <4>1, DiagramKinds DEF Revised
    <3>2. /\ DOMAIN diagramHistory = 1..n /\ DOMAIN diagramHistory' = 1..(n + 1)
          /\ \A k \in 1..n : diagramHistory[k] = activities[k].diagramChanges
          /\ \A k \in 1..(n + 1) : diagramHistory'[k] = activities'[k].diagramChanges
      BY <2>4 DEF diagramHistory
    <3>3. \A k \in 1..n : diagramHistory'[k] = diagramHistory[k]
      BY <2>2, <3>2
    <3>4. History(diagramHistory, n)
      <4>1. ASSUME NEW k \in 1..n, NEW d \in DOMAIN diagramHistory[k]
            PROVE  diagramHistory[k][d].before.revision \in Nat
        <5>1. diagramHistory[k][d] \in DiagramChanges
          BY <2>5, <3>2, PartialFunctions
        <5>2. diagramHistory[k][d].before \in DiagramVersions
          BY <5>1 DEF DiagramChanges
        <5> QED BY <5>2, DiagramKinds
      <4>2. \A k \in 1..n : DOMAIN diagramHistory[k] \subseteq Ids
        BY <2>5, <3>2, PartialFunctions
      <4> QED BY <3>2, <4>1, <4>2 DEF History
    <3>5. Records(diagramHistory'[n + 1], canvas.diagrams, canvas'.diagrams)
      <4> DEFINE record == diagramHistory'[n + 1]
      <4>1. record = activities'[n + 1].diagramChanges
        BY <2>2, <3>2
      <4> HIDE DEF record
      <4>2. /\ DOMAIN record \subseteq Ids
            /\ \A d \in DOMAIN record : /\ record[d].before = canvas.diagrams[d]
                                        /\ record[d].after = canvas'.diagrams[d]
            /\ \A d \in Ids : canvas.diagrams[d] # canvas'.diagrams[d] => d \in DOMAIN record
        BY <2>3, <4>1 DEF IsRecord
      <4>3. \A d \in Ids : follows(canvas.diagrams[d], canvas'.diagrams[d], a)
        BY <2>2 DEF LeavesSound
      <4> QED BY <4>2, <4>3 DEF Records, follows, record
    <3>6. InLife(diagramHistory, n, canvas.diagrams) /\ inOrder(diagramHistory)
      BY DEF LivesInOrder, n
    <3> QED BY <2>2, <3>1, <3>2, <3>3, <3>4, <3>5, <3>6, LifeGoesOn
  <2> QED BY <2>2, <2>7, <2>8 DEF LivesInOrder
<1>2. CASE ~Recorded
  <2>1. UNCHANGED activities
    BY <1>2 DEF Recorded
  <2>2. canvas'.objects = canvas.objects /\ canvas'.diagrams = canvas.diagrams
    <3>1. Len(activities) \in Nat /\ Len(activities') = Len(activities)
      BY <2>1 DEF CanvasInv, HistoryOK
    <3>2. ASSUME NEW a, ActivityOf(a)
          PROVE  FALSE
      BY <3>1, <3>2 DEF ActivityOf
    <3> QED BY <3>2, StepKinds
  <2>3. UNCHANGED <<objectHistory, diagramHistory>>
    BY <2>1 DEF objectHistory, diagramHistory
  <2> QED BY <2>1, <2>2, <2>3 DEF LivesInOrder
<1> QED BY <1>1, <1>2

\* In any history of edits, layouts, routes, reverts and applied proposals, a
\* later version of an object or a Diagram has a later revision than every
\* version there was since it came to be.
THEOREM RevisionsAreNames == Spec => []RevisionsNameVersions
<1>1. Init => LivesInOrder
  <2> SUFFICES ASSUME Init PROVE LivesInOrder
    OBVIOUS
  <2>1. activities = <<>> /\ Len(activities) = 0 /\ DOMAIN activities = {}
    BY DEF Init
  <2>2. DOMAIN objectHistory = {} /\ DOMAIN diagramHistory = {}
    BY <2>1 DEF objectHistory, diagramHistory
  <2>3. inOrder(objectHistory) /\ inOrder(diagramHistory)
    BY <2>2 DEF inOrder
  <2>4. 1..Len(activities) = {}
    BY <2>1
  <2> QED BY <2>3, <2>4 DEF LivesInOrder, InLife
<1>2. CanvasInv /\ LivesInOrder /\ [Next]_vars => LivesInOrder'
  BY LivesStayInOrder
<1>3. LivesInOrder => RevisionsNameVersions
  BY DEF LivesInOrder, RevisionsNameVersions, objectHistory, diagramHistory
<1> QED BY CanvasCorrect, <1>1, <1>2, <1>3, PTL DEF Spec
=============================================================================
