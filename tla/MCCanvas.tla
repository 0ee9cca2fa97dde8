------------------------------ MODULE MCCanvas ------------------------------
(***************************************************************************)
(* Two shapes a and b, a connector c between them, a Diagram d.            *)
(***************************************************************************)
EXTENDS Canvas, TLC

CONSTANTS a, b, c, d, ann, bot, p1, p2, p3, left, right, t1, t2

\* An object that is resized from p1 to p2 keeps the edge its connectors are
\* at; at p3 they follow it.
MCOutline == p1 :> {right} @@ p2 :> {right} @@ p3 :> {left}

shape(place) == [NoObject EXCEPT !.kind = "shape", !.text = t1, !.place = place]
connector(ends) == [NoObject EXCEPT !.kind = "connector", !.text = t1, !.ends = ends]
ends(x, y) == [t \in Terminals |-> IF t = "start" THEN x ELSE y]
diagram(members, connectors) ==
  [NoDiagram EXCEPT !.text = t1, !.memberObjectIds = members, !.connectorIds = connectors]

NoLayout == [targets |-> {}, diagram |-> NoId]
commands(f) == [commands |-> f, diagramCommands |-> <<>>, layout |-> NoLayout]
diagramCommands(f) == [commands |-> <<>>, diagramCommands |-> f, layout |-> NoLayout]
layout(targets, of) ==
  [commands |-> <<>>, diagramCommands |-> <<>>, layout |-> [targets |-> targets, diagram |-> of]]

\* The revision and the editor of what is asked for are overwritten.
made(x) == [x EXCEPT !.revision = 1, !.editor = ann]
create(o) == [type |-> "create", object |-> made(o)]
move(p) == [type |-> "move", place |-> p]
edit(t) == [type |-> "edit", text |-> t]
connect(e) == [type |-> "connect", ends |-> e]
delete == [type |-> "delete"]

Move == commands(a :> move(p2))
Arrange == diagramCommands(d :> [type |-> "arrange", memberObjectIds |-> {b}, connectorIds |-> {c}])

MCTransactions ==
  {Move, Arrange,
   commands(a :> create(shape(p1))),
   commands(a :> delete),
   commands(c :> delete),
   [commands(b :> edit(t2) @@ c :> connect(ends(b, Free))) EXCEPT
      !.diagramCommands = d :> [type |-> "retitle", text |-> t2]],
   commands(c :> create(connector(ends(a, b)))),
   diagramCommands(d :> [type |-> "create", diagram |-> made(diagram({a}, {c}))]),
   layout({a}, d)}
MCProposals == {Arrange}

MCLeaseTargets == {{c}}

\* Two shapes and the connector between them.
MCCreated ==
  {[objects |-> [id \in Ids |->
      CASE id = a -> made(shape(p1))
        [] id = b -> made(shape(p2))
        [] id = c -> [made(connector(ends(a, b))) EXCEPT
                        !.route = [t \in Terminals |-> right]]
        [] OTHER -> NoObject],
    diagrams |-> [id \in Ids |-> NoDiagram],
    leases |-> [id \in Ids |-> Nobody]]}
=============================================================================
