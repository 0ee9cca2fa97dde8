------------------------------ MODULE RoomMirror ------------------------------
(***************************************************************************)
(* What the realtime path promises every browser of a room, whatever       *)
(* carries the updates: the browser shows one version the room really had, *)
(* never goes back to an earlier one, and is up to date again and again.   *)
(***************************************************************************)
EXTENDS Naturals

CONSTANT Clients

VARIABLES
  version,   \* the number of commits the room has had
  shown      \* the version each browser shows; 0 before it has any

vars == <<version, shown>>

Init ==
  /\ version = 0
  /\ shown = [c \in Clients |-> 0]

\* One command may append more than one version at once.
Commit ==
  /\ version' \in Nat
  /\ version' > version
  /\ UNCHANGED shown

Show(c) ==
  /\ \E v \in shown[c] + 1 .. version : shown' = [shown EXCEPT ![c] = v]
  /\ UNCHANGED version

Next == Commit \/ \E c \in Clients : Show(c)

UpToDate == \A c \in Clients : []<>(shown[c] = version)

Spec == Init /\ [][Next]_vars /\ UpToDate
==============================================================================
