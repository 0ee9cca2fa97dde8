---------------------------- MODULE MCRoomStore -----------------------------
(***************************************************************************)
(* Small instances of RoomStore.  Each cfg picks the calls that race.      *)
(***************************************************************************)
EXTENDS RoomStore, TLC

CONSTANTS
  a, b, c,         \* calls
  ann, bo,         \* members
  box,             \* an object
  k1,              \* an idempotency key
  r1, r2           \* request digests

\* Ann presents and is about to be away, Bo holds nothing and is away
\* already, but is not yet shown as disconnected.
MCCreated ==
  [document |-> [roomRevision |-> 1,
                 content |-> [reviewing |-> FALSE,
                              edits |-> [x \in Calls |-> 0],
                              proposals |-> [x \in Calls |-> 0]]],
   awareness |-> [lastSeenAt |-> [m \in Members |-> 0],
                  connected |-> [m \in Members |-> TRUE],
                  presenter |-> ann,
                  followers |-> Members],
   coordination |-> [stateRevision |-> 1, roomRevision |-> 1,
                     leases |-> [o \in Objects |-> NoLease]]]

OneTarget == [x \in Calls |-> box]

\* A retry: two calls of one request under one key, and a stranger.
RetryKeys     == a :> k1 @@ b :> k1 @@ c :> NoKey
RetryRequests == a :> r1 @@ b :> r1 @@ c :> r2
RetryOps      == a :> "agent_edit" @@ b :> "agent_edit" @@ c :> "policy"
RetryActors   == a :> ann @@ b :> ann @@ c :> bo

\* Heartbeats, the clock and a reader around an edit and the takeover of a
\* Spotlight whose presenter may be away, which reuse one key for two requests.
LiveKeys     == a :> k1 @@ b :> k1
LiveRequests == a :> r1 @@ b :> r2
LiveOps      == a :> "edit" @@ b :> "spotlight"
LiveActors   == a :> ann @@ b :> bo

\* One proposal that comes without a connection of its own, and a reader.
FairKeys     == a :> k1
FairRequests == a :> r1
FairOps      == a :> "agent_edit"
FairActors   == a :> ann

\* With review mode off, on, or one or the other.
Editing   == {MCCreated}
Reviewing == {[MCCreated EXCEPT !.document.content.reviewing = TRUE]}
Either    == Editing \cup Reviewing

\* The object is Bo's, until his lease expires.
Leased == {[MCCreated EXCEPT !.coordination.leases = [o \in Objects |->
                               [holder |-> bo, expiresAt |-> LeaseMs]]]}
=============================================================================
