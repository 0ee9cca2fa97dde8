# Jazzboard in TLA+

Jazzboard is a multiplayer diagram canvas for people and their browser agents.
Its authority is a room in Redis that several stateless servers write at once,
plus a handful of Redis sidecars (agent drafts, agent messages, blob claims,
read-only snapshots) that live beside the room and refer to it. This directory holds a formal model of
that code: TLA+ modules, TLC configurations that check them on small instances,
and TLAPS proofs for every value of the constants.

Paths below are those of the repository; `lib/` stands for `src/lib/`.

- [What there is to model](#what-there-is-to-model)
- [The room store](#the-room-store)
- [The canvas](#the-canvas)
- [Agent drafts](#agent-drafts)
- [The realtime path](#the-realtime-path)
- [Agent messages](#agent-messages)
- [Private images](#private-images)
- [Runs](#runs)
- [What is proved](#what-is-proved)
- [Assumptions](#assumptions)
- [Where code and documents disagree](#where-code-and-documents-disagree)
- [What is not modelled](#what-is-not-modelled)
- [Order of work](#order-of-work)

To run everything: `tlc -config <name>.cfg MC<Module>.tla` for each
configuration, and `tlapm <Module>Proofs.tla` for each module of proofs.

## What there is to model

| Component | State | Operations | Hard because |
|---|---|---|---|
| Room store `lib/server/room-store.ts` | three planes, receipts, event stream | `transact`, `getRoom`, `updatePresence`, `createRoom` | optimistic transactions on two commit paths, lost replies, liveness derived from the clock |
| Room planes `lib/server/room-planes.ts` | document, awareness, coordination | split, compose, reconcile | two revisions and a fence that several paths must keep |
| Presence script `redis-presence-script.ts` | awareness and coordination | heartbeat | writes without reading the document and without retry |
| Commands `lib/server/room-service.ts`, `lib/domain/engine.ts` | objects, leases, proposals, Spotlight | canvas commands, agent edits, review, revert | guards on revisions and leases inside a retried updater; a decision read before the transaction |
| Agent drafts `agent-draft-store.ts`, `agent-draft-service.ts` | one hash per room | stage, replace, touch, commit, discard, reconcile | a two-phase commit across two stores, healed by readers |
| Activity history `activity-history-store.ts` | entries, receipts, indexes | commit, retention, prune | the guard of the store's Lua path; retention across rooms |
| Legacy cutover `room-store.ts` 1431-1530, 1922-2073 | aggregate snapshot beside the planes | migrate, merge, retire | two deployments write at once, a crash in between |
| Realtime hub `lib/server/realtime-hub.ts` and client `lib/realtime`, `lib/client/room-reconciliation.ts`, `hooks/use-room.ts` | peers, pending events, signals, the browser's room | attach, synchronize, flush, broadcast, reconcile; snapshot, patch, delta, refresh | snapshots race events; a queue with a limit; two planes, two revisions, two transports |
| Agent messages `agent-message-store.ts` | one document per participant | create, list, claim, reply | claims that expire while a reply is under way, retries against eviction |
| Private images `blob-asset-registry.ts`, `blob-asset-cleanup.ts`, `private-blob-assets.ts` | registrations, counters, claims, blobs | reserve, upload, finalize, claim, clean up | three stores without a common transaction; claim, read, delete against rooms that add references |
| Snapshots `snapshot-store.ts`, `snapshot-service.ts` | capability links | create, revoke, retain | retention and retries |
| Limiters, sessions, routes | counters, cookies | - | each one command, or stateless |

How they interact: a route calls the service, the service hands an *updater*
(a pure function of the room and the clock) to `transact`, and the store applies
it to the planes it read and commits only if they are still the same. Heartbeats
bypass that and change two of the three planes in one script. A reader of the
room (`getRoom`) drops what has expired and writes that back. Every commit
appends an event to a Redis stream that the hubs follow and turn into messages to
the browsers, which also learn of the room from the replies to their own
requests. The draft service calls the room's semantic transaction in the middle
of its own two writes. A room transaction that places an image compares the
image's registration while it writes; the cleanup reads the room between
claiming a registration and deleting the blob. The inbox touches nothing but
itself.

What makes each correct:

- *store*: one mutation per key, no lost edit, revisions that name one room,
  answers that are true, termination;
- *presence*: no heartbeat taken back by a commit, the fence kept;
- *drafts*: what lands is what was named, an editable draft is not submitted,
  an announced ending is true, decided drafts go;
- *commands*: no edit over a foreign lease, references that resolve, revisions that name
  versions, dependents that follow, a last change that can be taken back;
- *Spotlight*: one presenter, connected, handed over only on request;
- *review*: a proposal is applied at most once and on the room it was made for;
- *cutover*: every write acknowledged by either deployment survives the import;
- *realtime*: a synchronized client converges and never goes back in either plane, and is
  owed what it acknowledged and does not show;
- *messages*: one reply per message, from the holder of the claim;
- *blobs*: no blob is deleted that a room refers to; what nothing uses goes
  eventually; capacity is neither leaked nor given back twice.

`PROJECT.json` lists the hazards one by one, at their lines, with the properties
that watch them.

## The room store

### Modules

    RoomPlanes      data of a room, pure functions over it
      RoomUpdates     the updaters room-service.ts passes to transact
        RoomLedger      abstract: what the store promises (LedgerSpec)
          RoomStore       Redis: attempts, commands, scripts, readers (Spec)
            MCRoomStore     instances for TLC
          RoomLedgerProofs  theorems about the ledger
            RoomStoreProofs   theorems about the store (extends RoomStore too)

`RoomPlanes` mirrors `room-planes.ts` and the derivation code of
`room-store.ts`. A room is three planes: the *document* with `roomRevision`, the
*awareness* plane (who was seen when, who presents), the *coordination* plane with
`stateRevision`, the leases, and a copy of `roomRevision` that serves as a fence.
`reconcileDerivedState` is the code's function of that name: presence, Spotlight
and leases as of now, under one new revision if anything changed.
`normalizeMutationRevisions` decides which revisions move, `presenceCommit` is
the transition of the Lua presence script, `writePlanes` the rule by which a
commit leaves the planes it did not change.

The canvas itself is abstracted to how often each mutation's edit or proposal is
in it. That is all the store's properties need, and it makes a lost or repeated
edit visible. Object-level guards (does the revision match, is it leased) are in
`Canvas` and left out here *on purpose*: an edit always succeeds when tried, so
that nothing but the store itself can prevent a second application.

`RoomUpdates` has one updater for each way a command can touch the planes: a human
edit (document, with an activity), an agent edit (the same, or in review mode a
proposal without activity plus a presence stamp), a policy change (maybe
nothing), a lease (coordination), a Spotlight (awareness).

`RoomLedger` is the abstract specification. A room is changed one step at a
time: `Take(c)` applies a mutation to the room as it is now unless its key
has a receipt, `Settle(c)` returns an answer that is true, `Beat` is a heartbeat,
`Elapse` persists what the clock has done.

`RoomStore` is the code. A step is one exchange with Redis and the local
computation up to the next await.

| Code | Actions |
|---|---|
| `transact`, one attempt: WATCH, MGET, GET receipt, updater | `WatchPlanes`, `ReadPlanes`, `FindReceipt`, `Reject`, `SwitchToWatched`, `ReturnUnchanged`, `SendCommit` |
| the Lua commit (`activity-history-store.ts` 784-968) and MULTI/EXEC, as Redis runs them | `Store`, `Refuse`, `Drop` |
| the answer, or the error instead of it | `Return`, `LoseRace`, `ReturnReplayed`, `LoseReply`, `GiveUp`, `LoseReceipt`, `RecoverReceipt`, `RecoverNothing` |
| the presence script | `updatePresence` |
| `getRoom`, `reconcileDerivedPlanes` | `ReadRoom`, `FetchPlanes`, `WatchLivePlanes`, `ReadLivePlanes`, `RefetchDocument`, `PersistDerived`, `LosePersistRace` |

`wire` holds the commands that were sent and have not run. A call that loses a
reply goes on (looks for the receipt, retries, gives up) while its command may
still run. `dirty` is what WATCH means: the connection was told of a write
since. `versions` and `lost` are history variables.

### Properties

- `AtMostOnce` - a key lets one mutation in; a call without one takes effect at
  most once, though its reply is lost and its command is late.
- `NoLostEdit` - the document holds every applied edit, once.
- `RevisionsAdvance` - anything that changes raises its revision.
- `LedgerSpec` - `RoomStore` implements `RoomLedger`. The mapping is the identity
  on `planes`, `receipts`, `applied` and `outcome`: the store has no other state a
  caller can observe.
- `HotPathReady` - the fence equals the document's revision, which is what the
  presence script and `getRoom` rely on.
- `OutcomeIsTrue` - what a call is told is what happened. The weak spot is stated
  in the property: a call that was told "rejected" or "conflict" may have been
  applied if an earlier reply of the same call was lost.
- `ReadsAreVersions` - a reader returns a room the store had, never a document
  beside live planes of another revision.
- `RevisionNamesVersion` - one revision, one room. Clients discard by revision, so
  two rooms of one revision would be a permanent divergence.
- `HeadIsCurrent` - the last event announces the stored room.
- `HeartbeatsAreKept` - no mutation and no derived write restores an older `lastSeenAt`, though
  both write the whole plane. Another heartbeat can: `updatePresence` reads the clock before it
  sends the script (`room-store.ts:2551`), and the script stores that reading without comparing
  it with what is there (`redis-presence-script.ts:120`, 156, 159). The model's heartbeat carries
  any reading up to now, so heartbeats pass each other there too, and the property says that
  nothing else takes one back.
- `EveryCallReturns` - every call and every reader ends. The restart in
  `SwitchToWatched` is not counted as an attempt, and readers retry.

### The memory store

The development store (`room-store.ts` 1556-1897) queues operations per room, so
each is one step of `RoomLedger` by construction and has no module of its own.
One difference is worth knowing: its `updatePresence` derives liveness before
it applies the heartbeat, so a presenter who returns late has lost the Spotlight
(`Elapse`, then `Beat`), while the Lua script applies the heartbeat first and the
presenter keeps it (`Beat`). Both are behaviours of the ledger.

## The canvas

    CanvasEngine    what domain/engine.ts makes of a canvas, as operators
      Canvas          commands, activities, review queue, leases
        MCCanvas        instance for TLC
        CanvasProofs    its safety, proved

The updaters that the room store applies in one step are the subject here, so a command of
`room-service.ts` is one step: `RoomStore` is why that is right. `CanvasEngine` gives, for a
canvas and a transaction, the *set* of canvases the engine may return, empty when it
refuses. What geometry computes is left open in it: where a layout puts its targets,
which connectors beside the necessary ones are routed again (`computeAffectedConnectorIds`:
obstacles, parallel lanes, shared ports, crossings), at which point of an object's outline a
bound end is attached (`anchorForEndpoint`), and which routes bend. What the code then
does with a route that came out different is not open: verify the lease, revise,
attribute, touch the Diagrams.

A place is an object's box, and `Outline` gives the points on its edge. Outlines of two
places may share a point: a shape that grows to the left keeps its right edge, and a connector
attached there comes out of the routing as it was. It is then neither revised nor recorded
(`engine.ts:862`), although the shape did change its geometry.

An object has a text, a place, the ends and route of a connector, a revision, and its last
editor. Times and creators are left out, as if everything happened to one person in one
millisecond, so comparisons of whole objects get no help from them. A transaction
names the revisions it finds: with any other, the code refuses it.

| Code | Definitions |
|---|---|
| `applyObjectCommandMutable`, `applyDiagramCommandMutable`, `applyLayoutMutable` | `applyObjectCommand`, `applyDiagramCommand`, `applyLayout` (may it), `commanded`, `diagramCommanded`, `objectsDrafted` (what it makes) |
| routing and follow-up in `applySemanticTransaction` | `mustRoute`, `computeAffectedConnectorIds`, `anchorForEndpoint`, `resolveAffectedConnectorRoutes`, `routed`, `rerouted`, `objectsAfter`, `diagramsAfter`, `transacted` |
| `buildRoomActivity`, `applyActivityRevert` | `buildRoomActivity`, `guardsHold`, `validateRevertDependencies` (`dependencySensitiveIds`, `externalConnectorIds`, `externalDiagramIds`), `restored`, `reverted`, `revertFits` |
| `runSemanticTransaction`, `runCanvasCommand`, `runLayoutCommand`, `runActivityRevert` | `Transact`, `queueAgentEdit` |
| `reviewAgentEditProposal`, `setAgentEditPolicy` | `Approve`, `Reject`, `setAgentEditPolicy` |
| `runLeaseAction`, the end of a lease | `acquireObjectLeases`, `releaseObjectLeases`, `Expire` |

- `ReferencesResolve` - ends, members and leases name what is there. A revert brings back
  objects whose ends and Diagrams have changed since; what it would break is found only by
  validating the whole result.
- `LeaseHolds` - nobody's activity changes what another holds, also not by routing it again
  because an object at its end moved, nor by taking an older change back.
- `RevisionsNameVersions` - as long as an object or a Diagram lives its revisions grow, so that
  one revision names one version of it, whatever mixture of commands, layouts, routes and reverts
  made them, and whoever brings an earlier version back. It relates what any activity found to what any later one left.
  *Deletion ends it*: an id that is created again starts at revision 1 (`engine.ts:599`), and a
  deletion that is reverted twice gives the same revision twice (below). `engine.ts:1132` says
  that ids and revisions can be reused after deletion, and the property claims nothing across one.
- `DependentsFollow` - connectors end on the outlines of their objects, and Diagrams are revised with
  what they hold. It assumes that routes were current, because a revert restores what it recorded (below).
- `LastChangeCanBeTakenBack` - the record of a change is complete: right after an activity
  nothing that it did not record depends on what it changed, whatever it rerouted or took
  out of Diagrams. One thing is exempt, because the code refuses there: a connector that stayed as
  it was since its object kept the edge it is attached to (`stillAttached`; below). The lease of another person may
  still refuse the revert.
- `ReviewGatesAgents` - in review mode an agent's edit reaches the canvas only as a pending
  proposal that is approved, once; no pending proposal is dropped.

## Agent drafts

    AgentDrafts     the draft store, the commit service, and the room they see
      MCAgentDrafts       instances for TLC
      AgentDraftsProofs   its safety, proved

`AgentDrafts` is the draft store, the service around it, and the room as far as
they see it. The room is *not* the model above but what `RoomLedger` promises of
it: `runSemanticTransaction(c)` takes effect at most once per key, on the room
as it is, at any time after `submit(c)`, and the caller may hear nothing of it.

A transaction is the set of edits it was made of plus its baseline (the room
revision on which it was staged). That is enough to tell one revision of a draft from
another. A store operation (WATCH, HGETALL, MULTI/EXEC, repeated after a lost race)
is a single step, because it commits only if the hash did not change. The *pruning
read* is not: it sends an HDEL for what it saw expired, without WATCH, so `prune`
records the intention in `hdels` and `HDel` carries it out later, whatever
the draft is by then.

| Code | Actions |
|---|---|
| stage, touch, discard | `stage`, `touch`, `discard` |
| replace: reads the draft and room, builds the patch, stores | `ReadForEdit`, `replace` |
| `commitAgentCanvasDraft` | `StartCommit`, `CheckDraft`, `beginCommit`, `submit`, then one of `markAwaitingReview`, `markAuthoritativelyCommitted` + `RemoveCommitted`, `restoreActive`, or nothing (`LoseOutcome`) |
| the room | `runSemanticTransaction`, `RejectCommit`, `GiveUpCommit`, `DropCommit`, `approve`, `reject`, `editRoom` |
| a server that stops, or a draft store that fails | `Abandon` |
| an authorized read and its reconciliation | `ReadRoomFirst`, `ReadDraft`, `RemoveDecided`, `HealReview`, `LeaveDraft` |
| Redis, the clock | `HDel`, `Expire`, `Tick` |

A request reads `Date.now()` once when it begins and uses that reading later; `Recent` is
the set of readings it can have, `MaxLag` old at most. In the settling steps
the code reads the clock again, and so does the model.

- `CommitsNamedRevision` - what lands in the room or its review queue is the
  transaction of the revision the owner named, although the draft is read
  three times on the way and edits and retries race it.
- `EditableIsNotSubmitted` - an active draft is neither on the canvas nor under
  review. It is conditional on `Certain(d)`: a commit that failed *without naming
  an outcome* (attempts exhausted, or an EXEC that raised) restores the draft though
  its command may still run. The code accepts that; see below.
- `EndingIsTrue` - a draft announced as committed is in the room, at or below the
  fence that viewers are told to wait for; one announced as discarded is not.
- `PatchesKeepTheRest` - an accepted patch keeps all earlier ones.
- `DecidedDraftsEnd` - a draft whose commit is decided is ended by a reader, even
  when the server that committed it stopped between its writes.
- `CommittingDraftsStay` and `ReviewedDraftsStay` - two sentences of the product
  specification that the code does not keep. Their runs are expected to fail.

## The realtime path

    RoomMirror      abstract: what a browser is promised
    RealtimeHub     one room's stream, one hub, the sockets and the browsers
      MCRealtimeHub         instances for TLC
      RealtimeHubProofs     theorems: what a browser shows
        RealtimeDeliveryProofs  theorems: what it has been sent, and is still sent

The room is again what its ledger promises: the n-th commit makes version n,
whose `stateRevision` is n and whose `roomRevision` counts the commits that wrote the
document. A view of the room is the *set of commits it reflects*, per plane. A
patch on the wrong base or a delta out of turn therefore leaves a view that is no
version the room has had, which is what `ShowsARealRoom` looks for; content
cannot hide it.

| Code | Actions |
|---|---|
| a mutation and its events; its reply over HTTP | `Commit` |
| `attach`, `handleMessage` | `Attach`, `RequestSynchronization` |
| `synchronize`: tail of the stream, room, snapshot, then `flushPending` | `ReadStreamTail`, `ReadRoom`, `Synchronize`, `FlushPending` |
| `publishLocal`, the stream reader | `PublishLocal`, `ReadStream`, both through `broadcastEvent` |
| `broadcastDraftInvalidation`: a draft's event on the stream | `ReadDraft` |
| `reconcileRoom`: one loop for all signals, one read for all peers | `ReadReconciledRoom`, `ReconcileRoom` |
| reads that fail for good, sockets that break | `SynchronizationFails`, `ReconciliationFails`, `Disconnect` |
| the client's `handleServerMessage`, `onVisibilityChange` | `Receive`, `RequestSync` |
| `refresh`, replies to own commands | `Refresh`, `AcceptReply` |

A handler of the hub that does not await is one step, and a step in the middle of a
flush keeps other handlers out (`hubIsFree`), as Node's event loop does. What is
sent on one socket arrives in order; HTTP replies arrive in any order and between any
two messages. A local announcement (`local`) may be later than the stream's, and
two of them may change places. The first snapshot and the `ready` message are one.
A half-open socket is detached when the break is noticed, which is when the
browser notices it too.

A draft's event (`draft.invalidated`) comes on the same stream and is sent on at once, with the
cursor it has there, while the commit before it may still wait for `reconcileRoom`. The browser
adopts the cursor unless it waits for a snapshot (`client.ts:312-321`). In the model such an
event follows the commit that the reader delivered last; what it says of the draft is left out,
and so are those that move no cursor.

`ReadStreamTail` is two reads in the code when the reader is started by it: the fence the reader
begins at (`realtime-hub.ts:843`, which sets `readerCursor` before it compares the generation),
then the tail. A commit between the two is below the tail and above the fence; the model has
that case for a second browser, which finds the reader behind. An `XREAD` that fails is not modelled.

- `ShowsARealRoom` - what a browser shows is one version of the room, however
  snapshots, patches, deltas and replies cross.
- `AcknowledgedIsOwed` - a browser may acknowledge a commit that it does not show, because of
  the draft events. Such a commit is not lost: a message on the wire, a synchronization, a
  request, or a signal at or past the browser's cursor still brings it. The hub takes base and
  cursor from two reads; the order of those reads is what this property depends on, and that
  a signal goes only when the peer's base covers it.
- `QuietMeansCurrent` - when nothing is under way, every live browser shows the last
  version. A signal forgotten while the hub is reading would leave one behind.
- `HubTypeOK` - types, with the part worth having: a peer is ready exactly
  while no synchronization of it runs.
- `MirrorsTheRoom` - `RealtimeHub` implements `RoomMirror`: a browser's version only
  grows, and each browser is up to date again and again. That includes browsers whose
  socket is broken for good, which live on polling.

## Agent messages

    AskBox              abstract: what the participant is promised
    AgentMessageStore   the channel and its Redis scripts, as operators
      AgentMessages       panel, agents, wire, clock, faults
        MCAgentMessages     instance for TLC
        AgentMessagesProofs theorems

`AgentMessageStore` translates the tests and the effects of the four Lua scripts:
replay before refusal, leases compared with the server's clock, and `Retained`,
the eviction loop, which removes the oldest *answered* messages until the
channel fits and refuses with "capacity" if that is not enough. Sizes are
numbers: a message grows by `ClaimBytes` when claimed and by `ReplyBytes`
when answered, so a claim or reply can fail for want of room. `version`, `state`
and `claimedUntil` follow from the other fields and are left out.

Time is relative: the end of a lease is stored as what is left of it, `Tick`
lowers all of them, and a request is executed with a server clock anywhere in
`-Drift .. Drift`. That covers servers whose clocks differ and the code's reading of
`Date.now()` before it reads the room. Claim ids and tokens are random in the code and
fresh here; they are compared only within one message.

| Code | Actions |
|---|---|
| the Ask panel: a draft keeps its id until the panel hears of it | `Send` |
| `apiRequest`: a request without an answer is sent once more; then the caller gives up | `ConnectionLost` |
| the scripts | `Create`, `Claim`, `Replied` |
| `list` of pending messages with a claim of one; `list` behind a cursor | `Poll`, `Discover` |
| the agent | `Reply`, `Abandon` |
| clock, Redis TTL | `Tick`, `Expire` |

`wire` holds requests that have not been executed. A caller goes on after
`ConnectionLost`, and its first request may then be executed before the second, after
it, long after, or never.

- `WorkIsExclusive` - while a lease is sure to last by every clock, no other claim
  replaces the holder's and no other agent's reply is stored.
- `CursorMissesNothing` - an agent that follows messages by cursor passes over none,
  although pages are cut while messages are added, answered and evicted. Not across
  the expiry of a channel, after which numbers begin at 1 again (`forgotten`).
- `AskBoxSpec` - the refinement: an ask stays until it is answered, is answered
  once, and only answered asks are forgotten.
- `AsksAreAnswered` - a stored message is answered in the end, although agents
  leave and replies get lost, *unless the channel is crowded*. The exemption is
  the code's: only answered messages make room, so unanswered ones can fill a channel
  until no claim fits. With a short and a long message TLC finds such
  a channel at once when the exemption is dropped; it stays so until it expires
  after thirty days.

An agent whose reply was stored, and then evicted to make room before the answer
arrived, is told `MESSAGE_NOT_FOUND` when it sends the reply again. The reply was
delivered; only its author cannot know.

## Private images

    BlobRegistry    a registration and the scripts on it, as operators
      BlobAssets      uploads, edits, cleanup, provider
        MCBlobAssets    instance for TLC
        BlobAssetsProofs    its safety, proved

Three stores take part: the registry (Redis, with capacity counters), the room, and
the blob provider, which is external and modelled by two of its rules: it does not
overwrite a blob, and it does not delete one whose etag differs from `ifMatch`.
`createdAt` and `etag` are stamps of one clock per pathname, so that it shows
whether a registration names a blob uploaded under it (`isSound`). Counters change in
the script that changes the record; `Recounted` is that arithmetic, and
`CapacityIsAccounted` compares the sums with the records. With one room the room's
counters and the deployment's coincide.

| Code | Actions |
|---|---|
| upload request: reclaim expired reservations, reserve, issue a capability, or take the reservation back | `AskUpload`, `ReclaimExpired`, `Reserve`, `Issue`, `IssueFails` |
| the browser's upload | `PutBlob` |
| `finalizePrivateBlobAsset` | `HeadForFinalize`, `Finalize` |
| a room transaction with a new reference: guard read, then compared under WATCH | `ReadGuard`, `CommitReference`; `RemoveReference` |
| `cleanupPrivateBlobAssets`: reservations | `ListCandidates`, `ConsiderReservation`, `HeadReservation`, `SettleReservation`, `PurgeReservation` |
| committed registrations: claim all, read the room once, decide each | `Claim`, `ReadRoom`, `Examine`, `Decide`, `DeleteClaimed`, `Forget`; `RoomUnreadable`, `ReleaseUnread` |
| unregistered blobs | `ListBlobs`, `GetRegistrations`, `SweepBlob`, `EndRun` |
| an invocation that is stopped, calls that fail before or after their effect | `Stopped`, `CallFails`, `ClaimAnswerLost`, `DeleteAnswerLost` |
| retention times | `RecordAges`, `BlobAges` |

- `ReferencedIsKept` - cleanup never takes from the canvas an image it shows: neither
  the registration nor the blob. An edit reads its guard, and cleanup its room, at
  any moment before they act; the claim is what keeps them apart.
- `EligibleIsStored` - an edit may introduce only an image whose blob exists, although
  a cleanup may have deleted it and lost the answer.
- `CapacityIsAccounted` - no path of an upload or a cleanup leaks capacity.
- `UnusedIsDeleted` - an image that leaves the canvas for good is deleted, record and blob.

Each exemption in these properties is a behaviour of the code that the runs showed:

- `unproven`: when the room cannot be read, `blob-asset-cleanup.ts:248-263` releases
  *every* claim, also one recovered from a stopped invocation whose blob may be gone,
  although the comment at 283-286 keeps such a claim until the blob is seen again.
  The image can then be placed on the canvas without a blob.
- `isSound`: the finalize script compares no `createdAt`. A request that read a blob's
  metadata long ago can commit it on a later reservation of the same pathname, and
  the sweep (372-378) can delete a blob that was registered again since it was listed.
- `isLeft`: a capability issued for an existing record allows a new blob under a claimed
  one; cleanup then finds another etag and leaves the claim to an operator.

The refresh of a claim before its deletion (327-340) does not look at whether the
claim was taken over and recovered in between. It need not: an invocation lasts at
most 60 s (`vercel.json`) and a lease five minutes, which the model takes as given
(`Abandons`: a claim becomes recoverable when its invocation is over).

## Runs

| Run | Instance | Shows |
|---|---|---|
| `store_retry` (`MCRoomStoreRetry.cfg`) | two calls with one agent edit under one key, a third that turns review mode on, in a room where it may be on already; no clock, no heartbeats | `TypeOK`, `AtMostOnce`, `NoLostEdit`, `RevisionsAdvance`, `LedgerSpec`; about 313,000 states |
| `store_live` | an edit and a Spotlight takeover that reuse one key for two requests, a reader; heartbeats, the clock, a lease that expires | `HotPathReady`, `OutcomeIsTrue`, `HeadIsCurrent`, `ReadsAreVersions`, `RevisionNamesVersion`, `HeartbeatsAreKept`; 922,000 |
| `store_fair` | an agent edit in review mode and a reader, under fairness | `EveryCallReturns`; 4,400 |
| `drafts_commit` | a commit and its retry, two patches, a reader, review | `DraftsTypeOK`, `CommitsNamedRevision`, `EditableIsNotSubmitted`, `PatchesKeepTheRest`; 493,000 |
| `drafts_end` | two commits of one draft, one without a key, expiry, a reader, under fairness | `EndingIsTrue`, `DecidedDraftsEnd`; 186,000 |
| `drafts_prune` | a commit, its retry and a draft that may expire | `CommittingDraftsStay` is violated |
| `drafts_discard` | a commit without a key | `ReviewedDraftsStay` is violated |
| `hub_live` (`MCRealtimeHubLive.cfg`) | one browser, two commits, HTTP replies, draft events, a lost connection or failed read or woken tab, under fairness | `HubTypeOK`, `ShowsARealRoom`, `MirrorsTheRoom`; 274,000 |
| `hub_peers` | two browsers, commits here and elsewhere, draft events | `AcknowledgedIsOwed`, `QuietMeansCurrent`; 1,310,000 |
| `inbox_life` (`MCAgentMessagesLife.cfg`) | two agents, two messages of different sizes, one fault, under fairness | `InboxTypeOK`, `WorkIsExclusive`, `CursorMissesNothing`, `AskBoxSpec`, `AsksAreAnswered`; 109,000 |
| `blob_life` (`MCBlobAssetsLife.cfg`) | two pathnames of one participant, one cleaner, two faults, under fairness | `AssetsTypeOK`, `CapacityIsAccounted`, `EligibleIsStored`, `ReferencedIsKept`, `UnusedIsDeleted`; 349,000 |
| `canvas_review` (`MCCanvasReview.cfg`) | a person and an agent; two shapes, a connector between them and a Diagram; nine transactions, reverts, one lease, a queue of one | `CanvasTypeOK`, `ReferencesResolve`, `LastChangeCanBeTakenBack`, `LeaseHolds`, `RevisionsNameVersions`, `DependentsFollow`, `ReviewGatesAgents`; 590,000 |

Every action of every module fires in some run. Of the mutations of `RoomUpdates` one, taking a
lease, is in no run of the store; the theorems are about any mix of them.

### Bounds, and why they are enough

`MaxAttempts` and `MaxReads` are 2 (16 and 8 in the code): one attempt that
fails and one that is the last. A third attempt starts from the same state as
the second, apart from one more late command of the same call, and the proof does
not depend on the number. Two or three calls: every property relates at most two
mutations, and the third call of `store_retry` is the stranger that makes them lose their races.
`MaxRevision` bounds heartbeats: with 2, one arrives before the room's first commit, at any step of
the calls that race for it. `MaxTime = 1` with `AwayMs = LeaseMs = 1` lets presence
and a lease go stale once, at every point. The room the store starts from has a
presenter whose connection is about to expire, so that liveness has something to derive.
In `store_fair` a single call is enough: it must lose its race to heartbeats and
to the reader, and heartbeats are bounded, so nothing can starve it for ever; the question is whether
uncounted restarts end.

For the canvas, three activities are a change, a change that depends on it, and a revert of
either; with four (and fewer transactions) TLC found the disagreements about repeated reverts
listed below, and nothing else. The nine transactions were chosen so that each kind of command,
a layout, and a transaction that mixes objects and Diagrams can meet each other in any order; the
agent proposes one of them and every revert. Of the three places two share the edge the connector
is attached to, so that it may stay when a shape is resized, and the third does not, so that it must follow; without its exemption
TLC finds `LastChangeCanBeTakenBack` violated after one activity. A queue of one is full at once, so both
the refusal and the eviction happen; `MaxAsked = 2` lets it happen once.

For drafts there is one draft: the hash is per room but no operation on a draft
writes another, except for dropping expired ones (`Expire`) and the staging
rule of one live draft per owner (`stage`). `MaxRoomRevision` bounds what others
do: 2 permits a policy change and another edit before or during a commit.
`drafts_commit` runs without the clock (`MaxTime = 0`), `drafts_end` and
`drafts_prune` with one tick, at which everything expires.
In `drafts_end` the clock stops at its bound, so a draft staged after the tick never
expires: `DecidedDraftsEnd` shows there that *readers* settle it.

`Alike` (symmetry in `drafts_commit`) permutes the two edits and the commit with
its retry; the run checks invariants and one action property, none of which names them.
Deadlock is not checked because a finite set of calls ends.

For the realtime path, two commits make all overlaps of a read with a commit, and
`Writes` contains the command that appends two versions at once. `MaxReplies = 1`
puts one HTTP reply of each browser between any two messages; `hub_peers` has none,
because there the question is what the hub does with two peers and two sources of
events. `MaxPending` is out of reach on purpose: the limit of 512 drops the event
that *arrived* first, and with a limit of 1 TLC finds a browser that stays behind
(`PROJECT.json`, hazard at `realtime-hub.ts:157`); with 512 that takes as many local
announcements that all arrive later than the stream's.

For the inbox, the long prompt fills five of seven bytes, so that a second message
can be created and then neither can be claimed; one fault is one lost
connection, or one agent that leaves or is too slow. The invariants were also
checked with `Lease = 3`, `Drift = 1` (606,000 states). For images, four stamps
for one pathname allow it to be reserved, uploaded, deleted and used again; two
faults allow a stopped invocation whose successor fails too. Two cleaners at once differ
from one that was stopped in that a claim is refused: `canClaim` has the case, the runs do not.

### Fairness

Store: weak fairness of each call's own steps, of each reader's, and of Redis
running commands. That is a server whose event loop runs and a Redis that answers.
Nothing forces an error, a heartbeat or the clock, so a reply may be lost or never.

Drafts: members keep reading (weak fairness of `ReadRoomFirst`, `ReadDraft`,
`LeaveDraft`): clients poll or are told by an event. `Settle` is strongly fair: a read
that finds something to settle does not fail *every* time (`LeaveDraft` is the time
it does). Time passes and Redis drops what its TTL ends. Nothing makes the server
that committed go on; that is the point.

Realtime: the event loops of hub and browsers run what is due (one weak fairness
condition over all of it: no handler is preferred). Nothing makes a browser
connect; a browser without a socket polls in the end, so a tab that stays hidden, which does
not poll, is taken to be looked at again.

Inbox: a client's request that is waited for is executed, an agent polls when it has
nothing to do and replies to what it holds, and time passes. That is what the
tool descriptions ask of agents; the inbox is pull-only, so without it nothing
is ever answered.

Images: the cleanup is started daily and its calls return, and retention times pass.
Nothing makes a user upload, place or remove an image.

## What is proved

Every safety property that a passing run checks is a theorem too, for any values of the constants;
two of them, `QuietMeansCurrent` and `AcknowledgedIsOwed`, under a hypothesis that is explained below. What the runs alone
show is liveness.

`RoomLedgerProofs` and `RoomStoreProofs` hold theorems about `LedgerSpec` and
`Spec` for any members, objects, keys, calls, readers, attempts and bounds.

**The ledger.** `LedgerCorrect`: `LedgerInv` (types, `HotPathReady`, `AtMostOnce`,
`NoLostEdit`, and `ReceiptsTell`, that a keyed mutation which was applied has left its receipt) is
inductive. Its lemmas say what each pure function does to a room: `ReconcileLater`
and `PresenceLater` (the clock and a heartbeat leave the document alone and only
raise revisions), `NormalizeLater` (a mutation moves exactly the revisions whose
content moved), `MutatedPlanes` (it adds exactly its own edit). `LedgerAdvances`
follows from the same lemmas.

**The store.** `StoreImplementsLedger`: every step of `RoomStore` is a `Take`,
`Settle`, `Beat` or `Elapse`, or changes nothing the ledger can see. The heart
is `StoreIsTake`: a command that stores takes effect on the room *as it is*, and
without a receipt of its key. For the Lua command that is what it compares. For
EXEC it is not: EXEC only knows whether its connection was told of a write. So `StoreInv` needs

- `WatchHolds`: a call whose connection has been told nothing still has the room in
  `base`, and an EXEC on the wire with a clean connection expects the room
  as it is, with no receipt of its key;
- `NeverRepeated`: a call with an EXEC on the wire has not started another attempt. This is the delicate part:
  a new WATCH would clear `dirty` under a late EXEC of the previous attempt, which
  would then commit over whatever happened since. The code never retries a
  transaction after a lost reply (it reports the error), only the Lua command,
  and the invariant is why that distinction matters;
- `OnePerAttempt` and `Unapplied`: without a key, only the call itself can know it
  has been applied, so it must not send twice;
- `WirePrepared`, `RepliesTell`, `OutcomesTell`, `PersistIsDerived`: what is on the wire, in a
  reply, in an outcome or in a reader's hands is what the ledger's step needs.

`StoreCorrect` is that invariant; `StoreAppliesOnce`, `StoreKeepsEdits`,
`StoreKeepsFence` and `StoreAdvances` come out of the refinement, and `TypeCorrect` out of the invariant.

**History.** `HistoryInv` adds `NoLaterVersion` (every room the store has had is at most as
new as the present one in both revisions, and the same where they are equal) and
`ReadersHaveDocuments` (a reader's document was once the room's). From it follow `ReadersSeeVersions`
(a reader may put an old document beside new live planes only if the fence agrees,
and then the document is the current one), `RevisionsAreNames` and `HeadNamesRoom`.

**What a call is told.** `OutcomesAreTrue` needs more than `StoreInv`, in `TruthInv`: a receipt names a request that
took effect (`ReceiptsName`), so a replay or a key conflict can vouch for it (`ReplaysVouch`); and until a
reply of its own is lost, a call has at most the command it waits for on the wire and
so knows whether it has taken effect (`CertainCalls`). `HeartbeatsKept` adds `HeartInv`: what a call has read, and what a
command writes, has no heartbeat later than the clock, and a command's awareness is at least as
new as the one it expects. A mutation writes back the awareness it has read; a heartbeat survives
because the commit that would overtake it is then refused. A heartbeat that is late itself may store an
older reading; the lemma says that it is then one of the member whose time goes back.

**The realtime path.** `RealtimeHubProofs` proves `HubTypes`, `RealRooms` and
`RealtimeMirrors` for any number of browsers, commits, replies and faults and any limit of
the pending queue. The inductive invariant, `HubInv`, has two parts: whatever is under way
(messages, replies, queued events, signals, what the hub has read) names a version the room has had
(`HubTypeOK`), and every view is a version. Each way of taking something into a view then turns
one version into another: a patch because its base is compared in both revisions and
equal revisions mean equal documents (`RevisionsNameDocuments`), a delta because it follows
the view's state and leaves its document, a mixture of two planes because the newer version
wins in both. `RealtimeMirrors` is
the safety part of the refinement; that a browser catches up is model-checked.

`RealtimeDeliveryProofs` is about the order on the wire. The hub sends from the base it keeps for a
peer, so a browser must not be behind that base for good. `DeliveryInv` adds to `HubInv`, for each
browser, that when it takes the message at some place it has the version the message counts on,
or waits for a snapshot and takes nothing else (`Reaches`). Only the last message before it that
brings a version matters, so `Reaches` is kept when a message is appended, taken, or overtaken by an
HTTP reply, which only raises a view; a draft's event brings none and needs none. That is what
the pending queue, `flush` and `again` of the hub are for.

`QuietBrowsersAreCurrent`: with nothing under way every live browser shows the last version.
`SignalInv` adds that whatever the stream has delivered a peer's base covers, or the peer
will come to it: it is still reading the room, an event waits in its queue, or a signal
waits to be satisfied (`InSight`); that what a browser waits for is asked for, being read or on its way (`Answered`); and
that the reconciler rests only without signals. The theorem has the hypothesis `[]QueuesHaveRoom`: no
synchronization takes so long that its peer's queue reaches `MaxPending`, 512 in the code.
Without it the statement is false: a full queue drops the event that arrived first, which is not the oldest one
when a local announcement is late (`realtime-hub.ts:157`, among the hazards); with a limit of one
TLC finds a browser that stays behind. The run's limit is out of reach, like the code's in practice.

`AcknowledgedIsNotLost` is proved under the same hypothesis. It adds to `SignalInv` that no cursor, of a peer, of a
message, or of a live browser, is past both what the stream reader has delivered and what the peer's base
covers (`CursorsKnown`). A draft's event takes its cursor from the reader, a snapshot's message from a
tail that was read before the room. What the reader has delivered and the base does not cover
is still signalled (`InSight`), and what the base covers and the browser does not show is on the wire or asked for (`Paths`, `Answered`).

**The inbox.** `AgentMessagesProofs` proves its safety for any messages, agents, tags, leases,
limits and faults, over finitely many ids. `InboxInv` says that the channel is well formed
(`ChannelOK`), that a number is never given twice (`NumbersOK`), and, of each hold that is sure
to last, that its message is gone or still under its claim with the same end (`WorkIsHeld`). A
hold names its message by number and not by id alone: an answered message may be evicted and its
id asked again by a retry, which is why numbers belong to the invariant. A script that replaces
a claim needs a clock past the claim's end, and the holder counts on its claim only while it
outlasts every clock: `WorkStaysExclusive`. `CursorMisses` adds `CursorOK` (a cursor is below
the next number, or the channel is younger than it); its lemma `PageIsLowest` says that a page
leaves out only what is numbered above all it has. `InboxKeepsItsPromise` is the whole
refinement of `AskBox`, which promises no progress: each script that stores is an `Ask`, an
`Answer` or a `Forget`, since eviction takes answered messages only (`Stores`).

**Images.** `BlobAssetsProofs` proves `EligibleHasBlob` and `CanvasKeepsImages` for any
pathnames, uploads and edits, any number of invocations of the cleanup at once, and any
faults; the run has one invocation. `BlobInv` says of each pathname what the two properties
say (`PathOK`), and why each thing that may still be deleted is no danger, in three parts.

- A deletion that needs no claim names a blob by an etag older than every reservation
  the pathname has now (`Outlived`): the reservation was gone when the deletion was decided, and
  a later one has a later stamp.
- A claimed record is changed by its holder alone (`Held`), and no edit refers to it, since an
  edit compares the record it read with a committed one. So the references that the holder
  found when it read the room are all there will be (`Sees`), and the blob it then deletes
  is on no canvas. This needs the order of the code: claim first, then read the room.
- A claim taken over from another invocation may have lost its blob. Every way back to
  committed has seen the blob since, or leaves the pathname `unproven` (`Fresh`).

A step writes at most one pathname, or gives up one invocation's claims. The lemmas are cut along that: `Safe`
is what a step owes the pathname it writes, `SparedAt` what it owes each other
invocation, `RunStays` that an invocation spared everywhere keeps its part of the invariant.

`CapacityAccounted` and `AssetTypes` are about the counters. `CapacityInv` adds to `BlobInv` that the records in use are
finitely many and that each counter is their number or the sum of their sizes (`Accounted`). Every
write of a record is one of five (`Fits`): reserved within the limits, committed with at most the bytes that
were reserved, claimed or released with its size, or deleted, and the script counts what the record held
before and holds after (`WriteCounts`). The sum is a fold, so its laws had to come first: on a finite set
the fold exists and is one value (`AddsExists`, `AddsUnique`), and though it takes the elements in an order of its own, taking
any one out takes away its size (`AddsAny`). Each is shown for a least set on which it fails,
since the induction theorems of the library cannot be instantiated.

**The canvas.** `CanvasProofs` proves all seven properties of `Canvas` for any objects, Diagrams, actors, transactions,
layouts, reverts and bounds. Most of it follows a transaction through the engine: what the commands make of an
object, the layout, the routing and the Diagrams, each time that a changed thing has
the next revision, the actor as editor, and was not another's (`Succeeds`, `LeavesSound`). `CanvasCorrect` is
the inductive invariant: the canvas refers to what is there (`sound`), an activity reverts only an earlier one, and a
proposal asks for a transaction or for the revert of an activity that there is. A revert is safe
because the result is validated as a whole, not because the record was right, and the proof has it that
way. `DependentsFollowed` and `ChangesCanBeTakenBack` are proved for any outlines, any points on them that ends are attached
to, and any choice of the connectors that are routed beside those that must be, under the exemptions
that the properties name: stale routes, and connectors that could stay where they were.

`RevisionsAreNames` is about all activities there have been. Each one moves what it changes, and does not
create or delete, to the next revision. So of what an activity found it holds for good that it is
still there, or is there at a later revision, or was deleted since (`LivesStayInOrder`), and a new activity
finds one of the three (`LifeGoesOn`). A revert gives what it brings back the revision after the one it finds
and not the one it recorded, which is why it is in order too.

**Drafts.** `AgentDraftsProofs` proves the five safety properties of `AgentDrafts` for any drafts, edits, commits,
readers, times and bounds. The two expected violations concern other sentences. The argument is about baselines: a mutation
makes a draft committing at most once, because that takes the revision it names, so all its retries
hold one transaction on one baseline (`HeldInv`, `TwinInv`). A transaction takes effect only while the room is at its baseline,
and then the room leaves it, for good: a commit whose baseline is gone never takes effect (`Lost`),
and a draft that goes on to another mutation has lost the earlier one (`LostInv`). A draft is given back only
then (`RestoreInv`), unless an attempt ended with an error that names no outcome, which the properties exempt (`Certain`).
What a record, a reader's copy of it and an ending say of the room is true, and stays so when the record
is gone (`Truthful`, `EndInv`, `ReadInv`): that is what lets a reader end a draft whose server stopped.

Proofs assume the named assumptions on constants only: the types of the maps from
calls to operations, actors, keys and requests, that the sentinels are none of
their values (and no invocation of the cleanup, and no draft), that limits and durations are naturals (positive where zero would be no limit), that a
claim's lease outlasts twice the drift of the clocks, that an inbox has finitely many ids, and that each room the
calls may find has its fence in place, holds no edit of theirs yet, and has no heartbeat of the clock's future.

Only model-checked: `EveryCallReturns`, `DecidedDraftsEnd`, `AsksAreAnswered`, `UnusedIsDeleted` and
the progress of `MirrorsTheRoom`. They are liveness under fairness, which needs ENABLED, and the prover has no means for
it. The two expected violations are runs of TLC by nature.

## Assumptions

- *Rooms are stable*: planes complete, legacy snapshot retired, membership fixed.
- *One clock.* Servers share `Date.now()`; the presence script takes its time from
  the server too. In `AgentDrafts` a reading may be `MaxLag` old when it is used.
- *No reconnect inside an attempt.* The Redis client of `room-store.ts:1908` reconnects by
  itself, and unless told otherwise sends again what was not answered. The new
  connection knows nothing of a WATCH, so an EXEC sent again is unconditional; a
  Lua commit sent again finds its own receipt, or, without a key, a conflict
  with itself that `transact` retries. In the models a command is sent once and
  WATCH lasts as long as the attempt. The theorems hold under that assumption.
- *Receipts stay.* Their 24-hour TTL is not modelled.
- *Commands may be late, lost or answered into nothing, not duplicated.* Retries are
  those in the code and those of its callers.
- *Lua and EXEC are atomic and Redis does not lose acknowledged writes.*
- Realtime: messages of one socket arrive in order; the stream is not trimmed past its reader
  (`MAXLEN`); HTTP replies may be late but a lost one is the caller's next poll.
- Canvas: an actor is a participant as a person or as an agent; a membership allows its edits.
- Inbox: a claim id always comes with the same lease; membership is not revoked.
- Images: one room; a pathname has one owner; content type and size of an upload are what
  its capability allows; the provider's delete and head are linearizable.
- Drafts: an id is staged once; a commit request is retried as it was, naming the
  same revision; count and byte limits, draft events and the `presenting` status are left
  out.

## Where code and documents disagree

Two disagreements are shown by runs and listed as findings:

- `PRODUCT-SPEC.md:165` promises that a committing draft stays readable until it settles or
  reaches its hard limit. A pruning read that found it expired while it was
  active deletes it without WATCH (`agent-draft-store.ts:586`), after a commit
  with an earlier clock reading has begun (`drafts_prune`).
- `PRODUCT-SPEC.md:204` says a draft in review cannot be discarded by its agent. When
  the EXEC that stored the proposal loses its reply and the request has no key, its
  error names no outcome, the draft becomes active again (`agent-draft-service.ts:684`), and active drafts can
  be discarded (`drafts_discard`). With a key it takes an EXEC that is later than
  the receipt lookup. First-party clients always send a key.

Two more are about constants and need no run: `PRODUCT-SPEC.md:165` gives drafts
90 seconds idle and 10 minutes in all, the code and `README.md:87` five and thirty
minutes; the memory store and the Redis script differ in a returning
presenter's Spotlight (above).

Two more concern the hot paths, and the properties are stated so that they hold with them:
a late heartbeat takes a member's `lastSeenAt` back (`HeartbeatsAreKept`, above), and a draft's event makes
a browser acknowledge a commit that it does not show yet (`realtime-hub.ts:549-561`,
`client.ts:312-321`). If the browser loses its connection then, it asks again from that cursor; it
comes back up to date only because a new synchronization reads the whole room.

Modelling the canvas showed five places where a revert does less than the documents say.
They take more activities than `canvas_review` has, or an exemption its properties
name, and were seen in larger instances and in the code:

- *A connector that stays.* A shape is resized and keeps the edge that a connector is attached to
  (`connector-routing.ts:550-583`). The connector comes out as it was and is not recorded (`engine.ts:862`), but the
  shape's geometry has changed, so the check of dependencies wants every connector at it in
  the record (`engine.ts:1015-1058`) and refuses the revert right after the change, with the message that
  "later relationships depend on an affected object" (1050) though none is later.
- *A repeated revision.* Reverting a deletion restores the object with the revision after the
  deleted one (`engine.ts:1207`). If it is deleted again and the *first* deletion
  is reverted a second time, the same revision is given to other content, although
  `README.md:107` promises fresh revisions. An id that is created again starts at 1 (`engine.ts:599`). The
  comment at `engine.ts:1132` knows of both, and `RevisionsNameVersions` ends at a deletion. Activities and proposals compare the whole
  object and are safe; what only compares the revision (a command's `expectedRevision`) is not.
- *A stale route.* Reverting the deletion of a connector whose end object moved meanwhile
  restores the route it had (`engine.ts:1202`), beside the object; nothing routes it
  again until something near it changes. The comment at `engine.ts:841` calls bound connector geometry
  authoritative server state. A change that then routes it can be reverted only
  with that connector, and `DependentsFollow` and `LastChangeCanBeTakenBack` assume current routes.
- *One id, twice.* A revert can restore an object whose id a Diagram took meanwhile; creating one refuses
  that (`engine.ts:574`, `semantic-engine.test.ts:991`).
- *An unguarded end.* A proposal that binds a connector to an object guards the connector and not
  that object (`review.ts:141-211`), so approval does not notice that the object changed, only that
  it is gone. `README.md:113` says approval revalidates relationships.

## What is not modelled

Parts of the modelled components:

- *store*: the memory store (above), `createRoom`, `joinRoom`, `repairPresenceHotPath`, the import of the
  legacy aggregate and its merge with writers of the old deployment (1431-1530,
  1922-2073), reconnects inside an attempt, expiry of receipts;
- *commands*: the geometry of layouts and routes, groups, images and lifecycle metadata of objects,
  refusals for outdated revisions, lease ids and renewals, retention of
  activities, Spotlight requests and handoffs, renaming and upgrading a membership;
- *drafts*: count and byte limits, the `presenting` status, draft events, an id staged again;
- *realtime*: ids of delivered events (they repeat what a peer's base covers), transient
  presence, what draft events say, stream reads that fail, events of older deployments, a server without
  Redis, loss of membership (close 1008), a malformed patch;
- *inbox*: the memory store, loss of membership, the panel's announcements;
- *images*: several rooms, modes without Redis or provider, reading an image, the upload rate limit.

Whole components: geometry (layout, connector routing, visual quality), text
conversion (interchange, export), rendering, WebMCP tool descriptions, cookies and
request validation are pure or stateless and better tested by example; the transient
presence relay redraws what it loses two seconds later; capacity accounting of rooms is a pure
check per mutation; limiters are one Lua command each; read-only snapshots are one
script per operation on a record nothing else refers to; client leases are local to
a tab and checked again by the room; `research/` is a benchmark beside the product, and by far the
largest part of the repository.

Known hazards without a property are listed in `PROJECT.json` with the reason. Two worth
naming: a draft id staged again after a discard restarts at revision 1; a reconnect
inside an attempt. And one that two modules share without a composition: the review queue drops its
oldest decided proposal when full (`Canvas`), which a draft may still wait for (`AgentDrafts`).

## Order of work

Modelled in this order, each composed only of what stands before it: `RoomPlanes`,
`RoomUpdates`, `RoomLedger`, `RoomStore` and their proofs; `AgentDrafts` on what the ledger
promises, with its proofs; `RoomMirror` and `RealtimeHub` on the versions the ledger makes, with their proofs;
`BlobRegistry` and `BlobAssets`; `AskBox`, `AgentMessageStore` and `AgentMessages`;
`CanvasEngine` and `Canvas`; each with its proofs.

What would add most from here:

1. `RoomStore` with reconnects: commands sent twice, WATCH forgotten, and which
   properties survive for calls with and without a key.
2. The legacy cutover as a refinement of a register that loses no acknowledged write.
3. The canvas with revisions that proposals and drafts carry from an earlier room, composed with
   `AgentDrafts`.
