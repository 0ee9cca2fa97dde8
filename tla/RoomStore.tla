----------------------------- MODULE RoomStore ------------------------------
(***************************************************************************)
(* The Redis room store for one stable room (planes complete, legacy       *)
(* snapshot retired): optimistic transactions over three planes and an     *)
(* idempotency receipt, committed either by one compare-and-set Lua        *)
(* command or by WATCH/MULTI/EXEC; the presence script that bypasses both; *)
(* readers that persist derived liveness; replies lost at any point.       *)
(*                                                                         *)
(* A command the caller gave up on may still run later.  Every step of a   *)
(* call is one exchange with Redis together with the local code up to the  *)
(* next await.                                                             *)
(***************************************************************************)
EXTENDS RoomLedger

CONSTANTS
  Readers,       \* invocations of getRoom
  MaxAttempts,   \* ROOM_TRANSACTION_MAX_ATTEMPTS
  MaxReads,      \* attempts of reconcileDerivedPlanes
  MaxRevision    \* bound on stateRevision up to which heartbeats arrive

ASSUME StoreAssumption ==
  /\ MaxAttempts \in Nat \ {0}
  /\ MaxReads \in Nat \ {0}
  /\ MaxRevision \in Nat

\* The clock starts with the calls: no stored heartbeat is of its future.
ASSUME CreatedAssumption ==
  \A p \in Created : \A m \in Members : p.awareness.lastSeenAt[m] = 0

VARIABLES
  now,        \* Date.now()
  head,       \* newest event in EVENT_STREAM
  pc,         \* [Calls -> Steps]: the exchange a call is about to make
  owns,       \* [Calls -> BOOLEAN]: ownsConnection
  attempt,    \* [Calls -> Nat]: attempts used up
  base,       \* [Calls -> Planes]: what MGET returned
  dirty,      \* [Calls -> BOOLEAN]: a watched key changed since WATCH
  sent,       \* [Calls -> Kinds]: the command a call last sent
  reply,      \* [Calls -> Replies]: reply on its way to the call
  lost,       \* [Calls -> BOOLEAN]: a reply of this call got lost (history)
  wire,       \* commands sent and not yet executed
  rpc,        \* [Readers -> ReadSteps]
  rbase,      \* [Readers -> Planes]: document of an earlier read, live planes
  rdirty,     \* [Readers -> BOOLEAN]
  reads,      \* [Readers -> Nat]: attempts of a reader
  versions    \* every value the planes have had (history)

redisVars  == <<planes, receipts, applied, head, versions>>
callVars   == <<pc, owns, attempt, base, sent, reply, lost, wire, outcome>>
readerVars == <<rpc, rbase, reads>>
watchVars  == <<dirty, rdirty>>
vars       == <<redisVars, callVars, readerVars, watchVars, now>>

Steps     == {"watch", "planes", "receipt", "commit", "recover", "done"}
Replies   == {"none", "stored", "conflict", "replayed"}
ReadSteps == {"begin", "fetch", "watch", "reread", "refetch", "persist", "done", "failed"}
Kinds     == {"activity", "transaction", "receipt"}

Command == [call : Calls, attempt : Nat, kind : Kinds, expected : Planes, next : Planes]
Event   == [sequence : Nat, roomRevision : Nat]

eventFor(p) ==
  [sequence |-> p.coordination.stateRevision, roomRevision |-> p.document.roomRevision]

TypeOK ==
  /\ LedgerTypeOK
  /\ versions \subseteq Planes
  /\ now \in Times
  /\ head \in Event
  /\ pc \in [Calls -> Steps]
  /\ owns \in [Calls -> BOOLEAN]
  /\ attempt \in [Calls -> Nat]
  /\ base \in [Calls -> Planes]
  /\ dirty \in [Calls -> BOOLEAN]
  /\ sent \in [Calls -> Kinds]
  /\ reply \in [Calls -> Replies]
  /\ lost \in [Calls -> BOOLEAN]
  /\ wire \subseteq Command
  /\ rpc \in [Readers -> ReadSteps]
  /\ rbase \in [Readers -> Planes]
  /\ rdirty \in [Readers -> BOOLEAN]
  /\ reads \in [Readers -> Nat]

\* The mode a call of transact asks for; only canvas edits come without a
\* connection of their own.
watchedMode(c) == Op[c] \notin {"edit", "agent_edit"}

startStep(owned) == IF owned THEN "watch" ELSE "planes"

Init ==
  /\ LedgerInit
  /\ now = 0
  /\ head = eventFor(planes)
  /\ versions = {planes}
  /\ pc = [c \in Calls |-> startStep(watchedMode(c))]
  /\ owns = [c \in Calls |-> watchedMode(c)]
  /\ attempt = [c \in Calls |-> 0]
  /\ base = [c \in Calls |-> planes]
  /\ dirty = [c \in Calls |-> FALSE]
  /\ sent = [c \in Calls |-> "receipt"]
  /\ reply = [c \in Calls |-> "none"]
  /\ lost = [c \in Calls |-> FALSE]
  /\ wire = {}
  /\ rpc = [r \in Readers |-> "begin"]
  /\ rbase = [r \in Readers |-> planes]
  /\ rdirty = [r \in Readers |-> FALSE]
  /\ reads = [r \in Readers |-> 0]

-----------------------------------------------------------------------------
(* One attempt: WATCH, MGET, GET receipt, the updater, the commit.         *)

Finish(c, o) ==
  /\ pc' = [pc EXCEPT ![c] = "done"]
  /\ outcome' = [outcome EXCEPT ![c] = o]

\* Faulty variant: any receipt of the key will do.
FinishAsReplay(c) == Finish(c, "replayed")

\* The receipt of its key answers for the call.
FinishReplayed(c) ==
  Finish(c, IF ReceiptOf(c) = RequestOf[c] THEN "replayed" ELSE "key_conflict")

Retry(c) ==
  /\ attempt' = [attempt EXCEPT ![c] = @ + 1]
  /\ IF attempt[c] + 1 < MaxAttempts
     THEN /\ pc' = [pc EXCEPT ![c] = startStep(owns[c])]
          /\ UNCHANGED outcome
     ELSE Finish(c, "conflict")

\* A connection is told that a key was written while it watches it; before
\* WATCH the flag means nothing, and WATCH clears it.
Notify ==
  /\ dirty' = [c \in Calls |->
                 \/ dirty[c]
                 \/ owns[c] /\ planes' # planes
                 \/ owns[c] /\ Keyed(c) /\ receipts'[KeyOf[c]] # receipts[KeyOf[c]]]
  /\ rdirty' = [r \in Readers |-> \/ rdirty[r]
                                  \/ planes'.awareness # planes.awareness
                                  \/ planes'.coordination # planes.coordination]

WatchPlanes(c) ==
  /\ pc[c] = "watch"
  /\ dirty' = [dirty EXCEPT ![c] = FALSE]
  /\ pc' = [pc EXCEPT ![c] = "planes"]
  /\ UNCHANGED <<redisVars, readerVars, rdirty, now,
                 owns, attempt, base, sent, reply, lost, wire, outcome>>

ReadPlanes(c) ==
  /\ pc[c] = "planes"
  /\ base' = [base EXCEPT ![c] = planes]
  /\ pc' = [pc EXCEPT ![c] = "receipt"]
  /\ UNCHANGED <<redisVars, readerVars, watchVars, now,
                 owns, attempt, sent, reply, lost, wire, outcome>>

FindReceipt(c) ==
  /\ pc[c] = "receipt"
  /\ ReceiptOf(c) # NoReceipt
  /\ FinishReplayed(c)
  /\ UNCHANGED <<redisVars, readerVars, watchVars, now,
                 owns, attempt, base, sent, reply, lost, wire>>

result(c) == updated(c, base[c], now)
next(c)   == mutated(c, base[c], now)

kindOf(c) ==
  IF result(c).activity THEN "activity"
  ELSE IF sameContent(base[c], next(c)) THEN "receipt" ELSE "transaction"

Reject(c) ==
  /\ pc[c] = "receipt" /\ ReceiptOf(c) = NoReceipt
  /\ result(c).rejected
  /\ Finish(c, "rejected")
  /\ UNCHANGED <<redisVars, readerVars, watchVars, now,
                 owns, attempt, base, sent, reply, lost, wire>>

\* No activity after all: start over under WATCH, at no cost in attempts.
SwitchToWatched(c) ==
  /\ pc[c] = "receipt" /\ ReceiptOf(c) = NoReceipt
  /\ ~result(c).rejected /\ ~result(c).activity
  /\ ~owns[c]
  /\ owns' = [owns EXCEPT ![c] = TRUE]
  /\ pc' = [pc EXCEPT ![c] = "watch"]
  /\ UNCHANGED <<redisVars, readerVars, watchVars, now,
                 attempt, base, sent, reply, lost, wire, outcome>>

ReturnUnchanged(c) ==
  /\ pc[c] = "receipt" /\ ReceiptOf(c) = NoReceipt
  /\ ~result(c).rejected /\ kindOf(c) = "receipt" /\ owns[c]
  /\ ~Keyed(c)
  /\ Finish(c, "unchanged")
  /\ UNCHANGED <<redisVars, readerVars, watchVars, now,
                 owns, attempt, base, sent, reply, lost, wire>>

SendCommit(c) ==
  /\ pc[c] = "receipt" /\ ReceiptOf(c) = NoReceipt
  /\ ~result(c).rejected
  /\ \/ kindOf(c) = "activity"
     \/ kindOf(c) = "transaction" /\ owns[c]
     \/ kindOf(c) = "receipt" /\ owns[c] /\ Keyed(c)
  /\ wire' = wire \cup {[call |-> c, attempt |-> attempt[c], kind |-> kindOf(c),
                         expected |-> base[c],
                         next |-> IF kindOf(c) = "receipt" THEN base[c] ELSE next(c)]}
  /\ sent' = [sent EXCEPT ![c] = kindOf(c)]
  /\ reply' = [reply EXCEPT ![c] = "none"]
  /\ pc' = [pc EXCEPT ![c] = "commit"]
  /\ UNCHANGED <<redisVars, readerVars, watchVars, now, owns, attempt, base, lost, outcome>>

-----------------------------------------------------------------------------
(* Redis runs a command whole. The Lua command compares the planes it was  *)
(* prepared on; EXEC only knows whether a watched key has changed.         *)

awaited(cmd) == pc[cmd.call] = "commit" /\ attempt[cmd.call] = cmd.attempt

\* Faulty variant: EXEC without WATCH.
unwatchedVerdict(cmd) ==
  IF cmd.kind = "activity"
  THEN IF ReceiptOf(cmd.call) # NoReceipt THEN "replayed"
       ELSE IF planes # cmd.expected THEN "conflict" ELSE "stored"
  ELSE "stored"

verdict(cmd) ==
  IF cmd.kind = "activity"
  THEN IF ReceiptOf(cmd.call) # NoReceipt THEN "replayed"
       ELSE IF planes # cmd.expected THEN "conflict" ELSE "stored"
  ELSE IF dirty[cmd.call] THEN "conflict" ELSE "stored"

Answer(cmd) ==
  reply' = IF awaited(cmd) THEN [reply EXCEPT ![cmd.call] = verdict(cmd)] ELSE reply

\* Faulty variant: only mutations with an activity are announced.
activityEvent(cmd) == IF cmd.kind = "activity" THEN eventFor(cmd.next) ELSE head

\* The event EVENT_STREAM ends with after a commit.
publishedEvent(cmd) == IF cmd.kind = "receipt" THEN head ELSE eventFor(cmd.next)

Store(cmd) ==
  /\ cmd \in wire
  /\ verdict(cmd) = "stored"
  /\ planes' = writePlanes(planes, cmd.expected, cmd.next)
  /\ versions' = versions \cup {planes'}
  /\ receipts' = withReceipt(cmd.call)
  /\ applied' = [applied EXCEPT ![cmd.call] = @ + 1]
  /\ head' = publishedEvent(cmd)
  /\ wire' = wire \ {cmd}
  /\ Answer(cmd)
  /\ Notify
  /\ UNCHANGED <<readerVars, now, pc, owns, attempt, base, sent, lost, outcome>>

Refuse(cmd) ==
  /\ cmd \in wire
  /\ verdict(cmd) # "stored"
  /\ wire' = wire \ {cmd}
  /\ Answer(cmd)
  /\ UNCHANGED <<redisVars, readerVars, watchVars, now,
                 pc, owns, attempt, base, sent, lost, outcome>>

\* A command whose caller has already had an error never arrives.
Drop(cmd) ==
  /\ cmd \in wire /\ ~awaited(cmd)
  /\ wire' = wire \ {cmd}
  /\ UNCHANGED <<redisVars, readerVars, watchVars, now,
                 pc, owns, attempt, base, sent, reply, lost, outcome>>

-----------------------------------------------------------------------------
(* The answer, or the error that comes instead of it.                      *)

Return(c) ==
  /\ pc[c] = "commit" /\ reply[c] = "stored"
  /\ Finish(c, "ok")
  /\ UNCHANGED <<redisVars, readerVars, watchVars, now,
                 owns, attempt, base, sent, reply, lost, wire>>

LoseRace(c) ==
  /\ pc[c] = "commit" /\ reply[c] = "conflict"
  /\ Retry(c)
  /\ UNCHANGED <<redisVars, readerVars, watchVars, now,
                 owns, base, sent, reply, lost, wire>>

ReturnReplayed(c) ==
  /\ pc[c] = "commit" /\ reply[c] = "replayed"
  /\ FinishReplayed(c)
  /\ UNCHANGED <<redisVars, readerVars, watchVars, now,
                 owns, attempt, base, sent, reply, lost, wire>>

\* The commit raises. Whether it ran, runs later or never is not known.
LoseReply(c) ==
  /\ pc[c] = "commit"
  /\ lost' = [lost EXCEPT ![c] = TRUE]
  /\ pc' = [pc EXCEPT ![c] = "recover"]
  /\ UNCHANGED <<redisVars, readerVars, watchVars, now,
                 owns, attempt, base, sent, reply, wire, outcome>>

\* Without a key there is no receipt to ask.
GiveUp(c) ==
  /\ pc[c] = "recover" /\ ~Keyed(c)
  /\ Finish(c, IF sent[c] = "activity" THEN "unverified" ELSE "failed")
  /\ UNCHANGED <<redisVars, readerVars, watchVars, now,
                 owns, attempt, base, sent, reply, lost, wire>>

\* The receipt cannot be read either.
LoseReceipt(c) ==
  /\ pc[c] = "recover" /\ Keyed(c)
  /\ Finish(c, "unverified")
  /\ UNCHANGED <<redisVars, readerVars, watchVars, now,
                 owns, attempt, base, sent, reply, lost, wire>>

RecoverReceipt(c) ==
  /\ pc[c] = "recover" /\ ReceiptOf(c) # NoReceipt
  /\ FinishReplayed(c)
  /\ UNCHANGED <<redisVars, readerVars, watchVars, now,
                 owns, attempt, base, sent, reply, lost, wire>>

\* No receipt yet: only the Lua command, which checks it again, is repeated.
RecoverNothing(c) ==
  /\ pc[c] = "recover" /\ Keyed(c) /\ ReceiptOf(c) = NoReceipt
  /\ CASE sent[c] = "activity"    -> Retry(c)
       [] sent[c] = "transaction" -> Finish(c, "failed") /\ UNCHANGED attempt
       [] sent[c] = "receipt"     -> Finish(c, "unverified") /\ UNCHANGED attempt
  /\ UNCHANGED <<redisVars, readerVars, watchVars, now,
                 owns, base, sent, reply, lost, wire>>

-----------------------------------------------------------------------------
(* The presence script: one atomic step that no call can veto.  The time   *)
(* it works with was read when it was sent: any number of heartbeats are   *)
(* under way, and they run in any order.                                   *)

updatePresence(m) ==
  /\ planes.coordination.stateRevision < MaxRevision
  /\ \E at \in 0 .. now :
       \E seen \in seenAfter(planes, m, at) : planes' = presenceCommit(planes, m, seen, at)
  /\ versions' = versions \cup {planes'}
  /\ head' = [sequence |-> planes'.coordination.stateRevision,
              roomRevision |-> planes'.coordination.roomRevision]
  /\ Notify
  /\ UNCHANGED <<receipts, applied, callVars, readerVars, now>>

-----------------------------------------------------------------------------
(* getRoom. rbase[r] is what it will return: a document that may come from *)
(* an earlier read than the live planes next to it, once the fence agrees. *)

\* Faulty variant: live planes go with any document.
unfenced(p) == TRUE

fenced(p) == p.coordination.roomRevision = p.document.roomRevision

ReadRoom(r) ==
  /\ rpc[r] = "begin"
  /\ rbase' = [rbase EXCEPT ![r] = planes]
  /\ rpc' = [rpc EXCEPT ![r] = IF fenced(planes) /\ isLive(planes, now)
                               THEN "done" ELSE "fetch"]
  /\ UNCHANGED <<redisVars, callVars, watchVars, now, reads>>

\* readOrMigratePlanes on a room with nothing to migrate.
FetchPlanes(r) ==
  /\ rpc[r] = "fetch"
  /\ rbase' = [rbase EXCEPT ![r] = planes]
  /\ rpc' = [rpc EXCEPT ![r] = IF fenced(planes) /\ isLive(planes, now)
                               THEN "done" ELSE "watch"]
  /\ UNCHANGED <<redisVars, callVars, watchVars, now, reads>>

WatchLivePlanes(r) ==
  /\ rpc[r] = "watch"
  /\ rdirty' = [rdirty EXCEPT ![r] = FALSE]
  /\ rpc' = [rpc EXCEPT ![r] = "reread"]
  /\ UNCHANGED <<redisVars, callVars, dirty, now, rbase, reads>>

ReadAgain(r) ==
  /\ reads' = [reads EXCEPT ![r] = @ + 1]
  /\ rpc' = [rpc EXCEPT ![r] = IF reads[r] + 1 < MaxReads THEN "watch" ELSE "failed"]

besideLive(r) ==
  [document |-> rbase[r].document, awareness |-> planes.awareness,
   coordination |-> planes.coordination]

\* MGET of the live planes only: the document is fetched again when the
\* fence has moved, and liveness is derived when it has not.
ReadLivePlanes(r) ==
  /\ rpc[r] = "reread"
  /\ IF ~fenced(besideLive(r))
     THEN /\ rpc' = [rpc EXCEPT ![r] = "refetch"]
          /\ UNCHANGED rbase
     ELSE /\ rbase' = [rbase EXCEPT ![r] = reconcileDerivedState(besideLive(r), now)]
          /\ rpc' = [rpc EXCEPT ![r] = IF isLive(besideLive(r), now)
                                       THEN "done" ELSE "persist"]
  /\ UNCHANGED <<redisVars, callVars, watchVars, now, reads>>

RefetchDocument(r) ==
  /\ rpc[r] = "refetch"
  /\ rbase' = [rbase EXCEPT ![r].document = planes.document]
  /\ ReadAgain(r)
  /\ UNCHANGED <<redisVars, callVars, watchVars, now>>

PersistDerived(r) ==
  /\ rpc[r] = "persist" /\ ~rdirty[r]
  /\ planes' = [planes EXCEPT !.awareness = rbase[r].awareness,
                              !.coordination = rbase[r].coordination]
  /\ versions' = versions \cup {planes'}
  /\ head' = [sequence |-> rbase[r].coordination.stateRevision,
              roomRevision |-> rbase[r].coordination.roomRevision]
  /\ rpc' = [rpc EXCEPT ![r] = "done"]
  /\ Notify
  /\ UNCHANGED <<receipts, applied, callVars, now, rbase, reads>>

\* Faulty variant: EXEC is repeated on the transaction that was refused.
RepeatPersist(r) ==
  /\ rpc[r] = "persist" /\ rdirty[r]
  /\ UNCHANGED vars

LosePersistRace(r) ==
  /\ rpc[r] = "persist" /\ rdirty[r]
  /\ ReadAgain(r)
  /\ UNCHANGED <<redisVars, callVars, watchVars, now, rbase>>

Tick ==
  /\ now < MaxTime
  /\ now' = now + 1
  /\ UNCHANGED <<redisVars, callVars, readerVars, watchVars>>

-----------------------------------------------------------------------------
\* What a call does by itself, without an error.
CallStep(c) ==
  \/ WatchPlanes(c) \/ ReadPlanes(c) \/ FindReceipt(c) \/ Reject(c)
  \/ SwitchToWatched(c) \/ ReturnUnchanged(c) \/ SendCommit(c)
  \/ Return(c) \/ LoseRace(c) \/ ReturnReplayed(c)
  \/ GiveUp(c) \/ RecoverReceipt(c) \/ RecoverNothing(c)

ReadStep(r) ==
  \/ ReadRoom(r) \/ FetchPlanes(r) \/ WatchLivePlanes(r) \/ ReadLivePlanes(r)
  \/ RefetchDocument(r) \/ PersistDerived(r) \/ LosePersistRace(r)

RedisStep == \E cmd \in wire : Store(cmd) \/ Refuse(cmd)

Next ==
  \/ \E c \in Calls : CallStep(c) \/ LoseReply(c) \/ LoseReceipt(c)
  \/ RedisStep
  \/ \E cmd \in wire : Drop(cmd)
  \/ \E m \in Members : updatePresence(m)
  \/ \E r \in Readers : ReadStep(r)
  \/ Tick

Spec == Init /\ [][Next]_vars

\* Redis answers and the server's event loop goes on; nothing forces an
\* error, a heartbeat or the clock.
Fairness ==
  /\ \A c \in Calls : WF_vars(CallStep(c))
  /\ \A r \in Readers : WF_vars(ReadStep(r))
  /\ WF_vars(RedisStep)

FairSpec == Spec /\ Fairness

-----------------------------------------------------------------------------
(* Properties of the store itself; what it shares with every ledger is in  *)
(* RoomLedger.                                                             *)

\* What a call is told is what happened. A replay vouches for a committed
\* mutation of the same request; an error that is not "unknown" means
\* nothing was written, unless a reply of that call had been lost before.
OutcomeIsTrue ==
  \A c \in Calls :
    /\ outcome[c] = "ok" => applied[c] = 1
    /\ outcome[c] \in {"unchanged", "rejected", "conflict"} /\ ~lost[c] => applied[c] = 0
    /\ outcome[c] = "replayed" =>
         \E d \in Calls : KeyOf[d] = KeyOf[c] /\ RequestOf[d] = RequestOf[c] /\ applied[d] = 1
    /\ outcome[c] = "key_conflict" =>
         \E d \in Calls : KeyOf[d] = KeyOf[c] /\ RequestOf[d] # RequestOf[c] /\ applied[d] = 1

\* A reader never returns a document next to live planes of another room
\* revision: what getRoom returns was the room at some moment.
ReadsAreVersions == \A r \in Readers : rpc[r] = "done" => rbase[r] \in versions

\* A state revision never names two rooms, so subscribers may discard what
\* does not exceed the revision they have.
RevisionNamesVersion ==
  \A p, q \in versions :
    /\ p.coordination.stateRevision = q.coordination.stateRevision => p = q
    /\ p.document.roomRevision = q.document.roomRevision => p.document = q.document

\* The newest event carries the revisions of the stored room, whatever path
\* wrote it: a subscriber that has it knows whether its copy is current.
HeadIsCurrent == head = eventFor(planes)

\* No mutation and no derived write takes a heartbeat back, though both write
\* the whole plane they read: what lowers a member's last-seen time is another
\* heartbeat of that member, sent earlier and run later.
HeartbeatsAreKept ==
  [][\A m \in Members :
       planes'.awareness.lastSeenAt[m] < planes.awareness.lastSeenAt[m] => updatePresence(m)]_vars

\* Attempts that are not counted do not repeat: every call and every reader
\* comes to an end, however often it loses its race.
EveryCallReturns ==
  /\ \A c \in Calls : <>(pc[c] = "done")
  /\ \A r \in Readers : <>(rpc[r] \in {"done", "failed"})
=============================================================================
