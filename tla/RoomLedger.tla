----------------------------- MODULE RoomLedger -----------------------------
(***************************************************************************)
(* What the room store promises its callers, without Redis: one room that *)
(* mutations, heartbeats and liveness change one at a time, each applied   *)
(* to the room as it is at that moment, and an idempotency key that lets   *)
(* at most one mutation in.  RoomStore implements this specification.      *)
(***************************************************************************)
EXTENDS RoomUpdates

CONSTANTS
  Keys,          \* idempotency scopes (receipt keys)
  NoKey,         \* a call without an Idempotency-Key
  KeyOf,         \* [Calls -> Keys \cup {NoKey}]
  Requests,      \* request digests
  NoReceipt,     \* an absent receipt
  RequestOf,     \* [Calls -> Requests]
  Created,       \* the rooms it may be when the calls begin
  MaxTime        \* bound on the clock

ASSUME LedgerAssumption ==
  /\ KeyOf \in [Calls -> Keys \cup {NoKey}]
  /\ NoKey \notin Keys
  /\ RequestOf \in [Calls -> Requests]
  /\ NoReceipt \notin Requests
  /\ MaxTime \in Nat
  /\ Created \subseteq Planes
  /\ \A p \in Created :
       /\ p.coordination.roomRevision = p.document.roomRevision
       /\ p.coordination.stateRevision >= p.document.roomRevision
       /\ p.document.content.edits = [c \in Calls |-> 0]
       /\ p.document.content.proposals = [c \in Calls |-> 0]

VARIABLES
  planes,     \* the room
  receipts,   \* [Keys -> Requests \cup {NoReceipt}]
  applied,    \* [Calls -> Nat]: how often each mutation took effect
  outcome     \* [Calls -> Outcomes]

ledgerVars == <<planes, receipts, applied, outcome>>

Times == 0 .. MaxTime

\* "pending"      the call has not returned
\* "ok"           it returned its result
\* "unchanged"    it returned its result, there was nothing to write
\* "replayed"     the mutation of its key has already committed
\* "key_conflict" the key was used for another request
\* "rejected"     the updater threw
\* "conflict"     REVISION_CONFLICT: every attempt lost a race
\* "unverified"   the outcome of the mutation is unknown
\* "failed"       the error of the commit was passed on
Outcomes == {"pending", "ok", "unchanged", "replayed", "key_conflict",
             "rejected", "conflict", "unverified", "failed"}

LedgerTypeOK ==
  /\ planes \in Planes
  /\ receipts \in [Keys -> Requests \cup {NoReceipt}]
  /\ applied \in [Calls -> Nat]
  /\ outcome \in [Calls -> Outcomes]

Keyed(c) == KeyOf[c] # NoKey

ReceiptOf(c) == IF Keyed(c) THEN receipts[KeyOf[c]] ELSE NoReceipt

\* The updater's result on the planes p, with liveness derived first.
updated(c, p, now) == Update(c, composeRoomState(reconcileDerivedState(p, now)), now)

\* The planes it leaves.
mutated(c, p, now) == normalizeMutationRevisions(p, updated(c, p, now).room)

\* Faulty variants: the receipt is not written, or names the call.
withoutReceipt(c) == receipts
withCallReceipt(c) == IF Keyed(c) THEN [receipts EXCEPT ![KeyOf[c]] = c] ELSE receipts

withReceipt(c) == IF Keyed(c) THEN [receipts EXCEPT ![KeyOf[c]] = RequestOf[c]] ELSE receipts

-----------------------------------------------------------------------------
LedgerInit ==
  /\ planes \in Created
  /\ receipts = [k \in Keys |-> NoReceipt]
  /\ applied = [c \in Calls |-> 0]
  /\ outcome = [c \in Calls |-> "pending"]

\* The mutation takes effect, once, on the room as it is now.
Take(c) ==
  /\ applied[c] = 0
  /\ ReceiptOf(c) = NoReceipt
  /\ outcome[c] \notin {"ok", "unchanged", "replayed", "key_conflict"}
  /\ \E t \in Times : /\ ~updated(c, planes, t).rejected
                      /\ planes' = mutated(c, planes, t)
  /\ receipts' = withReceipt(c)
  /\ applied' = [applied EXCEPT ![c] = 1]
  /\ UNCHANGED outcome

\* The call returns. What it says is true.
Settle(c) ==
  /\ outcome[c] = "pending"
  /\ \E o \in Outcomes \ {"pending"} :
       /\ o = "ok" => applied[c] = 1
       /\ o = "unchanged" => applied[c] = 0 /\ ~Keyed(c)
       /\ o = "replayed" => ReceiptOf(c) = RequestOf[c]
       /\ o = "key_conflict" => ReceiptOf(c) \notin {NoReceipt, RequestOf[c]}
       /\ o = "rejected" => applied[c] = 0
       /\ outcome' = [outcome EXCEPT ![c] = o]
  /\ UNCHANGED <<planes, receipts, applied>>

Beat ==
  /\ \E m \in Members, t \in Times :
       \E seen \in seenAfter(planes, m, t) : planes' = presenceCommit(planes, m, seen, t)
  /\ UNCHANGED <<receipts, applied, outcome>>

Elapse ==
  /\ \E t \in Times : planes' = reconcileDerivedState(planes, t)
  /\ UNCHANGED <<receipts, applied, outcome>>

LedgerNext == (\E c \in Calls : Take(c) \/ Settle(c)) \/ Beat \/ Elapse

LedgerSpec == LedgerInit /\ [][LedgerNext]_ledgerVars

-----------------------------------------------------------------------------
(* Properties of the ledger, and so of every store that implements it.     *)

\* Revisions in order and the document fence in place: what the presence
\* script demands of the two planes it reads before it writes them
\* ("corrupt" otherwise), and getRoom before it trusts them.
HotPathReady ==
  /\ planes.coordination.roomRevision = planes.document.roomRevision
  /\ planes.coordination.stateRevision >= planes.coordination.roomRevision

\* An idempotency key lets one mutation in, whoever retries it and whatever
\* is still on the wire; a call without a key also takes effect at most once.
AtMostOnce ==
  \A c, d \in Calls :
    /\ applied[c] <= 1
    /\ c # d /\ Keyed(c) /\ KeyOf[c] = KeyOf[d] => applied[c] + applied[d] <= 1

\* The stored document holds every edit that took effect, once: no commit is
\* overwritten by one that was prepared on older planes.
NoLostEdit ==
  \A c \in Calls :
    Op[c] \in {"edit", "agent_edit"} =>
      planes.document.content.edits[c] + planes.document.content.proposals[c] = applied[c]

\* Revisions never go back, and anything that changes moves its revision.
RevisionsAdvance ==
  [][/\ planes' # planes =>
          planes'.coordination.stateRevision > planes.coordination.stateRevision
     /\ planes'.document # planes.document =>
          planes'.document.roomRevision > planes.document.roomRevision]_ledgerVars
=============================================================================
