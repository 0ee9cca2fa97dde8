--------------------------- MODULE AgentMessageStore ---------------------------
(***************************************************************************)
(* The channel of one participant's private messages to its agents, and    *)
(* the Redis scripts that create, claim and answer one and list them.      *)
(* Each operator is a test a script makes, or what it makes of the         *)
(* messages.                                                               *)
(*                                                                         *)
(* Moments are counted from now: the end of a lease is what is left of it, *)
(* and below -Drift every server agrees that it is over.  A server's clock *)
(* is any of Clocks, because the servers' clocks differ and because the    *)
(* clock is read before the room and the channel are.                      *)
(***************************************************************************)
EXTENDS Integers, FiniteSets, FiniteSetsExt

CONSTANTS
  Ids,             \* of messages
  Prompts,         \* what a message asks, with its context
  Bytes,           \* of the message a prompt makes
  ClaimIds,
  Tokens,          \* secrets of claims
  Texts,           \* what a reply says
  ClaimBytes,
  ReplyBytes,
  IncomingBytes,
  RetainedBytes,
  RetainedCount,
  PageLimit,       \* messages in one answer to a list
  Lease,           \* of a claim
  Drift            \* by which a server's clock may be off when it is used

ASSUME StoreAssumption ==
  /\ IsFiniteSet(Ids)
  /\ Bytes \in [Prompts -> Nat]
  /\ ClaimBytes \in Nat /\ ReplyBytes \in Nat
  /\ IncomingBytes \in Nat /\ RetainedBytes \in Nat /\ IncomingBytes <= RetainedBytes
  /\ RetainedCount \in Nat \ {0} /\ PageLimit \in Nat \ {0}
  /\ Drift \in Nat /\ Lease \in Nat /\ Lease > 2 * Drift

Clocks == -Drift .. Drift
Untils == -Drift .. Lease + Drift

NoClaim == [id |-> "none", token |-> "none", until |-> -Drift]
NoReply == [token |-> "none", text |-> "none"]
NoMessage == [sequence |-> 0, prompt |-> "none", claim |-> NoClaim, reply |-> NoReply]

EmptyChannel == [i \in Ids |-> NoMessage]

\* The messages of a channel; its array is in the order of their sequence.
stored(messages) == {i \in Ids : messages[i] # NoMessage}

isAnswered(m) == m.reply # NoReply

-----------------------------------------------------------------------------
(* What a channel holds, and what it gives up.                             *)

size(m) ==
  Bytes[m.prompt] + (IF m.claim = NoClaim THEN 0 ELSE ClaimBytes)
                  + (IF isAnswered(m) THEN ReplyBytes ELSE 0)

fits(messages) ==
  /\ Cardinality(stored(messages)) <= RetainedCount
  /\ MapThenSumSet(LAMBDA i : size(messages[i]), stored(messages)) <= RetainedBytes

without(messages, gone) == [i \in Ids |-> IF i \in gone THEN NoMessage ELSE messages[i]]

\* Faulty variant: the oldest messages go, answered or not.
AnyEvictable(messages, id) == stored(messages) \ {id}

Evictable(messages, id) == {i \in stored(messages) \ {id} : isAnswered(messages[i])}

\* Sets of answered messages, each with all that are older.
OldestEvictable(messages, id) ==
  {gone \in SUBSET Evictable(messages, id) :
     \A i \in gone, j \in Evictable(messages, id) \ gone :
       messages[i].sequence < messages[j].sequence}

\* No more are evicted than the limits call for; an empty set is "capacity".
Retained(messages, id) ==
  LET enough == {gone \in OldestEvictable(messages, id) : fits(without(messages, gone))}
  IN {without(messages, gone) : gone \in {g \in enough : \A h \in enough : g \subseteq h}}

-----------------------------------------------------------------------------
(* What the scripts test and make.                                         *)

created(number, prompt) == [NoMessage EXCEPT !.sequence = number, !.prompt = prompt]

isClaimReplay(m, claimId) == m.claim # NoClaim /\ m.claim.id = claimId

\* Faulty variant: a claim is never refused for another one's lease.
ClaimsAnything(m, now) == m # NoMessage /\ ~isAnswered(m)

canClaim(m, now) ==
  /\ m # NoMessage /\ ~isAnswered(m)
  /\ m.claim.until <= now

\* Faulty variant: the lease is not converted to the unit of the clock.
ClaimedForAges(m, claimId, token, now) ==
  [m EXCEPT !.claim = [id |-> claimId, token |-> token, until |-> now + 1000 * Lease]]

claimed(m, claimId, token, now) ==
  [m EXCEPT !.claim = [id |-> claimId, token |-> token, until |-> now + Lease]]

\* Faulty variant: a later reply takes the place of the earlier.
RepliesAgain(m, token, now) == m.claim # NoClaim /\ m.claim.token = token /\ m.claim.until > now

canReply(m, token, now) ==
  /\ ~isAnswered(m)
  /\ m.claim # NoClaim /\ m.claim.token = token
  /\ m.claim.until > now

replied(m, reply) == [m EXCEPT !.reply = reply]

-----------------------------------------------------------------------------
(* Lists.                                                                  *)

\* Faulty variant: a claim whose lease is over hides its message.
NeverClaimed(m, now) == m # NoMessage /\ ~isAnswered(m) /\ m.claim = NoClaim

isPending(m, now) == m # NoMessage /\ ~isAnswered(m) /\ m.claim.until <= now

\* Faulty variant: the newest messages first.
NewestPage(messages, matching) ==
  {i \in matching :
     Cardinality({j \in matching : messages[j].sequence > messages[i].sequence}) < PageLimit}

Page(messages, matching) ==
  {i \in matching :
     Cardinality({j \in matching : messages[j].sequence < messages[i].sequence}) < PageLimit}
===============================================================================
