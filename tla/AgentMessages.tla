----------------------------- MODULE AgentMessages -----------------------------
(***************************************************************************)
(* A participant's private inbox in use.  The Ask panel sends messages;    *)
(* agents of the participant list what is pending, claim one message for a *)
(* lease, work on it and reply.  A request whose answer is lost is sent    *)
(* once more with the same body, and whatever was sent may still reach the *)
(* store after its caller has gone on, or never.                           *)
(*                                                                         *)
(* External: what an agent does between its calls; the texts it replies.   *)
(***************************************************************************)
EXTENDS AgentMessageStore

CONSTANTS
  Panel,        \* the browser tab that asks
  Agents,
  Tags,         \* identities of requests on the wire
  MaxAsks,      \* bound: messages sent
  MaxFaults     \* bound: connections lost, agents too slow or gone

ASSUME InboxAssumption == Panel \notin Agents /\ MaxAsks \in Nat /\ MaxFaults \in Nat

VARIABLES
  messages,     \* the channel
  nextSequence,
  wire,         \* requests sent and not executed
  calls,        \* what each client waits for; tries = 0 if nothing
  draft,        \* the message that the panel has not heard of, and would send again
  holds,        \* the claim each agent works under
  cursor,       \* highest sequence that an agent listing all messages has seen
  asks,
  faults,
  seen,         \* history: sequences that the listing agent has seen
  forgotten     \* history: its cursor when the channel expired

vars ==
  <<messages, nextSequence, wire, calls, draft, holds, cursor, asks, faults, seen, forgotten>>
listing == <<cursor, seen, forgotten>>

Clients == Agents \cup {Panel}
\* key is the prompt, the claim's id or the claim's token.
NoRequest ==
  [by |-> "none", tag |-> "none", kind |-> "none", id |-> "none", key |-> "none", text |-> "none"]
Idle == [request |-> NoRequest, tries |-> 0]
NoDraft == [id |-> "none", prompt |-> "none"]
NoHold == [id |-> "none", sequence |-> 0, token |-> "none", until |-> -Drift]

\* Requests that were sent and not executed; those nobody waits for may never be.
requests(kind) == {q \in wire : q.kind = kind}
awaited(q) == \E c \in Clients : calls[c].request = q

Init ==
  /\ messages = EmptyChannel
  /\ nextSequence = 1
  /\ wire = {}
  /\ calls = [c \in Clients |-> Idle]
  /\ draft = NoDraft
  /\ holds = [a \in Agents |-> NoHold]
  /\ cursor = 0
  /\ asks = 0
  /\ faults = 0
  /\ seen = {}
  /\ forgotten = 0

-----------------------------------------------------------------------------
(* Identities nobody knows yet.                                            *)

\* Requests of one client that are on the wire together differ in their tag.
freeTags(c) == Tags \ {q.tag : q \in {r \in wire : r.by = c}}

knownIds ==
  stored(messages) \cup {q.id : q \in wire} \cup {holds[a].id : a \in Agents}

\* Claim ids and tokens are compared within one message only.
knownClaimIds(i) ==
  {messages[i].claim.id} \cup {q.key : q \in {r \in requests("claim") : r.id = i}}

knownTokens(i) ==
  {messages[i].claim.token, messages[i].reply.token}
    \cup {holds[a].token : a \in {b \in Agents : holds[b].id = i}}
    \cup {q.key : q \in {r \in requests("reply") : r.id = i}}

\* Random identities are as good as any that nobody knows.
OneOf(S) == IF S = {} THEN {} ELSE {CHOOSE x \in S : TRUE}

-----------------------------------------------------------------------------
(* Calls.                                                                  *)

Sends(c, q, tries) ==
  \E tag \in OneOf(freeTags(c)) :
    LET tagged == [q EXCEPT !.tag = tag]
    IN /\ wire' = wire \cup {tagged}
       /\ calls' = [calls EXCEPT ![c] = [request |-> tagged, tries |-> tries]]

Calls(c, kind, i, key, text) ==
  /\ calls[c] = Idle
  /\ Sends(c, [NoRequest EXCEPT !.by = c, !.kind = kind, !.id = i, !.key = key,
                                !.text = text], 1)

\* The request is executed; the caller hears of it if it still waits for it.
Answered(q) ==
  /\ wire' = wire \ {q}
  /\ calls' = [c \in Clients |-> IF calls[c].request = q THEN Idle ELSE calls[c]]

\* The answer is lost: apiRequest sends the request a second time, unless it
\* was the second time, or the caller is being stopped.
ConnectionLost(c) ==
  /\ calls[c] # Idle /\ faults < MaxFaults
  /\ faults' = faults + 1
  /\ \/ calls[c].tries = 1 /\ Sends(c, calls[c].request, 2)
     \/ calls' = [calls EXCEPT ![c] = Idle] /\ UNCHANGED wire
  /\ UNCHANGED <<messages, nextSequence, draft, holds, asks, listing>>

-----------------------------------------------------------------------------
(* create                                                                  *)

\* A message keeps its id until the panel hears that it is stored.
Send ==
  /\ asks < MaxAsks
  /\ asks' = asks + 1
  /\ \E d \in {draft} \cup [id : OneOf(Ids \ knownIds), prompt : Prompts] :
       /\ d # NoDraft
       /\ draft' = d
       /\ Calls(Panel, "create", d.id, d.prompt, "none")
  /\ UNCHANGED <<messages, nextSequence, holds, faults, listing>>

Create(q) ==
  LET m == created(nextSequence, q.key)
      grown == Retained([messages EXCEPT ![q.id] = m], q.id)
  IN /\ Answered(q)
     /\ \/ /\ messages[q.id] = NoMessage
           /\ size(m) <= IncomingBytes
           /\ messages' \in grown
           /\ nextSequence' = nextSequence + 1
        \/ \* replayed, or idempotency_conflict, too_large or capacity
           /\ \/ messages[q.id] # NoMessage
              \/ size(m) > IncomingBytes
              \/ grown = {}
           /\ UNCHANGED <<messages, nextSequence>>
     /\ draft' = IF awaited(q) /\ messages'[q.id].prompt = q.key THEN NoDraft ELSE draft
     /\ UNCHANGED <<holds, asks, faults, listing>>

-----------------------------------------------------------------------------
(* list                                                                    *)

\* An agent without a claim lists what is pending and claims one of it.
Poll(a) ==
  /\ holds[a] = NoHold
  /\ \E now \in Clocks :
       \E i \in Page(messages, {j \in Ids : isPending(messages[j], now)}) :
         \E k \in OneOf(ClaimIds \ knownClaimIds(i)) : Calls(a, "claim", i, k, "none")
  /\ UNCHANGED <<messages, nextSequence, draft, holds, asks, faults, listing>>

\* An agent looks for messages of any state after its cursor.
Discover ==
  LET page == Page(messages, {i \in stored(messages) : messages[i].sequence > cursor})
  IN /\ page # {}
     /\ cursor' = Max({messages[i].sequence : i \in page})
     /\ seen' = seen \cup {messages[i].sequence : i \in page}
     /\ UNCHANGED <<messages, nextSequence, wire, calls, draft, holds, asks, faults, forgotten>>

-----------------------------------------------------------------------------
(* claim                                                                   *)

\* A caller that waits learns the token, and until when it may work.
Granted(q, m, now) ==
  holds' = [a \in Agents |->
    IF calls[a].request = q
      THEN [id |-> q.id, sequence |-> m.sequence, token |-> m.claim.token,
            until |-> IF m.claim.until > now /\ ~isAnswered(m) THEN m.claim.until ELSE -Drift]
      ELSE holds[a]]

Claim(q) ==
  LET m == messages[q.id]
  IN /\ Answered(q)
     /\ \E now \in Clocks, token \in OneOf(Tokens \ knownTokens(q.id)) :
          LET n == claimed(m, q.key, token, now)
              grown == Retained([messages EXCEPT ![q.id] = n], q.id)
          IN \/ /\ isClaimReplay(m, q.key)
                /\ Granted(q, m, now)
                /\ UNCHANGED messages
             \/ /\ ~isClaimReplay(m, q.key)
                /\ canClaim(m, now)
                /\ messages' \in grown
                /\ Granted(q, n, now)
             \/ \* not_found, answered, claimed or capacity
                /\ ~isClaimReplay(m, q.key)
                /\ canClaim(m, now) => grown = {}
                /\ UNCHANGED <<messages, holds>>
     /\ UNCHANGED <<nextSequence, draft, asks, faults, listing>>

-----------------------------------------------------------------------------
(* reply                                                                   *)

Reply(a) ==
  /\ holds[a] # NoHold
  /\ \E text \in Texts : Calls(a, "reply", holds[a].id, holds[a].token, text)
  /\ UNCHANGED <<messages, nextSequence, draft, holds, asks, faults, listing>>

\* An agent that hears the outcome is done with its claim, whatever it is.
Released(q) ==
  holds' = [a \in Agents |-> IF calls[a].request = q THEN NoHold ELSE holds[a]]

Replied(q) ==
  LET m == messages[q.id]
      reply == [token |-> q.key, text |-> q.text]
  IN /\ Answered(q)
     /\ Released(q)
     /\ \E now \in Clocks :
          LET grown == Retained([messages EXCEPT ![q.id] = replied(m, reply)], q.id)
          IN \/ /\ canReply(m, q.key, now)
                /\ messages' \in grown
             \/ \* replayed, or not_found, idempotency_conflict, claim_required,
                \* claim_expired or capacity
                /\ canReply(m, q.key, now) => grown = {}
                /\ UNCHANGED messages
     /\ UNCHANGED <<nextSequence, draft, asks, faults, listing>>

\* The agent is closed, or forgets what it claimed.
Abandon(a) ==
  /\ holds[a] # NoHold /\ calls[a] = Idle /\ faults < MaxFaults
  /\ faults' = faults + 1
  /\ holds' = [holds EXCEPT ![a] = NoHold]
  /\ UNCHANGED <<messages, nextSequence, wire, calls, draft, asks, listing>>

-----------------------------------------------------------------------------
(* Time.                                                                   *)

later(until) == IF until > -Drift THEN until - 1 ELSE until

leases == {messages[i].claim.until : i \in Ids} \cup {holds[a].until : a \in Agents}

\* An agent that lets the time pass in which its reply is sure to be taken
\* is too slow: how often is bounded.
Tick ==
  /\ \E until \in leases : until > -Drift
  /\ IF \E a \in Agents : holds[a].until = Drift + 1
       THEN faults < MaxFaults /\ faults' = faults + 1
       ELSE UNCHANGED faults
  /\ messages' = [i \in Ids |-> [messages[i] EXCEPT !.claim.until = later(@)]]
  /\ holds' = [a \in Agents |-> [holds[a] EXCEPT !.until = later(@)]]
  /\ UNCHANGED <<nextSequence, wire, calls, draft, asks, listing>>

\* Nobody created, claimed or answered a message for thirty days.
Expire ==
  /\ messages # EmptyChannel
  /\ \A c \in Clients : calls[c] = Idle
  /\ \A until \in leases : until = -Drift
  /\ messages' = EmptyChannel
  /\ nextSequence' = 1
  /\ seen' = {}
  /\ forgotten' = cursor
  /\ wire' = {}
  /\ UNCHANGED <<calls, draft, holds, cursor, asks, faults>>

-----------------------------------------------------------------------------
Serve(q) ==
  \/ q.kind = "create" /\ Create(q)
  \/ q.kind = "claim" /\ Claim(q)
  \/ q.kind = "reply" /\ Replied(q)

Heard(c) == calls[c] # Idle /\ Serve(calls[c].request)

Next ==
  \/ Send
  \/ \E q \in requests("create") : Create(q)
  \/ \E q \in requests("claim") : Claim(q)
  \/ \E q \in requests("reply") : Replied(q)
  \/ \E c \in Clients : ConnectionLost(c)
  \/ \E a \in Agents : Poll(a) \/ Reply(a) \/ Abandon(a)
  \/ Discover \/ Tick \/ Expire

\* Requests that are waited for are served, agents keep polling and reply to
\* what they have claimed, and time passes.
Spec ==
  /\ Init /\ [][Next]_vars
  /\ WF_vars(Heard(Panel)) /\ WF_vars(Tick)
  /\ \A a \in Agents : WF_vars(Heard(a) \/ Poll(a) \/ Reply(a))

-----------------------------------------------------------------------------
(* Properties.                                                             *)

Claims == [id : ClaimIds, token : Tokens, until : Untils]
Replies == [token : Tokens, text : Texts]
Messages ==
  [sequence : Nat \ {0}, prompt : Prompts, claim : Claims \cup {NoClaim},
   reply : Replies \cup {NoReply}]

\* A channel that parseChannel accepts: numbers are never used twice.
InboxTypeOK ==
  /\ messages \in [Ids -> Messages \cup {NoMessage}]
  /\ nextSequence \in Nat \ {0}
  /\ \A i, j \in stored(messages) :
       /\ messages[i].sequence < nextSequence
       /\ messages[i].sequence = messages[j].sequence => i = j
  /\ holds \in [Agents -> [id : Ids \cup {"none"}, sequence : Nat, token : Tokens \cup {"none"},
                          until : Untils]]

\* As long as a lease is sure to last, no other claim takes the place of the
\* holder's and no other agent's reply is stored for it.  (The message may be
\* gone: its reply was stored, not heard of, and the answered message evicted.)
WorkIsExclusive ==
  \A a \in Agents : \A i \in Ids :
    holds[a].until > Drift /\ holds[a].id = i /\ holds[a].sequence = messages[i].sequence =>
      /\ messages[i].claim.token = holds[a].token
      /\ isAnswered(messages[i]) => messages[i].reply.token = holds[a].token

\* An agent that follows new messages by its cursor misses none; but those
\* of a channel begun after the old one expired are numbered from 1 again.
CursorMissesNothing ==
  \A i \in stored(messages) :
    messages[i].sequence \in (forgotten + 1)..cursor => messages[i].sequence \in seen

box == [i \in Ids |-> IF messages[i] = NoMessage THEN NoMessage
                      ELSE [number |-> messages[i].sequence, reply |-> messages[i].reply]]

Box == INSTANCE AskBox WITH asks <- box, issued <- nextSequence - 1, NoAsk <- NoMessage

\* What the participant is promised, whatever claims, retries and limits do.
AskBoxSpec == Box!Spec

open == {i \in stored(messages) : ~isAnswered(messages[i])}

\* The claims and the reply that are still to come may not find room, since
\* only answered messages are ever evicted.
crowded ==
  MapThenSumSet(LAMBDA i : Bytes[messages[i].prompt] + ClaimBytes, open) + ReplyBytes
    > RetainedBytes

\* A message that was stored is answered in the end, although agents leave
\* and replies get lost: unless the channel is crowded, or it expires.
AsksAreAnswered == \A i \in Ids : i \in open ~> (i \notin open \/ crowded)
===============================================================================
