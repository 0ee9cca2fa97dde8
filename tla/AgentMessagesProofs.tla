-------------------------- MODULE AgentMessagesProofs --------------------------
(***************************************************************************)
(* A participant's inbox keeps what AskBox promises, and an agent's work   *)
(* is its own for as long as its lease is sure to last: for any messages,  *)
(* agents, leases, limits and faults.                                      *)
(*                                                                         *)
(* The argument: numbers are never used twice, so a hold names one         *)
(* message; a script that replaces a claim needs a clock past its end, and *)
(* the holder's own claim is the one it would have to replace.             *)
(***************************************************************************)
EXTENDS AgentMessages, FiniteSetTheorems, WellFoundedInduction, TLAPS

-----------------------------------------------------------------------------
(* The invariant.                                                          *)

Requests ==
  [by : Clients, tag : Tags, kind : {"create"}, id : Ids, key : Prompts, text : {"none"}]
  \cup [by : Clients, tag : Tags, kind : {"claim"}, id : Ids, key : ClaimIds, text : {"none"}]
  \cup [by : Clients, tag : Tags, kind : {"reply"}, id : Ids, key : Tokens, text : Texts]

Holds == [id : Ids, sequence : Nat \ {0}, token : Tokens, until : Untils]

ChannelOK ==
  /\ messages \in [Ids -> Messages \cup {NoMessage}]
  /\ nextSequence \in Nat \ {0}

NumbersOK ==
  \A i, j \in Ids :
    messages[i] # NoMessage /\ messages[j] # NoMessage =>
      /\ messages[i].sequence < nextSequence
      /\ messages[i].sequence = messages[j].sequence => i = j

CallsOK ==
  /\ wire \subseteq Requests
  /\ calls \in [Clients -> [request : Requests, tries : Nat] \cup {Idle}]

DraftOK == draft \in [id : Ids, prompt : Prompts] \cup {NoDraft}

HoldsOK == holds \in [Agents -> Holds \cup {NoHold}]

\* A hold that is sure to last is of the message's present claim.
isHeld(h) ==
  /\ h.sequence < nextSequence
  /\ h.sequence = messages[h.id].sequence =>
       /\ messages[h.id].claim.token = h.token
       /\ messages[h.id].claim.until = h.until
       /\ isAnswered(messages[h.id]) => messages[h.id].reply.token = h.token

WorkIsHeld == \A a \in Agents : holds[a] # NoHold /\ holds[a].until > Drift => isHeld(holds[a])

InboxInv == ChannelOK /\ NumbersOK /\ CallsOK /\ DraftOK /\ HoldsOK /\ WorkIsHeld

LEMMA InvariantParts == InboxInv => InboxTypeOK /\ WorkIsExclusive
<1> SUFFICES ASSUME InboxInv PROVE InboxTypeOK /\ WorkIsExclusive
  OBVIOUS
<1>1. holds \in [Agents -> [id : Ids \cup {"none"}, sequence : Nat, token : Tokens \cup {"none"},
                            until : Untils]]
  BY StoreAssumption DEF InboxInv, HoldsOK, Holds, NoHold, Untils
<1>2. \A i, j \in stored(messages) :
       /\ messages[i].sequence < nextSequence
       /\ messages[i].sequence = messages[j].sequence => i = j
  BY DEF InboxInv, NumbersOK, stored
<1>3. WorkIsExclusive
  <2> SUFFICES ASSUME NEW a \in Agents, NEW i \in Ids,
                      holds[a].until > Drift, holds[a].id = i,
                      holds[a].sequence = messages[i].sequence
               PROVE  /\ messages[i].claim.token = holds[a].token
                      /\ isAnswered(messages[i]) => messages[i].reply.token = holds[a].token
    BY Zenon DEF WorkIsExclusive
  <2>1. holds[a] # NoHold
    BY StoreAssumption DEF NoHold
  <2> QED
    BY <2>1 DEF InboxInv, WorkIsHeld, isHeld
<1> QED
  BY <1>1, <1>2, <1>3 DEF InboxInv, ChannelOK, InboxTypeOK
-----------------------------------------------------------------------------
(* The channel.                                                            *)

LEMMA OneOfThem ==
  ASSUME NEW S, NEW x \in OneOf(S)
  PROVE  x \in S
BY DEF OneOf

LEMMA MessagesAreStored == NoMessage \notin Messages
BY DEF NoMessage, Messages

\* What a script stores: the message at hand, and of the others all that
\* have no answer.
LEMMA Stores ==
  ASSUME ChannelOK, NEW i \in Ids, NEW m \in Messages,
         NEW g \in Retained([messages EXCEPT ![i] = m], i)
  PROVE  /\ g \in [Ids -> Messages \cup {NoMessage}]
         /\ g[i] = m
         /\ \A j \in Ids \ {i} :
              \/ g[j] = messages[j]
              \/ g[j] = NoMessage /\ messages[j] # NoMessage /\ isAnswered(messages[j])
<1> DEFINE f == [messages EXCEPT ![i] = m]
<1>1. PICK gone \in OldestEvictable(f, i) : g = without(f, gone)
  BY DEF Retained
<1>2. gone \subseteq Evictable(f, i)
  BY DEF OldestEvictable
<1>3. /\ f \in [Ids -> Messages \cup {NoMessage}]
      /\ f[i] = m
      /\ \A j \in Ids \ {i} : f[j] = messages[j]
  BY DEF ChannelOK
<1> HIDE DEF f
<1>4. \A j \in gone : j # i /\ f[j] # NoMessage /\ isAnswered(f[j])
  BY <1>2 DEF Evictable, stored
<1>5. g = [j \in Ids |-> IF j \in gone THEN NoMessage ELSE f[j]]
  BY <1>1 DEF without
<1> QED
  BY <1>3, <1>4, <1>5

LEMMA ClaimedMessage ==
  ASSUME NEW m \in Messages, NEW id \in ClaimIds, NEW token \in Tokens, NEW now \in Clocks
  PROVE  LET n == claimed(m, id, token, now)
         IN  /\ n \in Messages /\ n.claim # NoClaim
             /\ n.sequence = m.sequence /\ n.reply = m.reply
<1> DEFINE k == [id |-> id, token |-> token, until |-> now + Lease]
           n == claimed(m, id, token, now)
<1>1. now + Lease \in Untils /\ now + Lease # -Drift
  BY StoreAssumption DEF Clocks, Untils
<1>2. k \in Claims /\ k # NoClaim
  BY <1>1 DEF Claims, NoClaim
<1>3. n = [m EXCEPT !.claim = k]
  BY Zenon DEF claimed
<1> HIDE DEF k, n
<1>4. n \in Messages /\ n.claim # NoClaim /\ n.sequence = m.sequence /\ n.reply = m.reply
  BY <1>2, <1>3 DEF Messages
<1> QED
  BY <1>4 DEF n

LEMMA RepliedMessage ==
  ASSUME NEW m \in Messages, NEW token \in Tokens, NEW text \in Texts
  PROVE  LET n == replied(m, [token |-> token, text |-> text])
         IN  /\ n \in Messages
             /\ n.sequence = m.sequence /\ n.claim = m.claim
             /\ n.reply = [token |-> token, text |-> text] /\ n.reply.token = token
             /\ n.reply \in Replies
<1> DEFINE r == [token |-> token, text |-> text]
           n == replied(m, r)
<1>1. r \in Replies /\ r.token = token
  BY DEF Replies
<1>2. n = [m EXCEPT !.reply = r]
  BY Zenon DEF replied
<1> HIDE DEF r, n
<1>3. n \in Messages /\ n.sequence = m.sequence /\ n.claim = m.claim /\ n.reply = r
  BY <1>1, <1>2 DEF Messages
<1> QED
  BY <1>1, <1>3 DEF n, r

\* Numbers stay what they are unless a message is created.
LEMMA NumbersStay ==
  ASSUME NumbersOK, nextSequence' = nextSequence,
         \A j \in Ids : messages'[j] # NoMessage =>
           messages[j] # NoMessage /\ messages'[j].sequence = messages[j].sequence
  PROVE  NumbersOK'
BY DEF NumbersOK

\* What others do to a message under a claim that is sure to last.
isLeftToIt(m, n) ==
  \/ n = NoMessage
  \/ /\ n.sequence = m.sequence
     /\ n.claim = m.claim
     /\ n.reply = m.reply \/ n.reply.token = m.claim.token

LEMMA HoldStays ==
  ASSUME NEW h \in Holds, isHeld(h), nextSequence \in Nat, nextSequence' \in Nat,
         nextSequence <= nextSequence', isLeftToIt(messages[h.id], messages'[h.id])
  PROVE  isHeld(h)'
<1>1. h.sequence < nextSequence'
  BY DEF isHeld, Holds
<1>2. SUFFICES ASSUME h.sequence = messages'[h.id].sequence
               PROVE  /\ messages'[h.id].claim.token = h.token
                      /\ messages'[h.id].claim.until = h.until
                      /\ isAnswered(messages'[h.id]) => messages'[h.id].reply.token = h.token
  BY <1>1 DEF isHeld
<1>3. messages'[h.id] # NoMessage
  BY <1>2 DEF Holds, NoMessage
<1> QED
  BY <1>2, <1>3 DEF isHeld, isLeftToIt, isAnswered

LEMMA SameIsLeft == \A m : isLeftToIt(m, m) /\ isLeftToIt(m, NoMessage)
BY DEF isLeftToIt

-----------------------------------------------------------------------------
(* The wire.                                                               *)

LEMMA Sent ==
  ASSUME CallsOK, NEW c \in Clients, NEW q, \A tag \in Tags : [q EXCEPT !.tag = tag] \in Requests,
         NEW tries \in Nat, Sends(c, q, tries)
  PROVE  CallsOK'
<1>1. PICK tag \in Tags :
        LET tagged == [q EXCEPT !.tag = tag]
        IN  /\ wire' = wire \cup {tagged}
            /\ calls' = [calls EXCEPT ![c] = [request |-> tagged, tries |-> tries]]
  BY OneOfThem DEF Sends, freeTags
<1> DEFINE tagged == [q EXCEPT !.tag = tag]
<1>2. tagged \in Requests
  OBVIOUS
<1> HIDE DEF tagged
<1>3. [request |-> tagged, tries |-> tries] \in [request : Requests, tries : Nat]
  BY <1>2
<1> QED
  BY <1>1, <1>2, <1>3 DEF CallsOK, tagged

LEMMA Executed ==
  ASSUME CallsOK, NEW q, Answered(q)
  PROVE  CallsOK'
BY DEF CallsOK, Answered

\* A request that is well formed stays so under any tag.
LEMMA Retagged ==
  ASSUME NEW q \in Requests, NEW tag \in Tags
  PROVE  [q EXCEPT !.tag = tag] \in Requests
BY DEF Requests

LEMMA WellFormed ==
  ASSUME NEW c \in Clients, NEW i \in Ids, NEW tag \in Tags
  PROVE  LET q(kind, key, text) ==
               [[NoRequest EXCEPT !.by = c, !.kind = kind, !.id = i, !.key = key, !.text = text]
                 EXCEPT !.tag = tag]
         IN  /\ \A p \in Prompts : q("create", p, "none") \in Requests
             /\ \A k \in ClaimIds : q("claim", k, "none") \in Requests
             /\ \A t \in Tokens, x \in Texts : q("reply", t, x) \in Requests
BY DEF Requests, NoRequest

-----------------------------------------------------------------------------
(* What the steps keep.                                                    *)

LEMMA InitInv == Init => InboxInv
<1> SUFFICES ASSUME Init PROVE InboxInv
  OBVIOUS
<1>1. ChannelOK /\ NumbersOK
  BY DEF Init, ChannelOK, NumbersOK, EmptyChannel
<1>2. CallsOK /\ DraftOK /\ HoldsOK
  BY DEF Init, CallsOK, DraftOK, HoldsOK
<1>3. WorkIsHeld
  BY DEF Init, WorkIsHeld
<1> QED
  BY <1>1, <1>2, <1>3 DEF InboxInv

LEMMA Untouched ==
  ASSUME InboxInv
  PROVE  /\ UNCHANGED <<messages, nextSequence>> => ChannelOK' /\ NumbersOK'
         /\ UNCHANGED <<messages, nextSequence, holds>> => WorkIsHeld'
         /\ UNCHANGED <<wire, calls>> => CallsOK'
         /\ UNCHANGED draft => DraftOK'
         /\ UNCHANGED holds => HoldsOK'
<1>1. UNCHANGED <<messages, nextSequence>> => ChannelOK' /\ NumbersOK'
  BY DEF InboxInv, ChannelOK, NumbersOK
<1>2. UNCHANGED <<messages, nextSequence, holds>> => WorkIsHeld'
  BY DEF InboxInv, WorkIsHeld, isHeld
<1>3. UNCHANGED <<wire, calls>> => CallsOK'
  BY DEF InboxInv, CallsOK
<1>4. UNCHANGED draft => DraftOK'
  BY DEF InboxInv, DraftOK
<1>5. UNCHANGED holds => HoldsOK'
  BY DEF InboxInv, HoldsOK
<1> QED
  BY <1>1, <1>2, <1>3, <1>4, <1>5

LEMMA SendKeeps ==
  ASSUME InboxInv, Send
  PROVE  InboxInv'
<1>1. PICK d \in {draft} \cup [id : OneOf(Ids \ knownIds), prompt : Prompts] :
        /\ d # NoDraft
        /\ draft' = d
        /\ Calls(Panel, "create", d.id, d.prompt, "none")
  BY DEF Send
<1>2. d \in [id : Ids, prompt : Prompts]
  BY <1>1, OneOfThem DEF InboxInv, DraftOK
<1>3. DraftOK'
  BY <1>1, <1>2 DEF DraftOK
<1>4. CallsOK'
  BY <1>1, <1>2, Sent, WellFormed DEF InboxInv, Calls, Clients
<1> QED
  BY <1>3, <1>4, Untouched DEF Send, InboxInv

LEMMA ConnectionLostKeeps ==
  ASSUME InboxInv, NEW c \in Clients, ConnectionLost(c)
  PROVE  InboxInv'
<1>1. calls[c] # Idle /\ calls[c] \in [request : Requests, tries : Nat]
  BY DEF InboxInv, CallsOK, ConnectionLost
<1>2. CASE Sends(c, calls[c].request, 2)
  <2>1. calls[c].request \in Requests
    BY <1>1
  <2>2. CallsOK'
    BY <1>2, <2>1, Sent, Retagged DEF InboxInv
  <2> QED
    BY <2>2, Untouched DEF ConnectionLost, InboxInv
<1>3. CASE calls' = [calls EXCEPT ![c] = Idle] /\ UNCHANGED wire
  <2>1. CallsOK'
    BY <1>3 DEF InboxInv, CallsOK
  <2> QED
    BY <2>1, Untouched DEF ConnectionLost, InboxInv
<1> QED
  BY <1>2, <1>3 DEF ConnectionLost

LEMMA PollKeeps ==
  ASSUME InboxInv, NEW a \in Agents, Poll(a)
  PROVE  InboxInv'
<1>1. PICK i \in Ids, k \in ClaimIds : Calls(a, "claim", i, k, "none")
  BY OneOfThem DEF Poll, Page
<1>2. CallsOK'
  BY <1>1, Sent, WellFormed DEF InboxInv, Calls, Clients
<1> QED
  BY <1>2, Untouched DEF Poll, InboxInv

LEMMA ReplyKeeps ==
  ASSUME InboxInv, NEW a \in Agents, Reply(a)
  PROVE  InboxInv'
<1>1. PICK text \in Texts : Calls(a, "reply", holds[a].id, holds[a].token, text)
  BY DEF Reply
<1>2. holds[a].id \in Ids /\ holds[a].token \in Tokens
  BY DEF Reply, InboxInv, HoldsOK, Holds
<1>3. CallsOK'
  BY <1>1, <1>2, Sent, WellFormed DEF InboxInv, Calls, Clients
<1> QED
  BY <1>3, Untouched DEF Reply, InboxInv

LEMMA AbandonKeeps ==
  ASSUME InboxInv, NEW a \in Agents, Abandon(a)
  PROVE  InboxInv'
<1>1. holds' = [holds EXCEPT ![a] = NoHold]
  BY DEF Abandon
<1>2. HoldsOK'
  BY <1>1 DEF InboxInv, HoldsOK
<1>3. WorkIsHeld'
  BY <1>1 DEF InboxInv, HoldsOK, WorkIsHeld, isHeld, Abandon
<1> QED
  BY <1>2, <1>3, Untouched DEF Abandon, InboxInv

LEMMA DiscoverKeeps ==
  ASSUME InboxInv, Discover
  PROVE  InboxInv'
BY Untouched DEF Discover, InboxInv

\* A new message takes a number above those of all holds.
LEMMA CreateKeeps ==
  ASSUME InboxInv, NEW q \in requests("create"), Create(q)
  PROVE  InboxInv'
<1> DEFINE m == created(nextSequence, q.key)
<1>1. q \in Requests /\ q.id \in Ids /\ q.key \in Prompts
  BY DEF InboxInv, CallsOK, requests, Requests
<1>2. m \in Messages /\ m.sequence = nextSequence
  BY <1>1 DEF created, Messages, NoMessage, InboxInv, ChannelOK
<1>3. CallsOK'
  BY Executed DEF Create, InboxInv
<1>4. DraftOK'
  BY DEF Create, InboxInv, DraftOK
<1>5. HoldsOK'
  BY Untouched DEF Create
<1>6. CASE UNCHANGED <<messages, nextSequence>>
  BY <1>3, <1>4, <1>5, <1>6, Untouched DEF Create, InboxInv
<1>7. CASE /\ messages[q.id] = NoMessage
           /\ messages' \in Retained([messages EXCEPT ![q.id] = m], q.id)
           /\ nextSequence' = nextSequence + 1
  <2> HIDE DEF m
  <2>1. /\ messages' \in [Ids -> Messages \cup {NoMessage}]
        /\ messages'[q.id] = m
        /\ \A j \in Ids \ {q.id} :
             \/ messages'[j] = messages[j]
             \/ messages'[j] = NoMessage /\ messages[j] # NoMessage /\ isAnswered(messages[j])
    BY <1>1, <1>2, <1>7, Stores DEF InboxInv
  <2>2. nextSequence \in Nat \ {0}
    BY DEF InboxInv, ChannelOK
  <2>3. ChannelOK'
    BY <1>7, <2>1, <2>2 DEF ChannelOK
  <2>4. NumbersOK'
    <3>1. \A j \in Ids \ {q.id} : messages'[j] # NoMessage =>
            messages'[j] = messages[j] /\ messages[j].sequence < nextSequence
      BY <2>1 DEF InboxInv, NumbersOK
    <3>2. \A j \in Ids : messages'[j] # NoMessage => messages'[j].sequence \in Nat
      BY <2>1 DEF Messages
    <3>3. messages'[q.id].sequence = nextSequence
      BY <1>2, <2>1
    <3>4. \A i, j \in Ids : messages'[i] # NoMessage /\ messages'[j] # NoMessage =>
            messages'[i].sequence < nextSequence'
      BY <1>7, <2>2, <3>1, <3>2, <3>3
    <3>5. \A i, j \in Ids \ {q.id} : messages'[i] # NoMessage /\ messages'[j] # NoMessage =>
            (messages'[i].sequence = messages'[j].sequence => i = j)
      BY <3>1 DEF InboxInv, NumbersOK
    <3>6. \A j \in Ids \ {q.id} : messages'[j] # NoMessage =>
            messages'[j].sequence # messages'[q.id].sequence
      BY <2>2, <3>1, <3>2, <3>3
    <3> QED
      BY <3>4, <3>5, <3>6 DEF NumbersOK
  <2>5. ASSUME NEW a \in Agents, holds[a] # NoHold, holds[a].until > Drift
        PROVE  isHeld(holds[a])'
    <3>1. holds[a] \in Holds /\ isHeld(holds[a])
      BY <2>5 DEF InboxInv, HoldsOK, WorkIsHeld
    <3> DEFINE h == holds[a]
    <3>2. h.id \in Ids /\ h.sequence \in Nat \ {0} /\ h.sequence < nextSequence
      BY <3>1 DEF Holds, isHeld
    <3>3. CASE h.id = q.id
      <4>1. messages'[h.id].sequence # h.sequence
        BY <1>2, <2>1, <2>2, <3>2, <3>3
      <4> QED
        BY <1>7, <2>2, <3>2, <4>1 DEF isHeld, Create
    <3>4. CASE h.id # q.id
      <4>1. isLeftToIt(messages[h.id], messages'[h.id])
        BY <2>1, <3>2, <3>4, SameIsLeft
      <4>2. nextSequence <= nextSequence' /\ nextSequence' \in Nat
        BY <1>7, <2>2
      <4>3. holds' = holds
        BY DEF Create
      <4> HIDE DEF h
      <4>4. isHeld(h)'
        BY <2>2, <3>1, <4>1, <4>2, <4>3, HoldStays DEF h
      <4> QED
        BY <4>4 DEF h
    <3> QED
      BY <3>3, <3>4
  <2>6. WorkIsHeld'
    BY <2>5 DEF WorkIsHeld, Create
  <2> QED
    BY <1>3, <1>4, <1>5, <2>3, <2>4, <2>6 DEF InboxInv
<1> QED
  BY <1>6, <1>7 DEF Create

LEMMA Granting ==
  ASSUME InboxInv, NEW q \in requests("claim"), NEW x \in Messages, x.claim # NoClaim,
         NEW now \in Clocks, Granted(q, x, now)
  PROVE  /\ HoldsOK'
         /\ \A a \in Agents :
              \/ holds'[a] = holds[a]
              \/ /\ holds'[a].id = q.id
                 /\ holds'[a].sequence = x.sequence
                 /\ holds'[a].token = x.claim.token
                 /\ \/ holds'[a].until = x.claim.until /\ ~isAnswered(x)
                    \/ holds'[a].until = -Drift
<1> DEFINE until == IF x.claim.until > now /\ ~isAnswered(x) THEN x.claim.until ELSE -Drift
           h == [id |-> q.id, sequence |-> x.sequence, token |-> x.claim.token, until |-> until]
<1>1. q.id \in Ids
  BY DEF InboxInv, CallsOK, requests, Requests
<1>2. x.claim \in Claims /\ x.sequence \in Nat \ {0}
  BY DEF Messages
<1>3. until \in Untils
  BY <1>2, StoreAssumption DEF Claims, Untils
<1>4. h \in Holds
  <2> HIDE DEF until
  <2> QED
    BY <1>1, <1>2, <1>3 DEF Holds, Claims
<1>5. holds' = [a \in Agents |-> IF calls[a].request = q THEN h ELSE holds[a]]
  BY DEF Granted
<1> HIDE DEF h
<1>6. HoldsOK'
  BY <1>4, <1>5 DEF InboxInv, HoldsOK
<1>7. \A a \in Agents : holds'[a] = holds[a] \/ holds'[a] = h
  BY <1>5
<1> QED
  BY <1>6, <1>7 DEF h

\* A claim replaces another one only past its end, when its holder's hold is
\* not sure to last.
LEMMA ClaimKeeps ==
  ASSUME InboxInv, NEW q \in requests("claim"), Claim(q)
  PROVE  InboxInv'
<1> DEFINE m == messages[q.id]
<1>1. q \in Requests /\ q.id \in Ids /\ q.key \in ClaimIds
  BY DEF InboxInv, CallsOK, requests, Requests
<1>2. CallsOK' /\ DraftOK' /\ nextSequence' = nextSequence
  BY Executed, Untouched DEF Claim, InboxInv
<1>3. CASE UNCHANGED <<messages, holds>>
  BY <1>2, <1>3, Untouched DEF InboxInv
<1>4. ASSUME NEW now \in Clocks, isClaimReplay(m, q.key), Granted(q, m, now), UNCHANGED messages
      PROVE  InboxInv'
  <2>1. m \in Messages /\ m.claim # NoClaim
    BY <1>1, <1>4 DEF InboxInv, ChannelOK, isClaimReplay, NoMessage
  <2>2. /\ HoldsOK'
        /\ \A a \in Agents :
             \/ holds'[a] = holds[a]
             \/ /\ holds'[a].id = q.id
                /\ holds'[a].sequence = m.sequence
                /\ holds'[a].token = m.claim.token
                /\ \/ holds'[a].until = m.claim.until /\ ~isAnswered(m)
                   \/ holds'[a].until = -Drift
    BY <1>4, <2>1, Granting
  <2>3. m.sequence < nextSequence
    BY <1>1, <2>1, MessagesAreStored DEF InboxInv, NumbersOK
  <2>4. ASSUME NEW a \in Agents, holds'[a] # NoHold, holds'[a].until > Drift
        PROVE  isHeld(holds[a])'
    <3>1. CASE holds'[a] = holds[a]
      BY <1>2, <1>4, <2>4, <3>1 DEF InboxInv, WorkIsHeld, isHeld
    <3>2. CASE holds'[a] # holds[a]
      <4>1. -Drift <= Drift /\ Drift \in Int
        BY StoreAssumption
      <4>2. /\ holds'[a].id = q.id
            /\ holds'[a].sequence = m.sequence
            /\ holds'[a].token = m.claim.token
            /\ holds'[a].until = m.claim.until /\ ~isAnswered(m)
        BY <2>2, <2>4, <3>2, <4>1
      <4> QED
        BY <1>2, <1>4, <2>3, <4>2 DEF isHeld
    <3> QED
      BY <3>1, <3>2
  <2>5. WorkIsHeld'
    BY <2>4 DEF WorkIsHeld
  <2> QED
    BY <1>2, <1>4, <2>2, <2>5, Untouched DEF InboxInv
<1>5. ASSUME NEW now \in Clocks, NEW token \in OneOf(Tokens \ knownTokens(q.id)),
             canClaim(m, now),
             messages' \in Retained([messages EXCEPT ![q.id] = claimed(m, q.key, token, now)], q.id),
             Granted(q, claimed(m, q.key, token, now), now)
      PROVE  InboxInv'
  <2> DEFINE n == claimed(m, q.key, token, now)
  <2>1. m \in Messages /\ m.claim.until <= now /\ ~isAnswered(m)
    BY <1>1, <1>5 DEF InboxInv, ChannelOK, canClaim
  <2>2. token \in Tokens
    BY <1>5, OneOfThem
  <2>3. /\ n \in Messages /\ n.claim # NoClaim
        /\ n.sequence = m.sequence /\ n.reply = m.reply
    BY <1>1, <2>1, <2>2, ClaimedMessage
  <2> HIDE DEF n
  <2>4. /\ messages' \in [Ids -> Messages \cup {NoMessage}]
        /\ messages'[q.id] = n
        /\ \A j \in Ids \ {q.id} :
             \/ messages'[j] = messages[j]
             \/ messages'[j] = NoMessage /\ messages[j] # NoMessage /\ isAnswered(messages[j])
    <3>1. messages' \in Retained([messages EXCEPT ![q.id] = n], q.id)
      BY <1>5 DEF n
    <3> QED
      BY <1>1, <2>3, <3>1, Stores DEF InboxInv
  <2>5. /\ HoldsOK'
        /\ \A a \in Agents :
             \/ holds'[a] = holds[a]
             \/ /\ holds'[a].id = q.id
                /\ holds'[a].sequence = n.sequence
                /\ holds'[a].token = n.claim.token
                /\ \/ holds'[a].until = n.claim.until /\ ~isAnswered(n)
                   \/ holds'[a].until = -Drift
    <3>1. Granted(q, n, now)
      BY <1>5 DEF n
    <3> QED
      BY <2>3, <3>1, Granting
  <2>6. ChannelOK'
    BY <1>2, <2>4 DEF InboxInv, ChannelOK
  <2>7. m # NoMessage
    BY <2>1, MessagesAreStored
  <2>8. NumbersOK'
    <3>1. \A j \in Ids : messages'[j] # NoMessage =>
            messages[j] # NoMessage /\ messages'[j].sequence = messages[j].sequence
      BY <1>1, <2>3, <2>4, <2>7
    <3> QED
      BY <1>2, <3>1, NumbersStay DEF InboxInv
  <2>9. ASSUME NEW a \in Agents, holds'[a] # NoHold, holds'[a].until > Drift
        PROVE  isHeld(holds[a])'
    <3>0. Drift \in Nat /\ now \in Int /\ now <= Drift
      BY StoreAssumption DEF Clocks
    <3>1. CASE holds'[a] = holds[a]
      <4> DEFINE h == holds[a]
      <4>1. h \in Holds /\ isHeld(h)
        BY <2>9, <3>1 DEF InboxInv, HoldsOK, WorkIsHeld
      <4>2. h.id \in Ids /\ h.sequence < nextSequence /\ h.until > Drift /\ h.until \in Int
        BY <2>9, <3>1, <4>1, StoreAssumption DEF Holds, isHeld, Untils
      <4>3. CASE h.id = q.id
        <5>1. h.sequence # m.sequence
          <6>1. SUFFICES ASSUME h.sequence = m.sequence PROVE FALSE
            OBVIOUS
          <6>2. m.claim.until = h.until
            BY <4>1, <4>3, <6>1 DEF isHeld
          <6> QED
            BY <2>1, <3>0, <4>2, <6>2
        <5> QED
          BY <1>2, <2>3, <2>4, <3>1, <4>2, <4>3, <5>1 DEF isHeld
      <4>4. CASE h.id # q.id
        <5>1. isLeftToIt(messages[h.id], messages'[h.id])
          BY <2>4, <4>2, <4>4, SameIsLeft
        <5>2. nextSequence \in Nat
          BY DEF InboxInv, ChannelOK
        <5> HIDE DEF h
        <5>3. isHeld(h)'
          BY <1>2, <3>1, <4>1, <5>1, <5>2, HoldStays DEF h
        <5> QED
          BY <5>3 DEF h
      <4> QED
        BY <4>3, <4>4
    <3>2. CASE holds'[a] # holds[a]
      <4>1. /\ holds'[a].id = q.id
            /\ holds'[a].sequence = n.sequence
            /\ holds'[a].token = n.claim.token
            /\ holds'[a].until = n.claim.until /\ ~isAnswered(n)
        BY <2>5, <2>9, <3>0, <3>2
      <4>2. n.sequence < nextSequence
        BY <1>1, <2>3, <2>7 DEF InboxInv, NumbersOK
      <4> QED
        BY <1>2, <2>4, <4>1, <4>2 DEF isHeld
    <3> QED
      BY <3>1, <3>2
  <2>10. WorkIsHeld'
    BY <2>9 DEF WorkIsHeld
  <2> QED
    BY <1>2, <2>5, <2>6, <2>8, <2>10 DEF InboxInv
<1> QED
  BY <1>3, <1>4, <1>5 DEF Claim

\* Only the claim a reply names lets it in, and that is the holder's.
LEMMA RepliedKeeps ==
  ASSUME InboxInv, NEW q \in requests("reply"), Replied(q)
  PROVE  InboxInv'
<1> DEFINE m == messages[q.id]
           reply == [token |-> q.key, text |-> q.text]
           n == replied(m, reply)
<1>1. q \in Requests /\ q.id \in Ids /\ q.key \in Tokens /\ q.text \in Texts
  BY DEF InboxInv, CallsOK, requests, Requests
<1>2. CallsOK' /\ DraftOK' /\ nextSequence' = nextSequence
  BY Executed, Untouched DEF Replied, InboxInv
<1>3. \A a \in Agents : holds'[a] \in {holds[a], NoHold}
  BY DEF Replied, Released
<1>4. HoldsOK'
  BY DEF InboxInv, HoldsOK, Replied, Released
<1>5. CASE UNCHANGED messages
  <2>1. WorkIsHeld'
    BY <1>2, <1>3, <1>5 DEF InboxInv, WorkIsHeld, isHeld
  <2> QED
    BY <1>2, <1>4, <1>5, <2>1, Untouched DEF InboxInv
<1>6. ASSUME NEW now \in Clocks, canReply(m, q.key, now),
             messages' \in Retained([messages EXCEPT ![q.id] = n], q.id)
      PROVE  InboxInv'
  <2>1. m.claim # NoClaim /\ m.claim.token = q.key /\ ~isAnswered(m)
    BY <1>6 DEF canReply
  <2>2. m \in Messages
    BY <1>1, <2>1 DEF InboxInv, ChannelOK, NoMessage
  <2>3. /\ n \in Messages /\ n.sequence = m.sequence /\ n.claim = m.claim
        /\ n.reply.token = m.claim.token
    BY <1>1, <2>1, <2>2, RepliedMessage
  <2> HIDE DEF n
  <2>4. /\ messages' \in [Ids -> Messages \cup {NoMessage}]
        /\ messages'[q.id] = n
        /\ \A j \in Ids \ {q.id} :
             \/ messages'[j] = messages[j]
             \/ messages'[j] = NoMessage /\ messages[j] # NoMessage /\ isAnswered(messages[j])
    BY <1>1, <1>6, <2>3, Stores DEF InboxInv
  <2>5. ChannelOK'
    BY <1>2, <2>4 DEF InboxInv, ChannelOK
  <2>6. m # NoMessage
    BY <2>2, MessagesAreStored
  <2>7. NumbersOK'
    <3>1. \A j \in Ids : messages'[j] # NoMessage =>
            messages[j] # NoMessage /\ messages'[j].sequence = messages[j].sequence
      BY <1>1, <2>3, <2>4, <2>6
    <3> QED
      BY <1>2, <3>1, NumbersStay DEF InboxInv
  <2>8. ASSUME NEW a \in Agents, holds'[a] # NoHold, holds'[a].until > Drift
        PROVE  isHeld(holds[a])'
    <3> DEFINE h == holds[a]
    <3>1. holds'[a] = h
      BY <1>3, <2>8
    <3>2. h \in Holds /\ isHeld(h)
      BY <2>8, <3>1 DEF InboxInv, HoldsOK, WorkIsHeld
    <3>3. h.id \in Ids
      BY <3>2 DEF Holds
    <3>4. isLeftToIt(messages[h.id], messages'[h.id])
      <4>1. CASE h.id = q.id
        BY <2>3, <2>4, <4>1 DEF isLeftToIt
      <4>2. CASE h.id # q.id
        BY <2>4, <3>3, <4>2, SameIsLeft
      <4> QED
        BY <4>1, <4>2
    <3>5. nextSequence \in Nat
      BY DEF InboxInv, ChannelOK
    <3> HIDE DEF h
    <3>6. isHeld(h)'
      BY <1>2, <3>1, <3>2, <3>4, <3>5, HoldStays DEF h
    <3> QED
      BY <3>6 DEF h
  <2>9. WorkIsHeld'
    BY <2>8 DEF WorkIsHeld
  <2> QED
    BY <1>2, <1>4, <2>5, <2>7, <2>9 DEF InboxInv
<1> QED
  BY <1>5, <1>6 DEF Replied

-----------------------------------------------------------------------------
(* Time.                                                                   *)

LEMMA LaterMessage ==
  ASSUME NEW m \in Messages \cup {NoMessage}
  PROVE  LET n == [m EXCEPT !.claim.until = later(@)]
         IN  /\ m = NoMessage => n = NoMessage
             /\ m \in Messages => n \in Messages
             /\ n.sequence = m.sequence /\ n.reply = m.reply
             /\ n.claim.token = m.claim.token /\ n.claim.until = later(m.claim.until)
<1> DEFINE k == [m.claim EXCEPT !.until = later(@)]
           n == [m EXCEPT !.claim.until = later(@)]
<1>1. n = [m EXCEPT !.claim = k]
  BY DEF Messages, NoMessage
<1>2. later(-Drift) = -Drift
  BY StoreAssumption DEF later
<1>3. \A u \in Untils : later(u) \in Untils
  BY StoreAssumption DEF later, Untils
<1>4. m = NoMessage => m.claim = NoClaim
  BY DEF NoMessage
<1>5. m \in Messages => m.claim \in Claims \cup {NoClaim}
  BY DEF Messages
<1>6. m.claim = NoClaim => k = NoClaim
  BY <1>2 DEF NoClaim
<1>7. m.claim \in Claims => k \in Claims
  BY <1>3 DEF Claims
<1>8. k.token = m.claim.token /\ k.until = later(m.claim.until)
  BY <1>4, <1>5 DEF Claims, NoClaim
<1> HIDE DEF k, n
<1>9. m = NoMessage => n = NoMessage
  BY <1>1, <1>4, <1>6 DEF NoMessage
<1>10. m \in Messages => n \in Messages
  BY <1>1, <1>5, <1>6, <1>7 DEF Messages
<1>11. n.sequence = m.sequence /\ n.reply = m.reply /\ n.claim = k
  BY <1>1 DEF Messages, NoMessage
<1> QED
  BY <1>8, <1>9, <1>10, <1>11 DEF n

LEMMA TickKeeps ==
  ASSUME InboxInv, Tick
  PROVE  InboxInv'
<1>1. /\ messages' = [i \in Ids |-> [messages[i] EXCEPT !.claim.until = later(@)]]
      /\ holds' = [a \in Agents |-> [holds[a] EXCEPT !.until = later(@)]]
      /\ UNCHANGED <<nextSequence, wire, calls, draft>>
  BY DEF Tick
<1>2. \A i \in Ids :
       /\ messages[i] \in Messages \cup {NoMessage}
       /\ messages[i] = NoMessage => messages'[i] = NoMessage
       /\ messages[i] \in Messages => messages'[i] \in Messages
       /\ messages'[i].sequence = messages[i].sequence
       /\ messages'[i].reply = messages[i].reply
       /\ messages'[i].claim.token = messages[i].claim.token
       /\ messages'[i].claim.until = later(messages[i].claim.until)
  BY <1>1, LaterMessage DEF InboxInv, ChannelOK
<1>3. ChannelOK'
  <2>1. messages' = [i \in Ids |-> messages'[i]]
    BY <1>1
  <2> QED
    BY <1>1, <1>2, <2>1 DEF InboxInv, ChannelOK
<1>4. NumbersOK'
  BY <1>1, <1>2, NumbersStay DEF InboxInv
<1>5. \A u \in Untils : later(u) \in Untils /\ (later(u) > Drift => u > Drift)
  BY StoreAssumption DEF later, Untils
<1>6. \A a \in Agents :
       /\ holds[a] \in Holds => holds'[a] \in Holds
       /\ holds[a] = NoHold => holds'[a] = NoHold
       /\ holds'[a].id = holds[a].id /\ holds'[a].sequence = holds[a].sequence
       /\ holds'[a].token = holds[a].token /\ holds'[a].until = later(holds[a].until)
  <2> TAKE a \in Agents
  <2>1. holds'[a] = [holds[a] EXCEPT !.until = later(@)]
    BY <1>1
  <2>2. holds[a] \in Holds \cup {NoHold}
    BY DEF InboxInv, HoldsOK
  <2>3. later(-Drift) = -Drift
    BY StoreAssumption DEF later
  <2>4. holds[a] \in Holds => holds'[a] \in Holds
    BY <1>5, <2>1 DEF Holds
  <2>5. holds[a] = NoHold => holds'[a] = NoHold
    BY <2>1, <2>3 DEF NoHold
  <2> QED
    BY <2>1, <2>2, <2>4, <2>5 DEF Holds, NoHold
<1>7. HoldsOK'
  <2>1. holds' = [a \in Agents |-> holds'[a]]
    BY <1>1
  <2> QED
    BY <1>6, <2>1 DEF InboxInv, HoldsOK
<1>8. ASSUME NEW a \in Agents, holds'[a] # NoHold, holds'[a].until > Drift
      PROVE  isHeld(holds[a])'
  <2>1. holds[a] # NoHold
    BY <1>6, <1>8
  <2>2. holds[a] \in Holds /\ holds[a].id \in Ids /\ holds[a].until \in Untils
    BY <2>1 DEF InboxInv, HoldsOK, Holds
  <2>3. holds[a].until > Drift
    BY <1>5, <1>6, <1>8, <2>2
  <2>4. isHeld(holds[a])
    BY <2>1, <2>3 DEF InboxInv, WorkIsHeld
  <2> QED
    BY <1>1, <1>2, <1>6, <2>2, <2>4 DEF isHeld, isAnswered
<1>9. WorkIsHeld'
  BY <1>8 DEF WorkIsHeld
<1> QED
  BY <1>1, <1>3, <1>4, <1>7, <1>9, Untouched DEF InboxInv

LEMMA ExpireKeeps ==
  ASSUME InboxInv, Expire
  PROVE  InboxInv'
<1>1. ChannelOK' /\ NumbersOK'
  BY DEF Expire, ChannelOK, NumbersOK, EmptyChannel
<1>2. CallsOK'
  BY DEF InboxInv, Expire, CallsOK
<1>3. \A a \in Agents : holds[a].until = -Drift
  BY DEF Expire, leases
<1>4. ~(-Drift > Drift)
  BY StoreAssumption
<1>5. WorkIsHeld'
  BY <1>3, <1>4 DEF WorkIsHeld, Expire
<1> QED
  BY <1>1, <1>2, <1>5, Untouched DEF Expire, InboxInv

-----------------------------------------------------------------------------
(* The invariant.                                                          *)

LEMMA NextInv ==
  ASSUME InboxInv, [Next]_vars
  PROVE  InboxInv'
<1>1. CASE UNCHANGED vars
  BY <1>1, Untouched DEF vars, InboxInv
<1>2. CASE Send
  BY <1>2, SendKeeps
<1>3. CASE \E q \in requests("create") : Create(q)
  BY <1>3, CreateKeeps
<1>4. CASE \E q \in requests("claim") : Claim(q)
  BY <1>4, ClaimKeeps
<1>5. CASE \E q \in requests("reply") : Replied(q)
  BY <1>5, RepliedKeeps
<1>6. CASE \E c \in Clients : ConnectionLost(c)
  BY <1>6, ConnectionLostKeeps
<1>7. CASE \E a \in Agents : Poll(a) \/ Reply(a) \/ Abandon(a)
  BY <1>7, PollKeeps, ReplyKeeps, AbandonKeeps
<1>8. CASE Discover
  BY <1>8, DiscoverKeeps
<1>9. CASE Tick
  BY <1>9, TickKeeps
<1>10. CASE Expire
  BY <1>10, ExpireKeeps
<1> QED
  BY <1>1, <1>2, <1>3, <1>4, <1>5, <1>6, <1>7, <1>8, <1>9, <1>10 DEF Next

LEMMA InboxInvariant == Spec => []InboxInv
BY InitInv, NextInv, PTL DEF Spec

\* A channel is always one that parseChannel accepts: no two messages under
\* one number, and none above the next.
THEOREM InboxTypes == Spec => []InboxTypeOK
BY InboxInvariant, InvariantParts, PTL

\* While an agent's lease is sure to last by every server's clock, nobody
\* else has its message claimed and nobody else's reply is stored for it.
THEOREM WorkStaysExclusive == Spec => []WorkIsExclusive
BY InboxInvariant, InvariantParts, PTL

-----------------------------------------------------------------------------
(* The cursor.                                                             *)

\* A cursor is a number the channel has given, unless the channel is younger.
CursorOK ==
  /\ cursor \in Nat /\ forgotten \in Nat /\ forgotten <= cursor
  /\ cursor < nextSequence \/ cursor = forgotten
  /\ CursorMissesNothing

LEMMA Greatest ==
  ASSUME NEW n \in Nat, NEW K \in SUBSET (0..n), K # {}
  PROVE  Max(K) \in K /\ \A l \in K : l <= Max(K)
<1> DEFINE S == {n - k : k \in K}
<1>1. \A s \in S : s \in Nat
  OBVIOUS
<1>2. S \subseteq Nat /\ S # {}
  BY <1>1
<1>3. PICK s \in S : \A t \in S : ~(<<t, s>> \in OpToRel(<, Nat))
  <2> HIDE DEF S
  <2> QED
    BY <1>2, NatLessThanWellFounded, WFMin
<1>4. PICK k \in K : s = n - k
  OBVIOUS
<1>5. ASSUME NEW l \in K PROVE k >= l
  <2>1. ~(n - l < n - k)
    <3>1. n - l \in S
      OBVIOUS
    <3> QED
      BY <1>1, <1>3, <1>4, <3>1 DEF OpToRel
  <2>2. k \in Int /\ l \in Int
    OBVIOUS
  <2> QED
    BY <2>1, <2>2
<1>6. Max(K) \in K /\ \A l \in K : Max(K) >= l
  BY <1>5 DEF Max
<1> QED
  BY <1>6

\* A page leaves out only what is numbered above all that it has.
LEMMA PageIsLowest ==
  ASSUME NEW matching \in SUBSET Ids, NEW i \in Page(messages, matching), NEW j \in matching,
         \A k \in Ids : messages[k].sequence \in Nat,
         messages[j].sequence <= messages[i].sequence
  PROVE  j \in Page(messages, matching)
<1> DEFINE below(k) == {l \in matching : messages[l].sequence < messages[k].sequence}
<1>1. below(j) \in SUBSET below(i)
  <2>1. i \in Ids /\ j \in Ids
    BY DEF Page
  <2> QED
    BY <2>1
<1>2. IsFiniteSet(below(i))
  <2>1. IsFiniteSet(Ids) /\ below(i) \in SUBSET Ids
    BY StoreAssumption
  <2> HIDE DEF below
  <2> QED
    BY <2>1, FS_Subset
<1>3. Cardinality(below(i)) < PageLimit
  BY DEF Page
<1> HIDE DEF below
<1>4. IsFiniteSet(below(j)) /\ Cardinality(below(j)) <= Cardinality(below(i))
  BY <1>1, <1>2, FS_Subset
<1>5. Cardinality(below(i)) \in Nat /\ Cardinality(below(j)) \in Nat
  BY <1>2, <1>4, FS_CardinalityType
<1>6. Cardinality(below(j)) < PageLimit
  BY <1>3, <1>4, <1>5, StoreAssumption
<1> QED
  BY <1>6 DEF Page, below

LEMMA NumbersAreNatural ==
  ASSUME InboxInv
  PROVE  \A k \in Ids : messages[k].sequence \in Nat
<1>1. NoMessage.sequence = 0
  BY DEF NoMessage
<1> QED
  BY <1>1 DEF InboxInv, ChannelOK, Messages

LEMMA DiscoverMisses ==
  ASSUME InboxInv, CursorOK, Discover
  PROVE  CursorOK'
<1> DEFINE after == {i \in stored(messages) : messages[i].sequence > cursor}
           page == Page(messages, after)
           numbers == {messages[i].sequence : i \in page}
<1>1. /\ page # {} /\ cursor' = Max(numbers) /\ seen' = seen \cup numbers
      /\ UNCHANGED <<messages, nextSequence, forgotten>>
  BY DEF Discover
<1>2. page \subseteq after /\ after \in SUBSET Ids
  BY DEF Page, stored
<1>3. nextSequence \in Nat
  BY DEF InboxInv, ChannelOK
<1>4. \A i \in after : /\ messages[i].sequence \in Nat
                       /\ messages[i].sequence > cursor
                       /\ messages[i].sequence < nextSequence
  BY <1>2, NumbersAreNatural DEF InboxInv, NumbersOK, stored
<1> HIDE DEF after, page
<1>5. numbers \in SUBSET (0..nextSequence) /\ numbers # {}
  BY <1>1, <1>2, <1>3, <1>4
<1>6. Max(numbers) \in numbers /\ \A l \in numbers : l <= Max(numbers)
  BY <1>3, <1>5, Greatest
<1>7. PICK top \in page : Max(numbers) = messages[top].sequence
  BY <1>6
<1>8. cursor' = messages[top].sequence /\ top \in after /\ cursor' \in Nat
      /\ cursor' > cursor /\ cursor' < nextSequence
  BY <1>1, <1>2, <1>4, <1>7
<1>9. ASSUME NEW i \in stored(messages), messages[i].sequence \in (forgotten + 1)..cursor'
      PROVE  messages[i].sequence \in seen'
  <2>1. messages[i].sequence \in Nat /\ messages[i].sequence <= cursor'
    BY <1>8, <1>9 DEF CursorOK
  <2>2. CASE messages[i].sequence > cursor
    <3>1. i \in after
      BY <2>2 DEF after
    <3>2. i \in page
      BY <1>2, <1>7, <1>8, <2>1, <3>1, NumbersAreNatural, PageIsLowest DEF page
    <3> QED
      BY <1>1, <3>2
  <2>3. CASE ~(messages[i].sequence > cursor)
    <3>1. messages[i].sequence \in (forgotten + 1)..cursor
      BY <1>9, <2>1, <2>3 DEF CursorOK
    <3> QED
      BY <1>1, <3>1 DEF CursorOK, CursorMissesNothing
  <2> QED
    BY <2>2, <2>3
<1>10. CursorMissesNothing'
  BY <1>1, <1>9 DEF CursorMissesNothing, stored
<1> QED
  BY <1>1, <1>3, <1>8, <1>10 DEF CursorOK

\* New messages are numbered above the cursor, and no number changes.
LEMMA OthersMissNothing ==
  ASSUME InboxInv, CursorOK, UNCHANGED <<cursor, seen, forgotten>>,
         nextSequence' \in {nextSequence, nextSequence + 1},
         \A j \in Ids : messages'[j] # NoMessage =>
           \/ messages[j] # NoMessage /\ messages'[j].sequence = messages[j].sequence
           \/ messages'[j].sequence = nextSequence
  PROVE  CursorOK'
<1>1. nextSequence \in Nat
  BY DEF InboxInv, ChannelOK
<1>2. cursor' < nextSequence' \/ cursor' = forgotten'
  BY <1>1 DEF CursorOK
<1>3. ASSUME NEW j \in Ids, messages'[j] # NoMessage,
             messages'[j].sequence \in (forgotten + 1)..cursor
      PROVE  messages'[j].sequence \in seen
  <2>1. messages'[j].sequence # nextSequence
    BY <1>1, <1>3 DEF CursorOK
  <2> QED
    BY <1>3, <2>1 DEF CursorOK, CursorMissesNothing, stored
<1>4. CursorMissesNothing'
  BY <1>3 DEF CursorMissesNothing, stored
<1> QED
  BY <1>2, <1>4 DEF CursorOK

LEMMA CreateMisses ==
  ASSUME InboxInv, CursorOK, NEW q \in requests("create"), Create(q)
  PROVE  CursorOK'
<1> DEFINE m == created(nextSequence, q.key)
<1>1. q.id \in Ids /\ q.key \in Prompts
  BY DEF InboxInv, CallsOK, requests, Requests
<1>2. m \in Messages /\ m.sequence = nextSequence
  BY <1>1 DEF created, Messages, NoMessage, InboxInv, ChannelOK
<1>3. UNCHANGED <<cursor, seen, forgotten>>
  BY DEF Create, listing
<1>4. CASE UNCHANGED <<messages, nextSequence>>
  BY <1>3, <1>4, OthersMissNothing
<1>5. CASE /\ messages' \in Retained([messages EXCEPT ![q.id] = m], q.id)
           /\ nextSequence' = nextSequence + 1
  <2> HIDE DEF m
  <2>1. /\ messages'[q.id] = m
        /\ \A j \in Ids \ {q.id} :
             messages'[j] = messages[j] \/ messages'[j] = NoMessage
    BY <1>1, <1>2, <1>5, Stores DEF InboxInv
  <2> QED
    BY <1>2, <1>3, <1>5, <2>1, OthersMissNothing
<1> QED
  BY <1>4, <1>5 DEF Create

\* What a claim or a reply stores has the numbers that were there.
LEMMA StoredUnderItsNumber ==
  ASSUME InboxInv, CursorOK, NEW i \in Ids, NEW m \in Messages,
         messages[i] # NoMessage, m.sequence = messages[i].sequence,
         messages' \in Retained([messages EXCEPT ![i] = m], i),
         UNCHANGED <<nextSequence, cursor, seen, forgotten>>
  PROVE  CursorOK'
<1>1. /\ messages'[i] = m
      /\ \A j \in Ids \ {i} : messages'[j] = messages[j] \/ messages'[j] = NoMessage
  BY Stores DEF InboxInv
<1> QED
  BY <1>1, OthersMissNothing

LEMMA ClaimMisses ==
  ASSUME InboxInv, CursorOK, NEW q \in requests("claim"), Claim(q)
  PROVE  CursorOK'
<1> DEFINE m == messages[q.id]
<1>1. q.id \in Ids /\ q.key \in ClaimIds
  BY DEF InboxInv, CallsOK, requests, Requests
<1>2. UNCHANGED <<nextSequence, cursor, seen, forgotten>>
  BY DEF Claim, listing
<1>3. CASE messages' = messages
  BY <1>2, <1>3, OthersMissNothing
<1>4. ASSUME NEW now \in Clocks, NEW token \in OneOf(Tokens \ knownTokens(q.id)),
             canClaim(m, now),
             messages' \in Retained([messages EXCEPT ![q.id] = claimed(m, q.key, token, now)], q.id)
      PROVE  CursorOK'
  <2> DEFINE n == claimed(m, q.key, token, now)
  <2>1. m \in Messages /\ m # NoMessage
    BY <1>1, <1>4 DEF InboxInv, ChannelOK, canClaim
  <2>2. token \in Tokens
    BY <1>4, OneOfThem
  <2>3. n \in Messages /\ n.sequence = m.sequence
    BY <1>1, <2>1, <2>2, ClaimedMessage
  <2>4. messages' \in Retained([messages EXCEPT ![q.id] = n], q.id)
    BY <1>4
  <2> HIDE DEF n
  <2> QED
    BY <1>1, <1>2, <2>1, <2>3, <2>4, StoredUnderItsNumber
<1> QED
  BY <1>3, <1>4 DEF Claim

LEMMA RepliedMisses ==
  ASSUME InboxInv, CursorOK, NEW q \in requests("reply"), Replied(q)
  PROVE  CursorOK'
<1> DEFINE m == messages[q.id]
           r == [token |-> q.key, text |-> q.text]
           n == replied(m, r)
<1>1. q.id \in Ids /\ q.key \in Tokens /\ q.text \in Texts
  BY DEF InboxInv, CallsOK, requests, Requests
<1>2. UNCHANGED <<nextSequence, cursor, seen, forgotten>>
  BY DEF Replied, listing
<1>3. CASE messages' = messages
  BY <1>2, <1>3, OthersMissNothing
<1>4. ASSUME NEW now \in Clocks, canReply(m, q.key, now),
             messages' \in Retained([messages EXCEPT ![q.id] = n], q.id)
      PROVE  CursorOK'
  <2>1. m \in Messages /\ m # NoMessage
    BY <1>1, <1>4 DEF InboxInv, ChannelOK, canReply, NoMessage
  <2>2. n \in Messages /\ n.sequence = m.sequence
    BY <1>1, <2>1, RepliedMessage
  <2> HIDE DEF n
  <2> QED
    BY <1>1, <1>2, <1>4, <2>1, <2>2, StoredUnderItsNumber
<1> QED
  BY <1>3, <1>4 DEF Replied

LEMMA TickMisses ==
  ASSUME InboxInv, CursorOK, Tick
  PROVE  CursorOK'
<1>1. messages' = [i \in Ids |-> [messages[i] EXCEPT !.claim.until = later(@)]]
      /\ UNCHANGED <<nextSequence, cursor, seen, forgotten>>
  BY DEF Tick, listing
<1>2. ASSUME NEW i \in Ids, messages'[i] # NoMessage
      PROVE  messages[i] # NoMessage /\ messages'[i].sequence = messages[i].sequence
  <2> DEFINE m == messages[i]
             n == [m EXCEPT !.claim.until = later(@)]
  <2>1. m \in Messages \cup {NoMessage} /\ messages'[i] = n
    BY <1>1 DEF InboxInv, ChannelOK
  <2> HIDE DEF m
  <2>2. (m = NoMessage => n = NoMessage) /\ n.sequence = m.sequence
    BY <2>1, LaterMessage
  <2> HIDE DEF n
  <2> QED
    BY <1>2, <2>1, <2>2 DEF m
<1> QED
  BY <1>1, <1>2, OthersMissNothing

\* The numbers of a channel begun anew are no matter of the old cursor.
LEMMA ExpireMisses ==
  ASSUME InboxInv, CursorOK, Expire
  PROVE  CursorOK'
<1>1. messages' = EmptyChannel /\ forgotten' = cursor /\ cursor' = cursor
  BY DEF Expire
<1>2. stored(messages)' = {}
  BY <1>1 DEF stored, EmptyChannel
<1> QED
  BY <1>1, <1>2 DEF CursorOK, CursorMissesNothing

LEMMA NextMisses ==
  ASSUME InboxInv, CursorOK, [Next]_vars
  PROVE  CursorOK'
<1>1. CASE UNCHANGED <<messages, nextSequence, cursor, seen, forgotten>>
  BY <1>1 DEF CursorOK, CursorMissesNothing, stored
<1>2. CASE \/ Send \/ \E c \in Clients : ConnectionLost(c)
           \/ \E a \in Agents : Poll(a) \/ Reply(a) \/ Abandon(a)
  BY <1>1, <1>2 DEF Send, ConnectionLost, Poll, Reply, Abandon, listing
<1> QED
  BY <1>1, <1>2, CreateMisses, ClaimMisses, RepliedMisses, DiscoverMisses, TickMisses,
     ExpireMisses DEF Next, vars, listing

\* An agent that follows the messages by the cursor of each page misses none
\* of them, although pages are cut and messages are created and evicted
\* between its lists.
THEOREM CursorMisses == Spec => []CursorMissesNothing
<1>1. Init => CursorOK
  BY DEF Init, CursorOK, CursorMissesNothing, stored, EmptyChannel
<1>2. CursorOK => CursorMissesNothing
  BY DEF CursorOK
<1> QED
  BY <1>1, <1>2, NextMisses, InboxInvariant, PTL DEF Spec

-----------------------------------------------------------------------------
(* The refinement.                                                         *)

Shown(m) == [number |-> m.sequence, reply |-> m.reply]

LEMMA ShownIsStored == \A m : Shown(m) # NoMessage
<1> TAKE m
<1>1. DOMAIN Shown(m) = {"number", "reply"}
  BY DEF Shown
<1>2. "sequence" \in DOMAIN NoMessage
  BY DEF NoMessage
<1> QED
  BY <1>1, <1>2

LEMMA BoxShows ==
  /\ box = [i \in Ids |-> IF messages[i] = NoMessage THEN NoMessage ELSE Shown(messages[i])]
  /\ box' = [i \in Ids |-> IF messages'[i] = NoMessage THEN NoMessage ELSE Shown(messages'[i])]
BY DEF box, Shown

\* What a script stores, seen from the box.
LEMMA StoredInBox ==
  ASSUME InboxInv, NEW i \in Ids, NEW m \in Messages,
         messages' \in Retained([messages EXCEPT ![i] = m], i)
  PROVE  Box!Becomes([box EXCEPT ![i] = Shown(m)])
<1> DEFINE gone == {j \in Ids \ {i} : messages'[j] # messages[j]}
           kept == [box EXCEPT ![i] = Shown(m)]
<1>1. /\ messages'[i] = m
      /\ \A j \in Ids \ {i} :
           \/ messages'[j] = messages[j]
           \/ messages'[j] = NoMessage /\ messages[j] # NoMessage /\ isAnswered(messages[j])
  BY Stores DEF InboxInv
<1>2. \A j \in gone : messages'[j] = NoMessage /\ Box!answered(j)
  <2> TAKE j \in gone
  <2>1. messages'[j] = NoMessage /\ messages[j] # NoMessage /\ isAnswered(messages[j])
    BY <1>1
  <2>2. box[j] = Shown(messages[j])
    BY <2>1, BoxShows
  <2>3. box[j].reply # NoReply
    BY <2>1, <2>2 DEF Shown, isAnswered
  <2> QED
    BY <2>1, <2>2, <2>3, ShownIsStored DEF Box!answered
<1>3. gone \in SUBSET {j \in Ids : Box!answered(j)}
  BY <1>2
<1>4. box' = [j \in Ids |-> IF j \in gone THEN NoMessage ELSE kept[j]]
  <2>1. ASSUME NEW j \in Ids
        PROVE  box'[j] = IF j \in gone THEN NoMessage ELSE kept[j]
    <3>1. box'[j] = IF messages'[j] = NoMessage THEN NoMessage ELSE Shown(messages'[j])
      BY BoxShows
    <3>2. CASE j = i
      <4>1. kept[j] = Shown(m) /\ j \notin gone
        BY <3>2, BoxShows
      <4>2. messages'[j] = m /\ m # NoMessage
        BY <1>1, <3>2, MessagesAreStored
      <4> QED
        BY <3>1, <4>1, <4>2
    <3>3. CASE j # i /\ j \in gone
      BY <1>2, <3>1, <3>3
    <3>4. CASE j # i /\ j \notin gone
      <4>1. messages'[j] = messages[j]
        BY <3>4
      <4>2. kept[j] = box[j]
        BY <3>4, BoxShows
      <4> QED
        BY <3>1, <3>4, <4>1, <4>2, BoxShows
    <3> QED
      BY <3>2, <3>3, <3>4
  <2> HIDE DEF gone, kept
  <2> QED
    BY <2>1, BoxShows
<1> QED
  BY <1>3, <1>4 DEF Box!Becomes

LEMMA CreateAsks ==
  ASSUME InboxInv, NEW q \in requests("create"), Create(q),
         ~UNCHANGED <<messages, nextSequence>>
  PROVE  Box!Ask(q.id)
<1> DEFINE m == created(nextSequence, q.key)
<1>1. q.id \in Ids /\ q.key \in Prompts
  BY DEF InboxInv, CallsOK, requests, Requests
<1>2. m \in Messages /\ Shown(m) = [number |-> nextSequence, reply |-> NoReply]
  BY <1>1 DEF created, Messages, NoMessage, InboxInv, ChannelOK, Shown
<1>3. /\ messages[q.id] = NoMessage
      /\ messages' \in Retained([messages EXCEPT ![q.id] = m], q.id)
      /\ nextSequence' = nextSequence + 1
  BY DEF Create
<1> HIDE DEF m
<1>4. Box!Becomes([box EXCEPT ![q.id] = [number |-> nextSequence, reply |-> NoReply]])
  BY <1>1, <1>2, <1>3, StoredInBox
<1>5. box[q.id] = NoMessage
  BY <1>1, <1>3, BoxShows
<1>6. nextSequence - 1 + 1 = nextSequence /\ nextSequence' - 1 = nextSequence
  BY <1>3 DEF InboxInv, ChannelOK
<1> QED
  BY <1>4, <1>5, <1>6 DEF Box!Ask

LEMMA ClaimForgets ==
  ASSUME InboxInv, NEW q \in requests("claim"), Claim(q), messages' # messages
  PROVE  Box!Forget
<1> DEFINE m == messages[q.id]
<1>1. q.id \in Ids /\ q.key \in ClaimIds
  BY DEF InboxInv, CallsOK, requests, Requests
<1>2. PICK now \in Clocks, token \in OneOf(Tokens \ knownTokens(q.id)) :
        /\ canClaim(m, now)
        /\ messages' \in Retained([messages EXCEPT ![q.id] = claimed(m, q.key, token, now)], q.id)
  BY DEF Claim
<1> DEFINE n == claimed(m, q.key, token, now)
<1>3. m \in Messages /\ m # NoMessage
  BY <1>1, <1>2 DEF InboxInv, ChannelOK, canClaim
<1>4. n \in Messages /\ n.sequence = m.sequence /\ n.reply = m.reply
  BY <1>1, <1>2, <1>3, OneOfThem, ClaimedMessage
<1>5. messages' \in Retained([messages EXCEPT ![q.id] = n], q.id)
  BY <1>2
<1> HIDE DEF n
<1>6. Shown(n) = box[q.id]
  BY <1>1, <1>3, <1>4, BoxShows DEF Shown
<1>7. [box EXCEPT ![q.id] = Shown(n)] = box
  BY <1>1, <1>6, BoxShows
<1>8. Box!Becomes(box)
  BY <1>1, <1>4, <1>5, <1>7, StoredInBox
<1>9. nextSequence' = nextSequence
  BY DEF Claim
<1> QED
  BY <1>8, <1>9 DEF Box!Forget

LEMMA ReplyAnswers ==
  ASSUME InboxInv, NEW q \in requests("reply"), Replied(q), messages' # messages
  PROVE  Box!Answer(q.id)
<1> DEFINE m == messages[q.id]
           r == [token |-> q.key, text |-> q.text]
           n == replied(m, r)
<1>1. q.id \in Ids /\ q.key \in Tokens /\ q.text \in Texts
  BY DEF InboxInv, CallsOK, requests, Requests
<1>2. PICK now \in Clocks :
        canReply(m, q.key, now) /\ messages' \in Retained([messages EXCEPT ![q.id] = n], q.id)
  BY DEF Replied
<1>3. m \in Messages /\ m # NoMessage /\ ~isAnswered(m)
  BY <1>1, <1>2 DEF InboxInv, ChannelOK, canReply, NoMessage
<1>4. n \in Messages /\ n.sequence = m.sequence /\ n.reply = r /\ r \in Replies
  BY <1>1, <1>3, RepliedMessage
<1> HIDE DEF n, r
<1>5. box[q.id] = Shown(m) /\ box[q.id] # NoMessage /\ box[q.id].reply = NoReply
  BY <1>1, <1>3, ShownIsStored, BoxShows DEF Shown, isAnswered
<1>6. Shown(n) = [box[q.id] EXCEPT !.reply = r]
  BY <1>4, <1>5 DEF Shown
<1>7. [box EXCEPT ![q.id] = Shown(n)] = [box EXCEPT ![q.id].reply = r]
  BY <1>6
<1>8. Box!Becomes([box EXCEPT ![q.id].reply = r])
  BY <1>1, <1>2, <1>4, <1>7, StoredInBox
<1>9. nextSequence' = nextSequence
  BY DEF Replied
<1> QED
  BY <1>4, <1>5, <1>8, <1>9 DEF Box!Answer, Box!answered

LEMMA TickIsUnseen ==
  ASSUME InboxInv, Tick
  PROVE  UNCHANGED <<box, nextSequence - 1>>
<1>1. messages' = [i \in Ids |-> [messages[i] EXCEPT !.claim.until = later(@)]]
      /\ nextSequence' = nextSequence
  BY DEF Tick
<1>2. \A i \in Ids :
       /\ messages[i] = NoMessage <=> messages'[i] = NoMessage
       /\ Shown(messages'[i]) = Shown(messages[i])
  <2> TAKE i \in Ids
  <2> DEFINE m == messages[i]
             n == [m EXCEPT !.claim.until = later(@)]
  <2>1. m \in Messages \cup {NoMessage} /\ messages'[i] = n
    BY <1>1 DEF InboxInv, ChannelOK
  <2> HIDE DEF m
  <2>2. /\ m = NoMessage => n = NoMessage
        /\ m \in Messages => n \in Messages
        /\ n.sequence = m.sequence /\ n.reply = m.reply
    BY <2>1, LaterMessage
  <2> HIDE DEF n
  <2>3. m = NoMessage <=> n = NoMessage
    BY <2>1, <2>2, MessagesAreStored
  <2> QED
    BY <2>1, <2>2, <2>3 DEF Shown, m
<1>3. box' = box
  BY <1>2, BoxShows
<1> QED
  BY <1>1, <1>3

LEMMA ExpireExpires ==
  ASSUME InboxInv, Expire
  PROVE  Box!Expire
<1>1. messages' = EmptyChannel /\ nextSequence' - 1 = 0
  BY DEF Expire
<1>2. box' = [i \in Ids |-> NoMessage]
  BY <1>1, BoxShows DEF EmptyChannel
<1> QED
  BY <1>1, <1>2 DEF Box!Expire

\* Whatever claims, retries, late requests and evictions do: an ask stays
\* until it is answered, is answered once, and none but answered asks go.
THEOREM InboxKeepsItsPromise == Spec => AskBoxSpec
<1>1. Init => Box!Init
  BY BoxShows DEF Init, Box!Init, EmptyChannel
<1>2. ASSUME InboxInv, [Next]_vars
      PROVE  [Box!Next]_<<box, nextSequence - 1>>
  <2>1. CASE UNCHANGED <<messages, nextSequence>>
    BY <2>1, BoxShows
  <2>2. ASSUME NEW q \in requests("create"), Create(q)
        PROVE  [Box!Next]_<<box, nextSequence - 1>>
    <3>1. q.id \in Ids
      BY <1>2 DEF InboxInv, CallsOK, requests, Requests
    <3> QED
      BY <1>2, <2>1, <2>2, <3>1, CreateAsks DEF Box!Next
  <2>3. ASSUME NEW q \in requests("claim"), Claim(q)
        PROVE  [Box!Next]_<<box, nextSequence - 1>>
    BY <1>2, <2>1, <2>3, ClaimForgets DEF Box!Next, Claim
  <2>4. ASSUME NEW q \in requests("reply"), Replied(q)
        PROVE  [Box!Next]_<<box, nextSequence - 1>>
    <3>1. q.id \in Ids
      BY <1>2 DEF InboxInv, CallsOK, requests, Requests
    <3> QED
      BY <1>2, <2>1, <2>4, <3>1, ReplyAnswers DEF Box!Next, Replied
  <2>5. CASE Tick
    BY <1>2, <2>5, TickIsUnseen
  <2>6. CASE Expire
    BY <1>2, <2>6, ExpireExpires DEF Box!Next
  <2>7. CASE \/ Send \/ Discover \/ \E c \in Clients : ConnectionLost(c)
             \/ \E a \in Agents : Poll(a) \/ Reply(a) \/ Abandon(a)
    BY <2>1, <2>7 DEF Send, Discover, ConnectionLost, Poll, Reply, Abandon
  <2> QED
    BY <1>2, <2>1, <2>2, <2>3, <2>4, <2>5, <2>6, <2>7 DEF Next, vars
<1> QED
  BY <1>1, <1>2, InboxInvariant, PTL DEF Spec, AskBoxSpec, Box!Spec

===============================================================================
