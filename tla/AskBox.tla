-------------------------------- MODULE AskBox --------------------------------
(***************************************************************************)
(* What a private inbox promises its participant, apart from claims,       *)
(* retries, leases and limits: an ask stays until it has been answered, it *)
(* is answered once, and its number is above that of every ask before it.  *)
(* Answered asks may be forgotten when room is needed; the whole inbox may *)
(* be, after thirty days without use.                                      *)
(***************************************************************************)
EXTENDS Naturals

CONSTANTS Ids, Replies, NoReply, NoAsk

VARIABLES asks, issued

Init ==
  /\ asks = [i \in Ids |-> NoAsk]
  /\ issued = 0

answered(i) == asks[i] # NoAsk /\ asks[i].reply # NoReply

\* Room is made by forgetting asks that were answered before.
Becomes(kept) ==
  \E forgotten \in SUBSET {i \in Ids : answered(i)} :
    asks' = [i \in Ids |-> IF i \in forgotten THEN NoAsk ELSE kept[i]]

Ask(i) ==
  /\ asks[i] = NoAsk
  /\ issued' = issued + 1
  /\ Becomes([asks EXCEPT ![i] = [number |-> issued + 1, reply |-> NoReply]])

Answer(i) ==
  /\ asks[i] # NoAsk /\ ~answered(i)
  /\ \E r \in Replies : Becomes([asks EXCEPT ![i].reply = r])
  /\ UNCHANGED issued

Forget ==
  /\ Becomes(asks)
  /\ UNCHANGED issued

Expire ==
  /\ asks' = [i \in Ids |-> NoAsk]
  /\ issued' = 0

Next == Forget \/ Expire \/ \E i \in Ids : Ask(i) \/ Answer(i)

Spec == Init /\ [][Next]_<<asks, issued>>
===============================================================================
