-------------------------- MODULE RoomStoreProofs ---------------------------
(***************************************************************************)
(* RoomStore implements RoomLedger, for any number of calls, readers, keys *)
(* and members.                                                            *)
(*                                                                         *)
(* The argument: a command takes effect only on the planes it was prepared *)
(* on and without a receipt of its key - the Lua command because it looks, *)
(* EXEC because its connection would have been told. What EXEC needs is    *)
(* that its call has not called WATCH again since it sent it, which holds  *)
(* because such a call is never repeated after a lost reply.               *)
(***************************************************************************)
EXTENDS RoomStore, RoomLedgerProofs

\* The call has not sent the command of its current attempt.
Preparing(c) == pc[c] \in {"watch", "planes", "receipt"}

\* Committed by EXEC and not by the Lua command.
Exec(cmd) == cmd.kind # "activity"

\* The command writes what the mutation makes of the planes it expects.
Prepared(cmd) ==
  \E t \in Times : /\ ~updated(cmd.call, cmd.expected, t).rejected
                   /\ cmd.next = mutated(cmd.call, cmd.expected, t)

ReadsOrdered == \A c \in Calls : InOrder(base[c])

WirePrepared == \A cmd \in wire : Prepared(cmd)

\* A command that records a receipt only writes no plane.
ReceiptsWriteNothing == \A cmd \in wire : cmd.kind = "receipt" => cmd.next = cmd.expected

OnePerAttempt ==
  /\ \A cmd, other \in wire :
       cmd.call = other.call /\ cmd.attempt = other.attempt => cmd = other
  /\ \A cmd \in wire :
       /\ cmd.attempt <= attempt[cmd.call]
       /\ Preparing(cmd.call) => cmd.attempt # attempt[cmd.call]
       /\ pc[cmd.call] = "commit" /\ reply[cmd.call] # "none" =>
            cmd.attempt # attempt[cmd.call]

\* EXEC, and any command of a call without a key, is not followed by another.
NeverRepeated ==
  \A cmd \in wire : Exec(cmd) \/ ~Keyed(cmd.call) =>
    /\ cmd.attempt = attempt[cmd.call]
    /\ sent[cmd.call] = cmd.kind

\* As long as a connection is not told otherwise, the room is as it was read.
WatchHolds ==
  /\ \A c \in Calls : owns[c] /\ pc[c] = "receipt" /\ ~dirty[c] => base[c] = planes
  /\ \A cmd \in wire : Exec(cmd) =>
       /\ owns[cmd.call]
       /\ ~dirty[cmd.call] => planes = cmd.expected /\ ReceiptOf(cmd.call) = NoReceipt

\* Without a key, only the call itself knows what it has done.
Unapplied ==
  \A c \in Calls : ~Keyed(c) =>
    /\ Preparing(c) => applied[c] = 0
    /\ pc[c] = "commit" /\ reply[c] = "conflict" => applied[c] = 0
    /\ \A cmd \in wire : cmd.call = c => applied[c] = 0

RepliesTell ==
  \A c \in Calls :
    /\ reply[c] = "stored" => applied[c] >= 1
    /\ reply[c] = "replayed" => ReceiptOf(c) # NoReceipt

OutcomesTell ==
  \A c \in Calls :
    /\ pc[c] # "done" => outcome[c] = "pending"
    /\ outcome[c] = "ok" => applied[c] >= 1
    /\ outcome[c] = "unchanged" => ~Keyed(c) /\ pc[c] = "done" /\ \A cmd \in wire : cmd.call # c
    /\ outcome[c] \in {"replayed", "key_conflict"} => ReceiptOf(c) # NoReceipt

\* What a reader is about to persist is what the clock makes of the room.
PersistIsDerived ==
  \A r \in Readers : rpc[r] = "persist" /\ ~rdirty[r] =>
    \E t \in Times : 
      /\ rbase[r].awareness = reconcileDerivedState(planes, t).awareness
      /\ rbase[r].coordination = reconcileDerivedState(planes, t).coordination

StoreInv ==
  /\ TypeOK
  /\ LedgerInv
  /\ ReadsOrdered /\ WirePrepared /\ ReceiptsWriteNothing /\ OnePerAttempt /\ NeverRepeated
  /\ WatchHolds /\ Unapplied /\ RepliesTell /\ OutcomesTell /\ PersistIsDerived

-----------------------------------------------------------------------------
LEMMA StoreInitInv == Init => StoreInv
<1>. SUFFICES ASSUME Init PROVE StoreInv
  OBVIOUS
<1>. USE DEF Init
<1>1. LedgerInv
  BY LedgerInitInv
<1>2. TypeOK
  <2>1. planes \in Planes
    BY <1>1 DEF LedgerInv, LedgerTypeOK
  <2>2. head \in Event
    BY <2>1, PlanesParts DEF eventFor, Event
  <2>3. 0 \in Times
    BY LedgerAssumption DEF Times
  <2>4. /\ pc \in [Calls -> Steps]
        /\ owns \in [Calls -> BOOLEAN]
    BY DEF startStep, watchedMode, Steps
  <2>. QED
    BY <1>1, <2>1, <2>2, <2>3, <2>4 DEF TypeOK, LedgerInv, Kinds, Replies, ReadSteps
<1>3. ReadsOrdered
  BY <1>1 DEF ReadsOrdered, LedgerInv, HotPathReady, InOrder
<1>4. WirePrepared /\ ReceiptsWriteNothing /\ OnePerAttempt /\ NeverRepeated
  BY DEF WirePrepared, ReceiptsWriteNothing, OnePerAttempt, NeverRepeated
<1>5. WatchHolds
  BY DEF WatchHolds, startStep
<1>6. Unapplied /\ RepliesTell /\ OutcomesTell
  BY DEF Unapplied, RepliesTell, OutcomesTell, LedgerInit
<1>7. PersistIsDerived
  BY DEF PersistIsDerived
<1>. QED
  BY <1>1, <1>2, <1>3, <1>4, <1>5, <1>6, <1>7 DEF StoreInv

-----------------------------------------------------------------------------
(* Every step of the store is one of the ledger, or none.                  *)

\* Redis writes a command whole when it writes it over the planes it expects.
LEMMA WriteWhole ==
  ASSUME NEW p \in Planes, NEW q \in Planes
  PROVE  writePlanes(p, p, q) = q
BY DEF writePlanes, Planes

LEMMA StoreIsTake ==
  ASSUME StoreInv, NEW cmd \in wire, Store(cmd)
  PROVE  Take(cmd.call)
<1>. DEFINE c == cmd.call
<1>1. cmd \in Command /\ c \in Calls
  BY DEF StoreInv, TypeOK, Command
<1>2. planes = cmd.expected /\ ReceiptOf(c) = NoReceipt
  BY DEF Store, verdict, StoreInv, WatchHolds, Exec
<1>3. applied[c] = 0
  BY <1>1, <1>2 DEF StoreInv, LedgerInv, ReceiptsTell, Unapplied
<1>4. outcome[c] \notin {"ok", "unchanged", "replayed", "key_conflict"}
  BY <1>1, <1>2, <1>3 DEF StoreInv, OutcomesTell
<1>5. planes' = cmd.next
  BY <1>1, <1>2, WriteWhole DEF Store, Command, StoreInv, TypeOK, LedgerTypeOK
<1>6. \E t \in Times : ~updated(c, planes, t).rejected /\ planes' = mutated(c, planes, t)
  BY <1>2, <1>5 DEF StoreInv, WirePrepared, Prepared
<1>7. applied' = [applied EXCEPT ![c] = 1]
  BY <1>1, <1>3 DEF Store, StoreInv, TypeOK, LedgerTypeOK
<1>. QED
  BY <1>2, <1>3, <1>4, <1>6, <1>7 DEF Take, Store, callVars

\* A lost race, or a lost reply to the Lua command under a key.
MayRepeat(c) ==
  \/ pc[c] = "commit" /\ reply[c] = "conflict"
  \/ pc[c] = "recover" /\ Keyed(c) /\ sent[c] = "activity"

\* A call may return o: what o says is true of the ledger.
MayReturn(c, o) ==
  /\ o \in Outcomes \ {"pending"}
  /\ o = "ok" => applied[c] >= 1
  /\ o = "unchanged" => ~Keyed(c) /\ Preparing(c)
  /\ o = "replayed" => ReceiptOf(c) = RequestOf[c]
  /\ o = "key_conflict" => ReceiptOf(c) \notin {NoReceipt, RequestOf[c]}
  /\ o = "rejected" => Preparing(c) /\ ReceiptOf(c) = NoReceipt
  /\ o = "conflict" => MayRepeat(c)

\* What most steps of a call are: it ends.
Ends(c) ==
  /\ pc[c] # "done"
  /\ pc[c] = "commit" => reply[c] # "none"
  /\ \E o \in Outcomes : MayReturn(c, o) /\ Finish(c, o)
  /\ UNCHANGED <<redisVars, readerVars, watchVars, now, owns, base, sent, reply, lost, wire>>

\* One more attempt.
Repeats(c) ==
  /\ MayRepeat(c)
  /\ attempt' = [attempt EXCEPT ![c] = @ + 1]
  /\ pc' = [pc EXCEPT ![c] = startStep(owns[c])]
  /\ UNCHANGED <<redisVars, readerVars, watchVars, now,
                 owns, base, sent, reply, lost, wire, outcome>>

\* The attempts of a call that ends.
Counted(c) ==
  \/ attempt' = attempt
  \/ attempt' = [attempt EXCEPT ![c] = @ + 1] /\ MayRepeat(c)

LEMMA ReplayEnds ==
  ASSUME StoreInv, NEW c \in Calls, ReceiptOf(c) # NoReceipt, pc[c] # "done",
         pc[c] = "commit" => reply[c] # "none", FinishReplayed(c),
         UNCHANGED <<redisVars, readerVars, watchVars, now, owns, attempt, base, sent, reply, lost, wire>>
  PROVE  Ends(c)
<1>. DEFINE o == IF ReceiptOf(c) = RequestOf[c] THEN "replayed" ELSE "key_conflict"
<1>1. o \in Outcomes /\ MayReturn(c, o)
  BY DEF MayReturn, Outcomes
<1>. QED
  BY <1>1 DEF FinishReplayed, Ends

LEMMA RetryEndsOrRepeats ==
  ASSUME NEW c \in Calls, Retry(c), MayRepeat(c),
         UNCHANGED <<redisVars, readerVars, watchVars, now, owns, base, sent, reply, lost, wire>>
  PROVE  (Ends(c) /\ Counted(c)) \/ Repeats(c)
<1>1. "conflict" \in Outcomes /\ MayReturn(c, "conflict")
  BY DEF MayReturn, Outcomes
<1>. QED
  BY <1>1 DEF Retry, Ends, Repeats, Counted, MayRepeat

LEMMA CallSteps ==
  ASSUME StoreInv, NEW c \in Calls, CallStep(c) \/ LoseReply(c) \/ LoseReceipt(c)
  PROVE  \/ WatchPlanes(c) \/ ReadPlanes(c) \/ SwitchToWatched(c) \/ SendCommit(c) \/ LoseReply(c)
         \/ Ends(c) /\ Counted(c)
         \/ Repeats(c)
<1>. USE DEF Counted
<1>1. CASE FindReceipt(c)
  BY <1>1, ReplayEnds DEF FindReceipt
<1>2. CASE Reject(c)
  <2>1. "rejected" \in Outcomes /\ MayReturn(c, "rejected")
    BY <1>2 DEF Reject, MayReturn, Outcomes, Preparing
  <2>. QED
    BY <1>2, <2>1 DEF Reject, Ends
<1>3. CASE ReturnUnchanged(c)
  <2>1. "unchanged" \in Outcomes /\ MayReturn(c, "unchanged")
    BY <1>3 DEF ReturnUnchanged, MayReturn, Outcomes, Preparing
  <2>. QED
    BY <1>3, <2>1 DEF ReturnUnchanged, Ends
<1>4. CASE Return(c)
  <2>1. "ok" \in Outcomes /\ MayReturn(c, "ok")
    BY <1>4 DEF Return, MayReturn, Outcomes, StoreInv, RepliesTell
  <2>. QED
    BY <1>4, <2>1 DEF Return, Ends
<1>5. CASE LoseRace(c)
  BY <1>5, RetryEndsOrRepeats DEF LoseRace, MayRepeat
<1>6. CASE ReturnReplayed(c)
  <2>1. ReceiptOf(c) # NoReceipt
    BY <1>6 DEF ReturnReplayed, StoreInv, RepliesTell
  <2>. QED
    BY <1>6, <2>1, ReplayEnds DEF ReturnReplayed
<1>7. CASE GiveUp(c)
  <2>1. \A o \in {"unverified", "failed"} : o \in Outcomes /\ MayReturn(c, o)
    BY DEF MayReturn, Outcomes
  <2>. QED
    BY <1>7, <2>1 DEF GiveUp, Ends
<1>8. CASE LoseReceipt(c)
  <2>1. "unverified" \in Outcomes /\ MayReturn(c, "unverified")
    BY DEF MayReturn, Outcomes
  <2>. QED
    BY <1>8, <2>1 DEF LoseReceipt, Ends
<1>9. CASE RecoverReceipt(c)
  BY <1>9, ReplayEnds DEF RecoverReceipt
<1>10. CASE RecoverNothing(c)
  <2>. sent[c] \in Kinds
    BY DEF StoreInv, TypeOK
  <2>1. CASE sent[c] = "activity"
    BY <1>10, <2>1, RetryEndsOrRepeats DEF RecoverNothing, MayRepeat
  <2>2. CASE sent[c] \in {"transaction", "receipt"}
    <3>1. \A o \in {"unverified", "failed"} : o \in Outcomes /\ MayReturn(c, o)
      BY DEF MayReturn, Outcomes
    <3>. QED
      BY <1>10, <2>2, <3>1 DEF RecoverNothing, Ends
  <2>. QED
    BY <2>1, <2>2 DEF Kinds
<1>. QED
  BY <1>1, <1>2, <1>3, <1>4, <1>5, <1>6, <1>7, <1>8, <1>9, <1>10 DEF CallStep

LEMMA EndsIsSettle ==
  ASSUME StoreInv, NEW c \in Calls, Ends(c)
  PROVE  Settle(c)
<1>1. PICK o \in Outcomes : MayReturn(c, o) /\ Finish(c, o)
  BY DEF Ends
<1>2. outcome[c] = "pending"
  BY DEF Ends, StoreInv, OutcomesTell
<1>3. applied[c] \in Nat /\ applied[c] <= 1
  BY DEF StoreInv, LedgerInv, LedgerTypeOK, AtMostOnce
<1>4. o = "ok" => applied[c] = 1
  BY <1>1, <1>3 DEF MayReturn
<1>5. o = "unchanged" => applied[c] = 0 /\ ~Keyed(c)
  BY <1>1 DEF MayReturn, StoreInv, Unapplied
<1>6. o = "rejected" => applied[c] = 0
  BY <1>1 DEF MayReturn, StoreInv, Unapplied, LedgerInv, ReceiptsTell
<1>. QED
  BY <1>1, <1>2, <1>4, <1>5, <1>6 DEF MayReturn, Settle, Finish, Ends, redisVars

LEMMA PersistIsElapse ==
  ASSUME StoreInv, NEW r \in Readers, PersistDerived(r)
  PROVE  Elapse
<1>. planes \in Planes /\ InOrder(planes)
  BY DEF StoreInv, LedgerInv, LedgerTypeOK, HotPathReady, InOrder
<1>1. PICK t \in Times : /\ rbase[r].awareness = reconcileDerivedState(planes, t).awareness
                         /\ rbase[r].coordination = reconcileDerivedState(planes, t).coordination
  BY DEF PersistDerived, StoreInv, PersistIsDerived
<1>. t \in Nat
  BY LedgerAssumption DEF Times
<1>2. /\ reconcileDerivedState(planes, t) \in Planes
      /\ reconcileDerivedState(planes, t).document = planes.document
  BY ReconcileType, ReconcileLater
<1>3. planes' = reconcileDerivedState(planes, t)
  BY <1>1, <1>2 DEF PersistDerived, Planes
<1>. QED
  BY <1>3 DEF PersistDerived, Elapse, callVars

LEMMA Simulation ==
  ASSUME StoreInv, [Next]_vars
  PROVE  [LedgerNext]_ledgerVars
<1>1. ASSUME NEW c \in Calls, CallStep(c) \/ LoseReply(c) \/ LoseReceipt(c)
      PROVE  [LedgerNext]_ledgerVars
  <2>1. CASE Ends(c)
    BY <2>1, EndsIsSettle DEF LedgerNext
  <2>2. CASE WatchPlanes(c) \/ ReadPlanes(c) \/ SwitchToWatched(c) \/ SendCommit(c)
               \/ LoseReply(c) \/ Repeats(c)
    BY <2>2 DEF WatchPlanes, ReadPlanes, SwitchToWatched, SendCommit, LoseReply, Repeats,
                redisVars, ledgerVars
  <2>. QED
    BY <1>1, <2>1, <2>2, CallSteps
<1>2. CASE RedisStep
  <2>1. ASSUME NEW cmd \in wire, Store(cmd) PROVE LedgerNext
    BY <2>1, StoreIsTake DEF LedgerNext, StoreInv, TypeOK, Command
  <2>2. ASSUME NEW cmd \in wire, Refuse(cmd) PROVE UNCHANGED ledgerVars
    BY <2>2 DEF Refuse, redisVars, ledgerVars
  <2>. QED
    BY <1>2, <2>1, <2>2 DEF RedisStep
<1>3. CASE \E cmd \in wire : Drop(cmd)
  BY <1>3 DEF Drop, redisVars, ledgerVars
<1>4. CASE \E m \in Members : updatePresence(m)
  <2>1. PICK m \in Members, at \in 0 .. now :
          \E seen \in seenAfter(planes, m, at) : planes' = presenceCommit(planes, m, seen, at)
    BY <1>4 DEF updatePresence
  <2>2. at \in Times
    BY LedgerAssumption DEF StoreInv, TypeOK, Times
  <2>3. UNCHANGED <<receipts, applied, outcome>>
    BY <1>4 DEF updatePresence, callVars
  <2>. QED
    BY <2>1, <2>2, <2>3 DEF LedgerNext, Beat
<1>5. ASSUME NEW r \in Readers, ReadStep(r) PROVE [LedgerNext]_ledgerVars
  <2>1. CASE PersistDerived(r)
    BY <2>1, PersistIsElapse DEF LedgerNext
  <2>2. CASE ~PersistDerived(r)
    BY <1>5, <2>2 DEF ReadStep, ReadRoom, FetchPlanes, WatchLivePlanes, ReadLivePlanes,
       RefetchDocument, LosePersistRace, redisVars, callVars, ledgerVars
  <2>. QED
    BY <2>1, <2>2
<1>6. CASE Tick
  BY <1>6 DEF Tick, redisVars, callVars, ledgerVars
<1>7. CASE UNCHANGED vars
  BY <1>7 DEF vars, redisVars, callVars, ledgerVars
<1>. QED
  BY <1>1, <1>2, <1>3, <1>4, <1>5, <1>6, <1>7 DEF Next

-----------------------------------------------------------------------------
(* Each part of the invariant is kept by every step.                       *)

LEMMA LedgerKept ==
  ASSUME StoreInv, [Next]_vars
  PROVE  /\ LedgerInv' /\ Later(planes, planes')
         /\ \A c \in Calls : /\ applied'[c] >= applied[c]
                             /\ ReceiptOf(c) # NoReceipt => ReceiptOf(c)' # NoReceipt
BY Simulation, LedgerStep, LedgerMonotone DEF StoreInv

\* What a call prepares for its commit.
LEMMA NextType ==
  ASSUME StoreInv, NEW c \in Calls
  PROVE  /\ next(c) \in Planes /\ now \in Nat
         /\ sameContent(base[c], next(c)) => next(c) = base[c]
         /\ kindOf(c) \in Kinds
<1>1. base[c] \in Planes /\ InOrder(base[c]) /\ now \in Nat
  BY LedgerAssumption DEF StoreInv, TypeOK, ReadsOrdered, Times
<1>2. kindOf(c) \in Kinds
  BY DEF kindOf, Kinds
<1>. QED
  BY <1>1, <1>2, MutatedPlanes DEF next

LEMMA CallTypes ==
  ASSUME StoreInv, NEW c \in Calls, CallStep(c) \/ LoseReply(c) \/ LoseReceipt(c), LedgerTypeOK'
  PROVE  TypeOK'
<1>. TypeOK
  BY DEF StoreInv
<1>. startStep(owns[c]) \in Steps
  BY DEF startStep, Steps
<1>1. CASE WatchPlanes(c)
  BY <1>1 DEF WatchPlanes, TypeOK, Steps, redisVars, readerVars
<1>2. CASE ReadPlanes(c)
  BY <1>2 DEF ReadPlanes, TypeOK, LedgerTypeOK, Steps, redisVars, readerVars, watchVars
<1>3. CASE SwitchToWatched(c)
  BY <1>3 DEF SwitchToWatched, TypeOK, Steps, redisVars, readerVars, watchVars
<1>4. CASE SendCommit(c)
  <2>. DEFINE cmd == [call |-> c, attempt |-> attempt[c], kind |-> kindOf(c), expected |-> base[c],
                      next |-> IF kindOf(c) = "receipt" THEN base[c] ELSE next(c)]
  <2>1. cmd \in Command
    BY NextType DEF Command, TypeOK
  <2>2. wire' = wire \cup {cmd}
    BY <1>4 DEF SendCommit
  <2>3. wire' \subseteq Command
    BY <2>1, <2>2 DEF TypeOK
  <2>4. kindOf(c) \in Kinds
    BY NextType
  <2>. QED
    BY <1>4, <2>3, <2>4 DEF SendCommit, TypeOK, Steps, Replies, redisVars, readerVars, watchVars
<1>5. CASE LoseReply(c)
  BY <1>5 DEF LoseReply, TypeOK, Steps, redisVars, readerVars, watchVars
<1>6. CASE Ends(c) /\ Counted(c)
  <2>1. pc' \in [Calls -> Steps] /\ attempt' \in [Calls -> Nat]
    BY <1>6 DEF Ends, Counted, Finish, TypeOK, Steps
  <2>. QED
    BY <1>6, <2>1 DEF Ends, TypeOK, redisVars, readerVars, watchVars
<1>7. CASE Repeats(c)
  BY <1>7 DEF Repeats, TypeOK, redisVars, readerVars, watchVars
<1>. QED
  BY <1>1, <1>2, <1>3, <1>4, <1>5, <1>6, <1>7, CallSteps

LEMMA ReaderTypes ==
  ASSUME StoreInv, NEW r \in Readers, ReadStep(r), LedgerTypeOK'
  PROVE  TypeOK'
<1>. TypeOK /\ now \in Nat
  BY LedgerAssumption DEF StoreInv, TypeOK, Times
<1>. USE DEF TypeOK, LedgerTypeOK
<1>1. besideLive(r) \in Planes
  BY DEF besideLive, Planes
<1>2. CASE ReadRoom(r)
  BY <1>2 DEF ReadRoom, ReadSteps, redisVars, callVars, watchVars
<1>3. CASE FetchPlanes(r)
  BY <1>3 DEF FetchPlanes, ReadSteps, redisVars, callVars, watchVars
<1>4. CASE WatchLivePlanes(r)
  BY <1>4 DEF WatchLivePlanes, ReadSteps, redisVars, callVars
<1>5. CASE ReadLivePlanes(r)
  <2>1. rbase' \in [Readers -> Planes]
    <3>1. reconcileDerivedState(besideLive(r), now) \in Planes
      BY <1>1, ReconcileType
    <3>2. rbase' \in {rbase, [rbase EXCEPT ![r] = reconcileDerivedState(besideLive(r), now)]}
      BY <1>5 DEF ReadLivePlanes
    <3>. QED
      BY <3>1, <3>2
  <2>2. rpc' \in [Readers -> ReadSteps]
    BY <1>5 DEF ReadLivePlanes, ReadSteps
  <2>. QED
    BY <1>5, <2>1, <2>2 DEF ReadLivePlanes, redisVars, callVars, watchVars
<1>6. CASE RefetchDocument(r)
  <2>1. [rbase[r] EXCEPT !.document = planes.document] \in Planes
    BY DEF Planes
  <2>2. rbase' = [rbase EXCEPT ![r] = [rbase[r] EXCEPT !.document = planes.document]]
    BY <1>6 DEF RefetchDocument
  <2>3. rbase' \in [Readers -> Planes]
    BY <2>1, <2>2
  <2>. QED
    BY <1>6, <2>3 DEF RefetchDocument, ReadAgain, ReadSteps, redisVars, callVars, watchVars
<1>7. CASE PersistDerived(r)
  <2>1. rbase[r].coordination \in Coordination
    BY DEF Planes
  <2>2. head' \in Event
    BY <1>7, <2>1 DEF PersistDerived, Event, Coordination
  <2>3. versions' \subseteq Planes
    BY <1>7 DEF PersistDerived
  <2>4. rpc' \in [Readers -> ReadSteps]
    BY <1>7 DEF PersistDerived, ReadSteps
  <2>5. dirty' \in [Calls -> BOOLEAN] /\ rdirty' \in [Readers -> BOOLEAN]
    BY <1>7 DEF PersistDerived, Notify
  <2>. QED
    BY <1>7, <2>2, <2>3, <2>4, <2>5 DEF PersistDerived, callVars
<1>8. CASE LosePersistRace(r)
  BY <1>8 DEF LosePersistRace, ReadAgain, ReadSteps, redisVars, callVars, watchVars
<1>. QED
  BY <1>2, <1>3, <1>4, <1>5, <1>6, <1>7, <1>8 DEF ReadStep

LEMMA RedisTypes ==
  ASSUME StoreInv, NEW cmd \in wire, Store(cmd) \/ Refuse(cmd) \/ Drop(cmd), LedgerTypeOK'
  PROVE  TypeOK'
<1>. TypeOK /\ cmd \in Command /\ cmd.call \in Calls
  BY DEF StoreInv, TypeOK, Command
<1>. USE DEF TypeOK
<1>1. wire' \subseteq Command
  BY DEF Store, Refuse, Drop
<1>2. verdict(cmd) \in Replies
  BY DEF verdict, Replies
<1>3. CASE Store(cmd)
  <2>1. reply' \in [Calls -> Replies]
    BY <1>2, <1>3 DEF Store, Answer
  <2>2. versions' \subseteq Planes
    BY <1>3 DEF Store, LedgerTypeOK
  <2>3. head' \in Event
    <3>1. eventFor(cmd.next) \in Event
      BY PlanesParts DEF Command, eventFor, Event
    <3>. QED
      BY <1>3, <3>1 DEF Store, publishedEvent
  <2>4. dirty' \in [Calls -> BOOLEAN] /\ rdirty' \in [Readers -> BOOLEAN]
    BY <1>3 DEF Store, Notify
  <2>. QED
    BY <1>1, <1>3, <2>1, <2>2, <2>3, <2>4 DEF Store, readerVars
<1>4. CASE Refuse(cmd)
  <2>1. reply' \in [Calls -> Replies]
    BY <1>2, <1>4 DEF Refuse, Answer
  <2>. QED
    BY <1>1, <1>4, <2>1 DEF Refuse, redisVars, readerVars, watchVars
<1>5. CASE Drop(cmd)
  BY <1>1, <1>5 DEF Drop, redisVars, readerVars, watchVars
<1>. QED
  BY <1>3, <1>4, <1>5

LEMMA TypesKept ==
  ASSUME StoreInv, [Next]_vars
  PROVE  TypeOK'
<1>1. LedgerTypeOK'
  BY LedgerKept DEF LedgerInv
<1>2. CASE \E m \in Members : updatePresence(m)
  <2>. PICK m \in Members : updatePresence(m)
    BY <1>2
  <2>1. planes' \in Planes
    BY <1>1 DEF LedgerTypeOK
  <2>2. versions' \subseteq Planes /\ head' \in Event
    BY <2>1, PlanesParts DEF updatePresence, Event, StoreInv, TypeOK
  <2>3. dirty' \in [Calls -> BOOLEAN] /\ rdirty' \in [Readers -> BOOLEAN]
    BY DEF updatePresence, Notify, StoreInv, TypeOK
  <2>. QED
    BY <1>1, <2>2, <2>3 DEF updatePresence, StoreInv, TypeOK, callVars, readerVars
<1>3. CASE Tick
  BY <1>3, LedgerAssumption DEF Tick, StoreInv, TypeOK, LedgerTypeOK, Times,
     redisVars, callVars, readerVars, watchVars
<1>4. CASE UNCHANGED vars
  BY <1>4 DEF StoreInv, TypeOK, LedgerTypeOK, vars, redisVars, callVars, readerVars, watchVars
<1>. QED
  BY <1>1, <1>2, <1>3, <1>4, CallTypes, ReaderTypes, RedisTypes DEF Next, RedisStep

LEMMA ReadsOrderedKept ==
  ASSUME StoreInv, [Next]_vars
  PROVE  ReadsOrdered'
<1>. InOrder(planes)
  BY DEF StoreInv, LedgerInv, HotPathReady, InOrder
<1>1. ASSUME NEW c \in Calls, CallStep(c) \/ LoseReply(c) \/ LoseReceipt(c)
      PROVE  ReadsOrdered'
  <2>1. CASE ReadPlanes(c)
    BY <2>1 DEF ReadPlanes, StoreInv, TypeOK, ReadsOrdered
  <2>2. CASE WatchPlanes(c) \/ SwitchToWatched(c) \/ SendCommit(c) \/ LoseReply(c)
               \/ Ends(c) \/ Repeats(c)
    BY <2>2 DEF WatchPlanes, SwitchToWatched, SendCommit, LoseReply, Ends, Repeats,
       StoreInv, ReadsOrdered
  <2>. QED
    BY <1>1, <2>1, <2>2, CallSteps
<1>2. CASE UNCHANGED base
  BY <1>2 DEF StoreInv, ReadsOrdered
<1>3. CASE RedisStep \/ \E cmd \in wire : Drop(cmd)
  BY <1>2, <1>3 DEF RedisStep, Store, Refuse, Drop
<1>4. CASE (\E m \in Members : updatePresence(m)) \/ Tick \/ UNCHANGED vars
  BY <1>2, <1>4 DEF updatePresence, Tick, vars, callVars
<1>5. CASE \E r \in Readers : ReadStep(r)
  BY <1>2, <1>5 DEF ReadStep, ReadRoom, FetchPlanes, WatchLivePlanes, ReadLivePlanes,
     RefetchDocument, PersistDerived, LosePersistRace, callVars
<1>. QED
  BY <1>1, <1>3, <1>4, <1>5 DEF Next

\* Steps that are neither a call's nor Redis's leave the calls alone.
LEMMA OtherSteps ==
  ASSUME \/ \E m \in Members : updatePresence(m)
         \/ \E r \in Readers : ReadStep(r)
         \/ Tick
         \/ UNCHANGED vars
  PROVE  UNCHANGED callVars
BY DEF updatePresence, Tick, vars, ReadStep, ReadRoom, FetchPlanes, WatchLivePlanes,
   ReadLivePlanes, RefetchDocument, PersistDerived, LosePersistRace

LEMMA WireKept ==
  ASSUME StoreInv, [Next]_vars
  PROVE  WirePrepared' /\ ReceiptsWriteNothing' /\ OnePerAttempt' /\ NeverRepeated'
<1>. USE DEF WirePrepared, ReceiptsWriteNothing, OnePerAttempt, NeverRepeated, Prepared, Exec, Preparing
<1>. /\ wire \subseteq Command /\ attempt \in [Calls -> Nat] /\ pc \in [Calls -> Steps]
     /\ sent \in [Calls -> Kinds] /\ reply \in [Calls -> Replies]
     /\ WirePrepared /\ ReceiptsWriteNothing /\ OnePerAttempt /\ NeverRepeated
  BY DEF StoreInv, TypeOK
<1>. \A cmd \in wire : cmd.call \in Calls /\ cmd.attempt \in Nat
  BY DEF Command
<1>1. CASE UNCHANGED callVars
  BY <1>1 DEF callVars
<1>2. ASSUME NEW c \in Calls, SendCommit(c)
      PROVE  WirePrepared' /\ ReceiptsWriteNothing' /\ OnePerAttempt' /\ NeverRepeated'
  <2>. DEFINE sentNow == [call |-> c, attempt |-> attempt[c], kind |-> kindOf(c),
                          expected |-> base[c],
                          next |-> IF kindOf(c) = "receipt" THEN base[c] ELSE next(c)]
  <2>1. /\ wire' = wire \cup {sentNow}
        /\ sent' = [sent EXCEPT ![c] = kindOf(c)]
        /\ reply' = [reply EXCEPT ![c] = "none"]
        /\ pc[c] = "receipt" /\ pc' = [pc EXCEPT ![c] = "commit"]
        /\ ~result(c).rejected
        /\ attempt' = attempt
    BY <1>2 DEF SendCommit
  <2>2. \A cmd \in wire : cmd.call = c => cmd.attempt # attempt[c] /\ ~Exec(cmd) /\ Keyed(c)
    BY <2>1
  <2>3. Prepared(sentNow)
    <3>1. sentNow.next = next(c)
      <4>1. kindOf(c) = "receipt" => sameContent(base[c], next(c))
        BY DEF kindOf
      <4>. QED
        BY <4>1, NextType
    <3>2. now \in Times
      BY DEF StoreInv, TypeOK
    <3>. QED
      BY <2>1, <3>1, <3>2 DEF result, next
  <2>7. sentNow.kind = "receipt" => sentNow.next = sentNow.expected
    OBVIOUS
  <2>. sentNow.call = c /\ sentNow.attempt = attempt[c] /\ sentNow.kind = kindOf(c)
    OBVIOUS
  <2>. HIDE DEF sentNow
  <2>4. WirePrepared' /\ ReceiptsWriteNothing'
    BY <2>1, <2>3, <2>7
  <2>5. OnePerAttempt'
    BY <2>1, <2>2
  <2>6. NeverRepeated'
    BY <2>1, <2>2 DEF Keyed
  <2>. QED
    BY <2>4, <2>5, <2>6
<1>3. ASSUME NEW c \in Calls, Repeats(c)
      PROVE  WirePrepared' /\ ReceiptsWriteNothing' /\ OnePerAttempt' /\ NeverRepeated'
  <2>1. \A cmd \in wire : cmd.call = c => cmd.attempt < attempt'[c] /\ ~Exec(cmd) /\ Keyed(c)
    BY <1>3 DEF Repeats, MayRepeat
  <2>. QED
    BY <1>3, <2>1 DEF Repeats, startStep, Keyed
<1>4. ASSUME NEW c \in Calls, Ends(c), Counted(c)
      PROVE  WirePrepared' /\ ReceiptsWriteNothing' /\ OnePerAttempt' /\ NeverRepeated'
  <2>1. CASE attempt' = attempt
    BY <1>4, <2>1 DEF Ends, Finish, Keyed
  <2>2. CASE attempt' = [attempt EXCEPT ![c] = @ + 1] /\ MayRepeat(c)
    <3>1. \A cmd \in wire : cmd.call = c => cmd.attempt < attempt'[c] /\ ~Exec(cmd) /\ Keyed(c)
      BY <2>2 DEF MayRepeat
    <3>. QED
      BY <1>4, <2>2, <3>1 DEF Ends, Finish, Keyed
  <2>. QED
    BY <1>4, <2>1, <2>2 DEF Counted
<1>5. ASSUME NEW c \in Calls, WatchPlanes(c) \/ ReadPlanes(c) \/ SwitchToWatched(c) \/ LoseReply(c)
      PROVE  WirePrepared' /\ ReceiptsWriteNothing' /\ OnePerAttempt' /\ NeverRepeated'
  BY <1>5 DEF WatchPlanes, ReadPlanes, SwitchToWatched, LoseReply
<1>6. ASSUME NEW cmd \in wire, Store(cmd) \/ Refuse(cmd) \/ Drop(cmd)
      PROVE  WirePrepared' /\ ReceiptsWriteNothing' /\ OnePerAttempt' /\ NeverRepeated'
  BY <1>6 DEF Store, Refuse, Drop, Answer, awaited, Keyed
<1>. QED
  BY <1>1, <1>2, <1>3, <1>4, <1>5, <1>6, CallSteps, OtherSteps DEF Next, RedisStep

\* A write leaves no connection that watches it untold.
LEMMA WatchersTold ==
  ASSUME StoreInv, WatchHolds, Notify, UNCHANGED <<owns, base>>, wire' \subseteq wire,
         \A c \in Calls : pc'[c] = "receipt" => pc[c] = "receipt"
  PROVE  WatchHolds'
<1>1. ASSUME NEW c \in Calls, owns[c], ~dirty'[c]
      PROVE  ~dirty[c] /\ planes' = planes /\ ReceiptOf(c)' = ReceiptOf(c)
  BY <1>1 DEF Notify, ReceiptOf, Keyed
<1>2. ASSUME NEW c \in Calls, owns'[c], pc'[c] = "receipt", ~dirty'[c]
      PROVE  base'[c] = planes'
  BY <1>1, <1>2 DEF WatchHolds
<1>3. ASSUME NEW cmd \in wire', Exec(cmd)
      PROVE  /\ owns'[cmd.call]
             /\ ~dirty'[cmd.call] => planes' = cmd.expected /\ ReceiptOf(cmd.call)' = NoReceipt
  <2>1. cmd \in wire /\ cmd.call \in Calls
    BY DEF StoreInv, TypeOK, Command
  <2>2. owns[cmd.call]
    BY <1>3, <2>1 DEF WatchHolds
  <2>3. ASSUME ~dirty'[cmd.call]
        PROVE  planes' = cmd.expected /\ ReceiptOf(cmd.call)' = NoReceipt
    BY <1>1, <1>3, <2>1, <2>2, <2>3 DEF WatchHolds
  <2>. QED
    BY <2>2, <2>3
<1>. QED
  BY <1>2, <1>3 DEF WatchHolds, Exec

LEMMA WatchKept ==
  ASSUME StoreInv, [Next]_vars
  PROVE  WatchHolds'
<1>. /\ wire \subseteq Command /\ pc \in [Calls -> Steps] /\ owns \in [Calls -> BOOLEAN]
     /\ base \in [Calls -> Planes] /\ dirty \in [Calls -> BOOLEAN]
     /\ WatchHolds
  BY DEF StoreInv, TypeOK
<1>. \A cmd \in wire : cmd.call \in Calls
  BY DEF Command
<1>1. ASSUME UNCHANGED <<planes, receipts, dirty, owns, base>>, wire' \subseteq wire,
             \A c \in Calls : pc'[c] = "receipt" => pc[c] = "receipt"
      PROVE  WatchHolds'
  BY <1>1 DEF WatchHolds, Exec, ReceiptOf
<1>2. ASSUME NEW c \in Calls, WatchPlanes(c)
      PROVE  WatchHolds'
  <2>1. \A cmd \in wire : cmd.call = c => ~Exec(cmd)
    BY <1>2 DEF WatchPlanes, StoreInv, OnePerAttempt, NeverRepeated, Preparing
  <2>. QED
    BY <1>2, <2>1 DEF WatchPlanes, WatchHolds, Exec, ReceiptOf, redisVars
<1>3. ASSUME NEW c \in Calls, ReadPlanes(c)
      PROVE  WatchHolds'
  BY <1>3 DEF ReadPlanes, WatchHolds, Exec, ReceiptOf, redisVars, watchVars
<1>4. ASSUME NEW c \in Calls, SwitchToWatched(c)
      PROVE  WatchHolds'
  BY <1>4 DEF SwitchToWatched, WatchHolds, Exec, ReceiptOf, redisVars, watchVars
<1>5. ASSUME NEW c \in Calls, SendCommit(c)
      PROVE  WatchHolds'
  <2>. DEFINE sentNow == [call |-> c, attempt |-> attempt[c], kind |-> kindOf(c),
                          expected |-> base[c],
                          next |-> IF kindOf(c) = "receipt" THEN base[c] ELSE next(c)]
  <2>1. /\ wire' = wire \cup {sentNow}
        /\ pc[c] = "receipt" /\ pc' = [pc EXCEPT ![c] = "commit"]
        /\ ReceiptOf(c) = NoReceipt
        /\ kindOf(c) # "activity" => owns[c]
        /\ UNCHANGED <<planes, receipts, dirty, owns, base>>
    BY <1>5 DEF SendCommit, redisVars, watchVars
  <2>. sentNow.call = c /\ sentNow.expected = base[c] /\ sentNow.kind = kindOf(c)
    OBVIOUS
  <2>. HIDE DEF sentNow
  <2>. QED
    BY <2>1 DEF WatchHolds, Exec, ReceiptOf
<1>6. ASSUME NEW c \in Calls, LoseReply(c) \/ Ends(c) \/ Repeats(c)
      PROVE  WatchHolds'
  BY <1>1, <1>6 DEF LoseReply, Ends, Finish, Repeats, startStep, redisVars, watchVars
<1>7. ASSUME NEW cmd \in wire, Store(cmd) \/ Refuse(cmd) \/ Drop(cmd)
      PROVE  WatchHolds'
  <2>1. CASE Store(cmd)
    BY <2>1, WatchersTold DEF Store
  <2>2. CASE Refuse(cmd) \/ Drop(cmd)
    BY <1>1, <2>2 DEF Refuse, Drop, redisVars, watchVars
  <2>. QED
    BY <1>7, <2>1, <2>2
<1>8. ASSUME NEW m \in Members, updatePresence(m)
      PROVE  WatchHolds'
  BY <1>8, WatchersTold DEF updatePresence, callVars
<1>9. ASSUME NEW r \in Readers, ReadStep(r)
      PROVE  WatchHolds'
  <2>1. CASE PersistDerived(r)
    BY <2>1, WatchersTold DEF PersistDerived, callVars
  <2>2. CASE ~PersistDerived(r)
    BY <1>1, <1>9, <2>2 DEF ReadStep, ReadRoom, FetchPlanes, WatchLivePlanes, ReadLivePlanes,
       RefetchDocument, LosePersistRace, redisVars, watchVars, callVars
  <2>. QED
    BY <2>1, <2>2
<1>10. CASE Tick \/ UNCHANGED vars
  BY <1>1, <1>10 DEF Tick, vars, redisVars, watchVars, callVars
<1>. QED
  BY <1>2, <1>3, <1>4, <1>5, <1>6, <1>7, <1>8, <1>9, <1>10, CallSteps DEF Next, RedisStep

LEMMA UnappliedKept ==
  ASSUME StoreInv, [Next]_vars
  PROVE  Unapplied'
<1>. USE DEF Preparing, Keyed
<1>. /\ wire \subseteq Command /\ pc \in [Calls -> Steps] /\ reply \in [Calls -> Replies]
     /\ applied \in [Calls -> Nat] /\ Unapplied
  BY DEF StoreInv, TypeOK, LedgerTypeOK
<1>. \A cmd \in wire : cmd.call \in Calls
  BY DEF Command
<1>1. ASSUME NEW c \in Calls, CallStep(c) \/ LoseReply(c) \/ LoseReceipt(c)
      PROVE  Unapplied'
  <2>1. applied' = applied
    BY <1>1 DEF CallStep, LoseReply, LoseReceipt, WatchPlanes, ReadPlanes, FindReceipt, Reject,
       SwitchToWatched, ReturnUnchanged, SendCommit, Return, LoseRace, ReturnReplayed, GiveUp,
       RecoverReceipt, RecoverNothing, redisVars
  <2>2. CASE SendCommit(c)
    <3>1. \A cmd \in wire' : cmd \in wire \/ cmd.call = c
      BY <2>2 DEF SendCommit
    <3>2. pc[c] = "receipt" /\ pc' = [pc EXCEPT ![c] = "commit"]
          /\ reply' = [reply EXCEPT ![c] = "none"]
      BY <2>2 DEF SendCommit
    <3>. QED
      BY <2>1, <3>1, <3>2 DEF Unapplied
  <2>3. CASE Repeats(c)
    BY <2>1, <2>3 DEF Repeats, MayRepeat, Unapplied
  <2>4. CASE WatchPlanes(c) \/ ReadPlanes(c) \/ SwitchToWatched(c) \/ LoseReply(c) \/ Ends(c)
    BY <2>1, <2>4 DEF WatchPlanes, ReadPlanes, SwitchToWatched, LoseReply, Ends, Finish, Unapplied
  <2>. QED
    BY <1>1, <2>2, <2>3, <2>4, CallSteps
<1>2. ASSUME NEW cmd \in wire, Store(cmd)
      PROVE  Unapplied'
  <2>1. ~Keyed(cmd.call) => /\ pc[cmd.call] \notin {"watch", "planes", "receipt"}
                            /\ \A other \in wire' : other.call # cmd.call
    BY <1>2 DEF Store, StoreInv, OnePerAttempt, NeverRepeated
  <2>2. ~Keyed(cmd.call) /\ pc[cmd.call] = "commit" => reply'[cmd.call] = "stored"
    BY <1>2 DEF Store, Answer, awaited, StoreInv, NeverRepeated
  <2>3. /\ wire' \subseteq wire /\ pc' = pc
        /\ \A c \in Calls : c # cmd.call => applied'[c] = applied[c] /\ reply'[c] = reply[c]
    BY <1>2 DEF Store, Answer
  <2>. QED
    BY <2>1, <2>2, <2>3 DEF Unapplied
<1>3. ASSUME NEW cmd \in wire, Refuse(cmd) \/ Drop(cmd)
      PROVE  Unapplied'
  BY <1>3 DEF Refuse, Drop, Answer, redisVars, Unapplied
<1>4. ASSUME UNCHANGED callVars, applied' = applied
      PROVE  Unapplied'
  BY <1>4 DEF callVars, Unapplied
<1>5. CASE (\E m \in Members : updatePresence(m)) \/ Tick \/ UNCHANGED vars
             \/ \E r \in Readers : ReadStep(r)
  <2>1. applied' = applied
    BY <1>5 DEF updatePresence, Tick, vars, redisVars, ReadStep, ReadRoom, FetchPlanes,
       WatchLivePlanes, ReadLivePlanes, RefetchDocument, PersistDerived, LosePersistRace
  <2>. QED
    BY <1>4, <1>5, <2>1, OtherSteps
<1>. QED
  BY <1>1, <1>2, <1>3, <1>5 DEF Next, RedisStep

LEMMA AnswersKept ==
  ASSUME StoreInv, [Next]_vars
  PROVE  RepliesTell' /\ OutcomesTell'
<1>. USE DEF Preparing
<1>. /\ wire \subseteq Command /\ pc \in [Calls -> Steps] /\ reply \in [Calls -> Replies]
     /\ outcome \in [Calls -> Outcomes] /\ applied \in [Calls -> Nat]
     /\ applied' \in [Calls -> Nat]
     /\ RepliesTell /\ OutcomesTell
  BY LedgerKept DEF StoreInv, TypeOK, LedgerTypeOK, LedgerInv
<1>. \A cmd \in wire : cmd.call \in Calls
  BY DEF Command
<1>1. \A c \in Calls : /\ applied[c] >= 1 => applied'[c] >= 1
                       /\ ReceiptOf(c) # NoReceipt => ReceiptOf(c)' # NoReceipt
  BY LedgerKept
<1>2. ASSUME NEW c \in Calls, SendCommit(c)
      PROVE  RepliesTell' /\ OutcomesTell'
  <2>1. /\ \A cmd \in wire' : cmd \in wire \/ cmd.call = c
        /\ pc[c] = "receipt" /\ pc' = [pc EXCEPT ![c] = "commit"]
        /\ reply' = [reply EXCEPT ![c] = "none"] /\ outcome' = outcome
    BY <1>2 DEF SendCommit
  <2>. QED
    BY <1>1, <2>1 DEF RepliesTell, OutcomesTell, Keyed
<1>3. ASSUME NEW c \in Calls, Ends(c)
      PROVE  RepliesTell' /\ OutcomesTell'
  <2>. PICK o \in Outcomes : MayReturn(c, o) /\ Finish(c, o)
    BY <1>3 DEF Ends
  <2>1. RepliesTell'
    BY <1>1, <1>3 DEF Ends, RepliesTell
  <2>2. o = "unchanged" => ~Keyed(c) /\ \A cmd \in wire : cmd.call # c
    BY DEF MayReturn, StoreInv, OnePerAttempt, NeverRepeated
  <2>3. o \in {"replayed", "key_conflict"} => ReceiptOf(c) # NoReceipt
    BY LedgerAssumption DEF MayReturn
  <2>4. OutcomesTell'
    BY <1>1, <1>3, <2>2, <2>3 DEF Ends, Finish, MayReturn, OutcomesTell, Keyed
  <2>. QED
    BY <2>1, <2>4
<1>4. ASSUME NEW c \in Calls,
             WatchPlanes(c) \/ ReadPlanes(c) \/ SwitchToWatched(c) \/ LoseReply(c) \/ Repeats(c)
      PROVE  RepliesTell' /\ OutcomesTell'
  BY <1>1, <1>4 DEF WatchPlanes, ReadPlanes, SwitchToWatched, LoseReply, Repeats, MayRepeat,
     RepliesTell, OutcomesTell, Keyed
<1>5. ASSUME NEW cmd \in wire, Store(cmd) \/ Refuse(cmd)
      PROVE  RepliesTell' /\ OutcomesTell'
  <2>1. /\ wire' \subseteq wire /\ pc' = pc /\ outcome' = outcome
        /\ reply' = reply \/ reply' = [reply EXCEPT ![cmd.call] = verdict(cmd)]
    BY <1>5 DEF Store, Refuse, Answer
  <2>2. verdict(cmd) = "stored" => applied'[cmd.call] >= 1
    BY <1>5 DEF Store, Refuse
  <2>3. verdict(cmd) = "replayed" => ReceiptOf(cmd.call) # NoReceipt
    BY DEF verdict
  <2>. QED
    BY <1>1, <2>1, <2>2, <2>3 DEF RepliesTell, OutcomesTell, Keyed
<1>6. ASSUME NEW cmd \in wire, Drop(cmd)
      PROVE  RepliesTell' /\ OutcomesTell'
  BY <1>1, <1>6 DEF Drop, RepliesTell, OutcomesTell, Keyed
<1>7. CASE UNCHANGED callVars
  BY <1>1, <1>7 DEF callVars, RepliesTell, OutcomesTell, Keyed
<1>. QED
  BY <1>2, <1>3, <1>4, <1>5, <1>6, <1>7, CallSteps, OtherSteps DEF Next, RedisStep

\* What the clock makes of the live planes does not depend on the document
\* beyond its revision.
LEMMA LiveAlone ==
  ASSUME NEW p, NEW q, NEW t,
         p.awareness = q.awareness, p.coordination = q.coordination,
         p.document.roomRevision = q.document.roomRevision
  PROVE  /\ reconcileDerivedState(p, t).awareness = reconcileDerivedState(q, t).awareness
         /\ reconcileDerivedState(p, t).coordination = reconcileDerivedState(q, t).coordination
<1>1. isLive(p, t) <=> isLive(q, t)
  BY DEF isLive
<1>2. CASE isLive(p, t)
  BY <1>1, <1>2 DEF reconcileDerivedState
<1>3. CASE ~isLive(p, t)
  BY <1>1, <1>3 DEF reconcileDerivedState
<1>. QED
  BY <1>2, <1>3

\* A reader that watches the live planes is told of every change to them.
ReadersTold ==
  \A r \in Readers : ~rdirty'[r] =>
    /\ ~rdirty[r]
    /\ planes'.awareness = planes.awareness /\ planes'.coordination = planes.coordination

LEMMA PersistKept ==
  ASSUME StoreInv, [Next]_vars
  PROVE  PersistIsDerived'
<1>. /\ planes \in Planes /\ rpc \in [Readers -> ReadSteps] /\ rbase \in [Readers -> Planes]
     /\ rdirty \in [Readers -> BOOLEAN] /\ PersistIsDerived
  BY DEF StoreInv, TypeOK, LedgerTypeOK
<1>. InOrder(planes) /\ InOrder(planes')
  BY LedgerKept DEF StoreInv, LedgerInv, HotPathReady, InOrder
<1>1. ASSUME ReadersTold, NEW r \in Readers, ~rdirty'[r],
             rpc[r] = "persist", rbase'[r] = rbase[r]
      PROVE  \E t \in Times :
               /\ rbase'[r].awareness = reconcileDerivedState(planes', t).awareness
               /\ rbase'[r].coordination = reconcileDerivedState(planes', t).coordination
  <2>1. /\ ~rdirty[r]
        /\ planes'.awareness = planes.awareness /\ planes'.coordination = planes.coordination
    BY <1>1 DEF ReadersTold
  <2>2. planes'.document.roomRevision = planes.document.roomRevision
    BY <2>1 DEF InOrder
  <2>3. PICK t \in Times : /\ rbase[r].awareness = reconcileDerivedState(planes, t).awareness
                           /\ rbase[r].coordination = reconcileDerivedState(planes, t).coordination
    BY <1>1, <2>1 DEF PersistIsDerived
  <2>. QED
    BY <1>1, <2>1, <2>2, <2>3, LiveAlone
<1>2. ASSUME ReadersTold, UNCHANGED readerVars
      PROVE  PersistIsDerived'
  BY <1>1, <1>2 DEF PersistIsDerived, readerVars
<1>3. ASSUME NEW c \in Calls, CallStep(c) \/ LoseReply(c) \/ LoseReceipt(c)
      PROVE  PersistIsDerived'
  <2>1. UNCHANGED <<planes, rdirty, readerVars>>
    BY <1>3 DEF CallStep, LoseReply, LoseReceipt, WatchPlanes, ReadPlanes, FindReceipt, Reject,
       SwitchToWatched, ReturnUnchanged, SendCommit, Return, LoseRace, ReturnReplayed, GiveUp,
       RecoverReceipt, RecoverNothing, redisVars, watchVars
  <2>. QED
    BY <2>1 DEF PersistIsDerived, readerVars
<1>4. ASSUME NEW cmd \in wire, Store(cmd) \/ Refuse(cmd) \/ Drop(cmd)
      PROVE  PersistIsDerived'
  <2>1. UNCHANGED readerVars /\ ReadersTold
    BY <1>4 DEF Store, Refuse, Drop, Notify, redisVars, watchVars, ReadersTold
  <2>. QED
    BY <1>2, <2>1
<1>5. ASSUME NEW m \in Members, updatePresence(m)
      PROVE  PersistIsDerived'
  <2>1. UNCHANGED readerVars /\ ReadersTold
    BY <1>5 DEF updatePresence, Notify, ReadersTold
  <2>. QED
    BY <1>2, <2>1
<1>6. ASSUME NEW r \in Readers, ReadLivePlanes(r)
      PROVE  PersistIsDerived'
  <2>1. UNCHANGED <<planes, rdirty, now>> /\ \A s \in Readers \ {r} :
          rpc'[s] = rpc[s] /\ rbase'[s] = rbase[s]
    BY <1>6 DEF ReadLivePlanes, redisVars, watchVars
  <2>2. ASSUME rpc'[r] = "persist"
        PROVE  /\ rbase'[r].awareness = reconcileDerivedState(planes, now).awareness
               /\ rbase'[r].coordination = reconcileDerivedState(planes, now).coordination
    <3>1. /\ fenced(besideLive(r))
          /\ rbase'[r] = reconcileDerivedState(besideLive(r), now)
      BY <1>6, <2>2 DEF ReadLivePlanes
    <3>2. /\ besideLive(r).awareness = planes.awareness
          /\ besideLive(r).coordination = planes.coordination
          /\ besideLive(r).document.roomRevision = planes.document.roomRevision
      BY <3>1 DEF fenced, besideLive, InOrder
    <3>. QED
      BY <3>1, <3>2, LiveAlone
  <2>3. now \in Times
    BY DEF StoreInv, TypeOK
  <2>. QED
    BY <2>1, <2>2, <2>3 DEF PersistIsDerived
<1>7. ASSUME NEW r \in Readers, PersistDerived(r)
      PROVE  PersistIsDerived'
  <2>1. rpc'[r] = "done" /\ \A s \in Readers \ {r} : rpc'[s] = rpc[s]
    BY <1>7 DEF PersistDerived
  <2>4. ReadersTold
    BY <1>7 DEF PersistDerived, Notify, ReadersTold
  <2>2. rbase' = rbase
    BY <1>7 DEF PersistDerived
  <2>3. ASSUME NEW s \in Readers, rpc'[s] = "persist", ~rdirty'[s]
        PROVE  rpc[s] = "persist" /\ rbase'[s] = rbase[s]
    BY <2>1, <2>2, <2>3
  <2>. QED
    BY <1>1, <2>4, <2>3 DEF PersistIsDerived
<1>8. ASSUME NEW r \in Readers,
             ReadRoom(r) \/ FetchPlanes(r) \/ WatchLivePlanes(r) \/ RefetchDocument(r)
               \/ LosePersistRace(r)
      PROVE  PersistIsDerived'
  <2>1. planes' = planes /\ rpc'[r] # "persist"
    BY <1>8 DEF ReadRoom, FetchPlanes, WatchLivePlanes, RefetchDocument, LosePersistRace,
       ReadAgain, redisVars
  <2>2. \A s \in Readers \ {r} : rpc'[s] = rpc[s] /\ rbase'[s] = rbase[s] /\ rdirty'[s] = rdirty[s]
    BY <1>8 DEF ReadRoom, FetchPlanes, WatchLivePlanes, RefetchDocument, LosePersistRace,
       ReadAgain, watchVars
  <2>. QED
    BY <2>1, <2>2 DEF PersistIsDerived
<1>9. CASE Tick \/ UNCHANGED vars
  BY <1>2, <1>9 DEF Tick, vars, redisVars, watchVars, ReadersTold
<1>. QED
  BY <1>3, <1>4, <1>5, <1>6, <1>7, <1>8, <1>9 DEF Next, RedisStep, ReadStep

-----------------------------------------------------------------------------
(* Results.                                                                *)

LEMMA StoreStep == StoreInv /\ [Next]_vars => StoreInv'
BY TypesKept, LedgerKept, ReadsOrderedKept, WireKept, WatchKept, UnappliedKept, AnswersKept,
   PersistKept DEF StoreInv

\* The inductive invariant, with the types of every variable.
THEOREM StoreCorrect == Spec => []StoreInv
BY StoreInitInv, StoreStep, PTL DEF Spec

\* Every variable of the store keeps its type.
THEOREM TypeCorrect == Spec => []TypeOK
<1>1. StoreInv => TypeOK
  BY DEF StoreInv
<1>. QED
  BY <1>1, StoreCorrect, PTL

\* The Redis store, with its races, retries and lost replies, does nothing
\* that the ledger does not do.
THEOREM StoreImplementsLedger == Spec => LedgerSpec
<1>1. Init => LedgerInit
  BY DEF Init
<1>2. StoreInv /\ [Next]_vars => [LedgerNext]_ledgerVars
  BY Simulation
<1>. QED
  BY <1>1, <1>2, StoreCorrect, PTL DEF Spec, LedgerSpec

\* One idempotency key, one mutation.
THEOREM StoreAppliesOnce == Spec => []AtMostOnce
<1>1. LedgerInv => AtMostOnce
  BY DEF LedgerInv
<1>. QED
  BY <1>1, StoreImplementsLedger, LedgerCorrect, PTL

\* No edit is lost and none is in the document twice.
THEOREM StoreKeepsEdits == Spec => []NoLostEdit
<1>1. LedgerInv => NoLostEdit
  BY DEF LedgerInv
<1>. QED
  BY <1>1, StoreImplementsLedger, LedgerCorrect, PTL

\* The presence script and getRoom always find the planes in order.
THEOREM StoreKeepsFence == Spec => []HotPathReady
<1>1. LedgerInv => HotPathReady
  BY DEF LedgerInv
<1>. QED
  BY <1>1, StoreImplementsLedger, LedgerCorrect, PTL

\* Whatever changes the room moves its revision forward.
THEOREM StoreAdvances == Spec => RevisionsAdvance
BY StoreImplementsLedger, LedgerAdvances, PTL

-----------------------------------------------------------------------------
(* Readers and subscribers. The history of the room is ordered by its      *)
(* revisions, so a document and live planes that agree on the fence belong *)
(* together however long ago the document was read.                        *)

NoLaterVersion ==
  /\ planes \in versions
  /\ \A v \in versions :
       /\ v.coordination.stateRevision <= planes.coordination.stateRevision
       /\ v.document.roomRevision <= planes.document.roomRevision
       /\ v.coordination.stateRevision = planes.coordination.stateRevision => v = planes
       /\ v.document.roomRevision = planes.document.roomRevision => v.document = planes.document

\* A reader's document has been the room's.
ReadersHaveDocuments ==
  \A r \in Readers : /\ \E v \in versions : rbase[r].document = v.document
                     /\ rpc[r] = "persist" => InOrder(rbase[r])

HistoryInv ==
  /\ StoreInv
  /\ NoLaterVersion /\ RevisionNamesVersion
  /\ HeadIsCurrent
  /\ ReadersHaveDocuments /\ ReadsAreVersions

LEMMA HistoryInitInv == Init => HistoryInv
<1>. SUFFICES ASSUME Init PROVE HistoryInv
  OBVIOUS
<1>1. StoreInv
  BY StoreInitInv
<1>2. /\ planes.coordination.stateRevision \in Nat /\ planes.document.roomRevision \in Nat
      /\ versions = {planes} /\ head = eventFor(planes)
      /\ \A r \in Readers : rbase[r] = planes /\ rpc[r] = "begin"
  BY <1>1, PlanesParts DEF Init, StoreInv, TypeOK, LedgerTypeOK
<1>. QED
  BY <1>1, <1>2 DEF HistoryInv, NoLaterVersion, RevisionNamesVersion, HeadIsCurrent,
     ReadersHaveDocuments, ReadsAreVersions

LEMMA VersionsKept ==
  ASSUME StoreInv, [Next]_vars, NoLaterVersion, RevisionNamesVersion
  PROVE  /\ versions \subseteq versions'
         /\ NoLaterVersion' /\ RevisionNamesVersion'
<1>1. \/ versions' = versions /\ planes' = planes
      \/ versions' = versions \cup {planes'}
  BY DEF Next, RedisStep, Store, Refuse, Drop, updatePresence, Tick, vars, redisVars,
     CallStep, LoseReply, LoseReceipt, WatchPlanes, ReadPlanes, FindReceipt, Reject,
     SwitchToWatched, ReturnUnchanged, SendCommit, Return, LoseRace, ReturnReplayed, GiveUp,
     RecoverReceipt, RecoverNothing, ReadStep, ReadRoom, FetchPlanes, WatchLivePlanes,
     ReadLivePlanes, RefetchDocument, PersistDerived, LosePersistRace
<1>2. /\ planes \in Planes /\ planes' \in Planes /\ versions \subseteq Planes
      /\ Later(planes, planes')
  BY LedgerKept DEF StoreInv, TypeOK, LedgerInv, LedgerTypeOK
<1>3. \A p \in Planes : p.coordination.stateRevision \in Nat /\ p.document.roomRevision \in Nat
  BY PlanesParts
<1>4. NoLaterVersion'
  BY <1>1, <1>2, <1>3 DEF NoLaterVersion, Later
<1>5. RevisionNamesVersion'
  <2>. SUFFICES ASSUME NEW p \in versions', NEW q \in versions'
                PROVE  /\ p.coordination.stateRevision = q.coordination.stateRevision => p = q
                       /\ p.document.roomRevision = q.document.roomRevision
                            => p.document = q.document
    BY DEF RevisionNamesVersion
  <2>1. CASE p \in versions /\ q \in versions
    BY <2>1 DEF RevisionNamesVersion
  <2>2. CASE p = planes' \/ q = planes'
    BY <1>4, <2>2 DEF NoLaterVersion
  <2>. QED
    BY <1>1, <2>1, <2>2
<1>. QED
  BY <1>1, <1>4, <1>5

LEMMA HeadKept ==
  ASSUME StoreInv, [Next]_vars, HeadIsCurrent
  PROVE  HeadIsCurrent'
<1>. /\ planes \in Planes
     /\ planes'.coordination.roomRevision = planes'.document.roomRevision
  BY LedgerKept DEF StoreInv, TypeOK, LedgerTypeOK, LedgerInv, HotPathReady
<1>1. ASSUME NEW cmd \in wire, Store(cmd)
      PROVE  HeadIsCurrent'
  <2>1. planes = cmd.expected /\ cmd \in Command
    BY <1>1 DEF Store, verdict, StoreInv, TypeOK, WatchHolds, Exec
  <2>2. planes' = cmd.next
    BY <1>1, <2>1, WriteWhole DEF Store, Command
  <2>3. cmd.kind = "receipt" => cmd.next = planes
    BY <2>1 DEF StoreInv, ReceiptsWriteNothing
  <2>. QED
    BY <1>1, <2>2, <2>3 DEF Store, publishedEvent, HeadIsCurrent
<1>2. ASSUME NEW m \in Members, updatePresence(m)
      PROVE  HeadIsCurrent'
  BY <1>2 DEF updatePresence, HeadIsCurrent, eventFor
<1>3. ASSUME NEW r \in Readers, PersistDerived(r)
      PROVE  HeadIsCurrent'
  <2>1. planes'.coordination = rbase[r].coordination
    BY <1>3 DEF PersistDerived, Planes
  <2>. QED
    BY <1>3, <2>1 DEF PersistDerived, HeadIsCurrent, eventFor
<1>4. CASE UNCHANGED <<planes, head>>
  BY <1>4 DEF HeadIsCurrent
<1>. QED
  BY <1>1, <1>2, <1>3, <1>4 DEF Next, RedisStep, Refuse, Drop, Tick, vars, redisVars,
     CallStep, LoseReply, LoseReceipt, WatchPlanes, ReadPlanes, FindReceipt, Reject,
     SwitchToWatched, ReturnUnchanged, SendCommit, Return, LoseRace, ReturnReplayed, GiveUp,
     RecoverReceipt, RecoverNothing, ReadStep, ReadRoom, FetchPlanes, WatchLivePlanes,
     ReadLivePlanes, RefetchDocument, LosePersistRace

LEMMA ReadersKept ==
  ASSUME HistoryInv, [Next]_vars
  PROVE  ReadersHaveDocuments' /\ ReadsAreVersions'
<1>. /\ planes \in Planes /\ rpc \in [Readers -> ReadSteps] /\ rbase \in [Readers -> Planes]
     /\ now \in Nat
     /\ InOrder(planes) /\ NoLaterVersion /\ ReadersHaveDocuments /\ ReadsAreVersions
  BY LedgerAssumption DEF HistoryInv, StoreInv, TypeOK, LedgerTypeOK, LedgerInv, HotPathReady,
     InOrder, Times
<1>1. versions \subseteq versions' /\ planes' \in versions'
  BY VersionsKept DEF HistoryInv, NoLaterVersion
<1>. USE DEF ReadersHaveDocuments, ReadsAreVersions
\* A document of the room's revision is the room's document.
<1>2. ASSUME NEW r \in Readers, rbase[r].document.roomRevision = planes.document.roomRevision
      PROVE  rbase[r].document = planes.document
  BY <1>2 DEF NoLaterVersion
<1>3. CASE UNCHANGED readerVars
  BY <1>1, <1>3 DEF readerVars
<1>4. ASSUME NEW r \in Readers, ReadRoom(r) \/ FetchPlanes(r)
      PROVE  ReadersHaveDocuments' /\ ReadsAreVersions'
  <2>1. /\ rbase' = [rbase EXCEPT ![r] = planes] /\ planes' = planes
        /\ rpc'[r] # "persist" /\ \A s \in Readers \ {r} : rpc'[s] = rpc[s]
    BY <1>4 DEF ReadRoom, FetchPlanes, redisVars
  <2>. QED
    BY <1>1, <2>1
<1>5. ASSUME NEW r \in Readers, WatchLivePlanes(r) \/ LosePersistRace(r)
      PROVE  ReadersHaveDocuments' /\ ReadsAreVersions'
  <2>1. /\ rbase' = rbase /\ rpc'[r] \notin {"persist", "done"}
        /\ \A s \in Readers \ {r} : rpc'[s] = rpc[s]
    BY <1>5 DEF WatchLivePlanes, LosePersistRace, ReadAgain
  <2>. QED
    BY <1>1, <2>1
<1>6. ASSUME NEW r \in Readers, ReadLivePlanes(r)
      PROVE  ReadersHaveDocuments' /\ ReadsAreVersions'
  <2>. DEFINE beside == besideLive(r)
  <2>0. \A s \in Readers \ {r} : rpc'[s] = rpc[s] /\ rbase'[s] = rbase[s]
    BY <1>6 DEF ReadLivePlanes
  <2>1. CASE ~fenced(beside)
    BY <1>1, <1>6, <2>1 DEF ReadLivePlanes
  <2>2. CASE fenced(beside)
    <3>1. /\ rbase'[r] = reconcileDerivedState(beside, now)
          /\ rpc'[r] = IF isLive(beside, now) THEN "done" ELSE "persist"
      BY <1>6, <2>2 DEF ReadLivePlanes
    <3>2. rbase[r].document = planes.document
      BY <1>2, <2>2 DEF fenced, besideLive, InOrder
    <3>3. beside = planes
      BY <3>2 DEF besideLive, Planes
    <3>4. /\ rbase'[r].document = planes.document /\ InOrder(rbase'[r])
      BY <3>1, <3>3, ReconcileLater
    <3>5. rpc'[r] = "done" => rbase'[r] = planes
      BY <3>1, <3>3 DEF reconcileDerivedState
    <3>6. planes \in versions
      BY DEF NoLaterVersion
    <3>. QED
      BY <1>1, <2>0, <3>4, <3>5, <3>6
  <2>. QED
    BY <2>1, <2>2
<1>7. ASSUME NEW r \in Readers, RefetchDocument(r)
      PROVE  ReadersHaveDocuments' /\ ReadsAreVersions'
  <2>1. /\ rbase' = [rbase EXCEPT ![r] = [rbase[r] EXCEPT !.document = planes.document]]
        /\ rpc'[r] \notin {"persist", "done"} /\ \A s \in Readers \ {r} : rpc'[s] = rpc[s]
        /\ planes' = planes
    BY <1>7 DEF RefetchDocument, ReadAgain, redisVars
  <2>2. [rbase[r] EXCEPT !.document = planes.document].document = planes.document
    BY DEF Planes
  <2>. QED
    BY <1>1, <2>1, <2>2
<1>8. ASSUME NEW r \in Readers, PersistDerived(r)
      PROVE  ReadersHaveDocuments' /\ ReadsAreVersions'
  <2>1. /\ rbase' = rbase /\ rpc'[r] = "done" /\ \A s \in Readers \ {r} : rpc'[s] = rpc[s]
        /\ planes' = [planes EXCEPT !.awareness = rbase[r].awareness,
                                    !.coordination = rbase[r].coordination]
    BY <1>8 DEF PersistDerived
  <2>2. /\ InOrder(rbase[r]) /\ InOrder(planes')
        /\ planes'.document = planes.document /\ planes'.coordination = rbase[r].coordination
        /\ planes'.awareness = rbase[r].awareness
    BY <1>8, <2>1, LedgerKept
       DEF PersistDerived, Planes, HistoryInv, LedgerInv, HotPathReady, InOrder
  <2>3. rbase[r].document = planes.document
    BY <1>2, <2>2 DEF InOrder
  <2>4. rbase[r] = planes'
    BY <2>1, <2>3 DEF Planes
  <2>. QED
    BY <1>1, <2>1, <2>4
<1>9. UNCHANGED readerVars \/ \E r \in Readers : ReadStep(r)
  BY DEF Next, RedisStep, Store, Refuse, Drop, updatePresence, Tick, vars,
     CallStep, LoseReply, LoseReceipt, WatchPlanes, ReadPlanes, FindReceipt, Reject,
     SwitchToWatched, ReturnUnchanged, SendCommit, Return, LoseRace, ReturnReplayed, GiveUp,
     RecoverReceipt, RecoverNothing
<1>. QED
  BY <1>3, <1>4, <1>5, <1>6, <1>7, <1>8, <1>9 DEF ReadStep

THEOREM HistoryCorrect == Spec => []HistoryInv
<1>1. HistoryInv /\ [Next]_vars => HistoryInv'
  BY StoreStep, VersionsKept, HeadKept, ReadersKept DEF HistoryInv
<1>. QED
  BY <1>1, HistoryInitInv, PTL DEF Spec

\* What a reader returns was the room at some moment.
THEOREM ReadersSeeVersions == Spec => []ReadsAreVersions
<1>1. HistoryInv => ReadsAreVersions
  BY DEF HistoryInv
<1>. QED
  BY <1>1, HistoryCorrect, PTL

\* A revision names one room, and subscribers may go by it.
THEOREM RevisionsAreNames == Spec => []RevisionNamesVersion
<1>1. HistoryInv => RevisionNamesVersion
  BY DEF HistoryInv
<1>. QED
  BY <1>1, HistoryCorrect, PTL

\* The newest event names the room as it is.
THEOREM HeadNamesRoom == Spec => []HeadIsCurrent
<1>1. HistoryInv => HeadIsCurrent
  BY DEF HistoryInv
<1>. QED
  BY <1>1, HistoryCorrect, PTL

-----------------------------------------------------------------------------
(* What the calls are told. Until a reply is lost, a call knows whether    *)
(* its mutation took effect: it has at most the command it waits for on    *)
(* the wire. After that only the receipt of its key can tell, and a        *)
(* receipt names a request that took effect.                               *)

\* Some mutation of c's key took effect for the request r.
TookEffectFor(c, r) ==
  \E d \in Calls : KeyOf[d] = KeyOf[c] /\ RequestOf[d] = r /\ applied[d] = 1

ReceiptsName ==
  \A c \in Calls : ReceiptOf(c) # NoReceipt => TookEffectFor(c, ReceiptOf(c))

\* The mutation of c has had no effect so far, and c is going to know.
NotYet(c) ==
  \/ Preparing(c)
  \/ pc[c] = "commit" /\ reply[c] # "stored"
  \/ outcome[c] \in {"unchanged", "rejected", "conflict"}

CertainCalls ==
  \A c \in Calls : ~lost[c] =>
    /\ pc[c] # "recover"
    /\ NotYet(c) => applied[c] = 0
    /\ \A cmd \in wire : cmd.call = c => awaited(cmd) /\ reply[c] = "none"

\* A call that refers to its key is right about it.
ReplaysVouch ==
  \A c \in Calls :
    /\ outcome[c] = "replayed" => TookEffectFor(c, RequestOf[c])
    /\ outcome[c] = "key_conflict" =>
         \E d \in Calls : KeyOf[d] = KeyOf[c] /\ RequestOf[d] # RequestOf[c] /\ applied[d] = 1

TruthInv == StoreInv /\ ReceiptsName /\ CertainCalls /\ ReplaysVouch

LEMMA TruthInitInv == Init => TruthInv
<1>. SUFFICES ASSUME Init PROVE TruthInv
  OBVIOUS
<1>1. StoreInv
  BY StoreInitInv
<1>2. ReceiptsName
  BY LedgerAssumption DEF Init, LedgerInit, ReceiptsName, ReceiptOf, Keyed
<1>3. CertainCalls
  BY DEF Init, LedgerInit, CertainCalls, startStep
<1>4. ReplaysVouch
  BY DEF Init, LedgerInit, ReplaysVouch
<1>. QED
  BY <1>1, <1>2, <1>3, <1>4 DEF TruthInv

\* What a step does to the mutations and the receipts: nothing, or the
\* command of a call without a receipt takes effect.
LEMMA EffectOfStep ==
  ASSUME StoreInv, [Next]_vars
  PROVE  \/ UNCHANGED <<applied, receipts>>
         \/ \E cmd \in wire :
              /\ Store(cmd) /\ cmd.call \in Calls /\ ReceiptOf(cmd.call) = NoReceipt
              /\ applied[cmd.call] = 0 /\ applied' = [applied EXCEPT ![cmd.call] = 1]
              /\ receipts' = withReceipt(cmd.call)
<1>1. ASSUME NEW cmd \in wire, Store(cmd)
      PROVE  /\ cmd.call \in Calls /\ ReceiptOf(cmd.call) = NoReceipt
             /\ applied[cmd.call] = 0 /\ applied' = [applied EXCEPT ![cmd.call] = 1]
             /\ receipts' = withReceipt(cmd.call)
  <2>1. Take(cmd.call)
    BY <1>1, StoreIsTake
  <2>. QED
    BY <2>1 DEF Take, StoreInv, TypeOK, Command
<1>2. UNCHANGED <<applied, receipts>> \/ \E cmd \in wire : Store(cmd)
  BY DEF Next, RedisStep, Refuse, Drop, updatePresence, Tick, vars, redisVars,
     CallStep, LoseReply, LoseReceipt, WatchPlanes, ReadPlanes, FindReceipt, Reject,
     SwitchToWatched, ReturnUnchanged, SendCommit, Return, LoseRace, ReturnReplayed, GiveUp,
     RecoverReceipt, RecoverNothing, ReadStep, ReadRoom, FetchPlanes, WatchLivePlanes,
     ReadLivePlanes, RefetchDocument, PersistDerived, LosePersistRace
<1>. QED
  BY <1>1, <1>2

\* What took effect for a request has done so for good.
LEMMA EffectStays ==
  ASSUME StoreInv, [Next]_vars, NEW d \in Calls, applied[d] = 1
  PROVE  applied'[d] = 1
BY EffectOfStep DEF StoreInv, TypeOK, LedgerTypeOK

LEMMA ReceiptsNameKept ==
  ASSUME TruthInv, [Next]_vars
  PROVE  ReceiptsName'
<1>. StoreInv /\ ReceiptsName /\ applied \in [Calls -> Nat] /\ LedgerTypeOK
  BY DEF TruthInv, StoreInv, TypeOK, LedgerTypeOK
<1>. SUFFICES ASSUME NEW c \in Calls, ReceiptOf(c)' # NoReceipt
              PROVE  TookEffectFor(c, ReceiptOf(c))'
  BY DEF ReceiptsName
<1>1. CASE ReceiptOf(c)' = ReceiptOf(c)
  <2>1. PICK d \in Calls : KeyOf[d] = KeyOf[c] /\ RequestOf[d] = ReceiptOf(c) /\ applied[d] = 1
    BY <1>1 DEF ReceiptsName, TookEffectFor
  <2>2. applied'[d] = 1
    BY <2>1, EffectStays
  <2>. QED
    BY <1>1, <2>1, <2>2 DEF TookEffectFor
<1>2. CASE ReceiptOf(c)' # ReceiptOf(c)
  <2>1. PICK cmd \in wire : /\ cmd.call \in Calls
                            /\ applied' = [applied EXCEPT ![cmd.call] = 1]
                            /\ receipts' = withReceipt(cmd.call)
    BY <1>2, EffectOfStep DEF ReceiptOf, Keyed
  <2>2. Keyed(c) /\ Keyed(cmd.call) /\ KeyOf[c] = KeyOf[cmd.call]
    BY <1>2, <2>1, ReceiptWritten, LedgerAssumption DEF ReceiptOf, Keyed
  <2>3. ReceiptOf(c)' = RequestOf[cmd.call]
    BY <2>1, <2>2, ReceiptWritten DEF ReceiptOf, Keyed
  <2>4. applied'[cmd.call] = 1
    BY <2>1
  <2>. QED
    BY <2>1, <2>2, <2>3, <2>4 DEF TookEffectFor
<1>. QED
  BY <1>1, <1>2

LEMMA CertainKept ==
  ASSUME TruthInv, [Next]_vars
  PROVE  CertainCalls'
<1>. /\ wire \subseteq Command /\ pc \in [Calls -> Steps] /\ reply \in [Calls -> Replies]
     /\ outcome \in [Calls -> Outcomes] /\ applied \in [Calls -> Nat]
     /\ attempt \in [Calls -> Nat] /\ lost \in [Calls -> BOOLEAN]
     /\ CertainCalls /\ StoreInv
  BY DEF TruthInv, StoreInv, TypeOK, LedgerTypeOK
<1>. \A cmd \in wire : cmd.call \in Calls
  BY DEF Command
<1>. USE DEF Preparing, NotYet, awaited
<1>1. ASSUME NEW c \in Calls, SendCommit(c)
      PROVE  CertainCalls'
  <2>1. /\ \A cmd \in wire' : cmd \in wire \/ (cmd.call = c /\ cmd.attempt = attempt[c])
        /\ pc[c] = "receipt" /\ pc' = [pc EXCEPT ![c] = "commit"]
        /\ reply' = [reply EXCEPT ![c] = "none"]
        /\ UNCHANGED <<applied, attempt, lost, outcome>>
    BY <1>1 DEF SendCommit, redisVars
  <2>. QED
    BY <2>1 DEF CertainCalls
<1>2. ASSUME NEW c \in Calls, Ends(c), Counted(c)
      PROVE  CertainCalls'
  <2>. PICK o \in Outcomes : MayReturn(c, o) /\ Finish(c, o)
    BY <1>2 DEF Ends
  <2>1. /\ pc[c] # "done" /\ (pc[c] = "commit" => reply[c] # "none")
        /\ UNCHANGED <<applied, lost, reply, wire>>
        /\ pc' = [pc EXCEPT ![c] = "done"] /\ outcome' = [outcome EXCEPT ![c] = o]
        /\ \A d \in Calls \ {c} : attempt'[d] = attempt[d]
    BY <1>2 DEF Ends, Finish, Counted, redisVars
  <2>2. ~lost[c] => \A cmd \in wire : cmd.call # c
    BY <2>1 DEF CertainCalls
  <2>3. ~lost[c] /\ o \in {"unchanged", "rejected", "conflict"} => applied[c] = 0
    BY DEF MayReturn, MayRepeat, CertainCalls
  <2>. QED
    BY <2>1, <2>2, <2>3 DEF CertainCalls
<1>3. ASSUME NEW c \in Calls, Repeats(c)
      PROVE  CertainCalls'
  <2>1. /\ UNCHANGED <<applied, lost, reply, wire, outcome>>
        /\ pc' = [pc EXCEPT ![c] = startStep(owns[c])]
        /\ \A d \in Calls \ {c} : attempt'[d] = attempt[d]
        /\ (pc[c] = "commit" /\ reply[c] = "conflict") \/ pc[c] = "recover"
        /\ startStep(owns[c]) \in {"watch", "planes"}
    BY <1>3 DEF Repeats, MayRepeat, redisVars, startStep
  <2>2. ~lost[c] => \A cmd \in wire : cmd.call # c
    BY <2>1 DEF CertainCalls
  <2>. QED
    BY <2>1, <2>2 DEF CertainCalls
<1>4. ASSUME NEW c \in Calls, WatchPlanes(c) \/ ReadPlanes(c) \/ SwitchToWatched(c) \/ LoseReply(c)
      PROVE  CertainCalls'
  BY <1>4 DEF WatchPlanes, ReadPlanes, SwitchToWatched, LoseReply, redisVars, CertainCalls
<1>5. ASSUME NEW cmd \in wire, Store(cmd)
      PROVE  CertainCalls'
  <2>1. /\ wire' = wire \ {cmd}
        /\ UNCHANGED <<pc, attempt, lost, outcome>>
        /\ Answer(cmd) /\ verdict(cmd) = "stored"
        /\ \A d \in Calls \ {cmd.call} : applied'[d] = applied[d]
    BY <1>5 DEF Store
  <2>2. \A d \in Calls \ {cmd.call} : reply'[d] = reply[d]
    BY <2>1 DEF Answer
  <2>3. ASSUME ~lost[cmd.call]
        PROVE  /\ pc[cmd.call] = "commit" /\ reply'[cmd.call] = "stored"
               /\ \A other \in wire' : other.call # cmd.call
    <3>1. awaited(cmd)
      BY <2>3 DEF CertainCalls
    <3>2. \A other \in wire' : other.call # cmd.call
      BY <2>1, <2>3, <3>1 DEF CertainCalls, StoreInv, OnePerAttempt
    <3>. QED
      BY <2>1, <3>1, <3>2 DEF Answer
  <2>4. \A d \in Calls : pc[d] # "done" => outcome[d] = "pending"
    BY DEF StoreInv, OutcomesTell
  <2>. QED
    BY <2>1, <2>2, <2>3, <2>4 DEF CertainCalls
<1>6. ASSUME NEW cmd \in wire, Refuse(cmd)
      PROVE  CertainCalls'
  <2>1. /\ wire' = wire \ {cmd}
        /\ UNCHANGED <<pc, attempt, lost, outcome, applied>>
        /\ Answer(cmd)
    BY <1>6 DEF Refuse, redisVars
  <2>2. \A d \in Calls \ {cmd.call} : reply'[d] = reply[d]
    BY <2>1 DEF Answer
  <2>3. ASSUME ~lost[cmd.call]
        PROVE  /\ pc[cmd.call] = "commit" /\ reply[cmd.call] = "none"
               /\ \A other \in wire' : other.call # cmd.call
    BY <2>1, <2>3 DEF CertainCalls, StoreInv, OnePerAttempt
  <2>. QED
    BY <2>1, <2>2, <2>3 DEF CertainCalls
<1>7. ASSUME NEW cmd \in wire, Drop(cmd)
      PROVE  CertainCalls'
  BY <1>7 DEF Drop, redisVars, CertainCalls
<1>8. ASSUME UNCHANGED callVars, UNCHANGED applied
      PROVE  CertainCalls'
  BY <1>8 DEF callVars, CertainCalls
<1>9. CASE (\E m \in Members : updatePresence(m)) \/ Tick \/ UNCHANGED vars
             \/ \E r \in Readers : ReadStep(r)
  <2>1. applied' = applied
    BY <1>9 DEF updatePresence, Tick, vars, redisVars, ReadStep, ReadRoom, FetchPlanes,
       WatchLivePlanes, ReadLivePlanes, RefetchDocument, PersistDerived, LosePersistRace
  <2>. QED
    BY <1>8, <1>9, <2>1, OtherSteps
<1>. QED
  BY <1>1, <1>2, <1>3, <1>4, <1>5, <1>6, <1>7, <1>9, CallSteps DEF Next, RedisStep

\* A call that ends by its key reads the receipt of a mutation that took effect.
LEMMA ReplaysKept ==
  ASSUME TruthInv, [Next]_vars
  PROVE  ReplaysVouch'
<1>. /\ outcome \in [Calls -> Outcomes] /\ applied \in [Calls -> Nat]
     /\ StoreInv /\ ReceiptsName /\ ReplaysVouch
  BY DEF TruthInv, StoreInv, TypeOK, LedgerTypeOK
<1>0. \A d \in Calls : applied[d] = 1 => applied'[d] = 1
  BY EffectStays
<1>1. ASSUME outcome' = outcome
      PROVE  ReplaysVouch'
  BY <1>0, <1>1 DEF ReplaysVouch, TookEffectFor
<1>2. ASSUME NEW c \in Calls, Ends(c)
      PROVE  ReplaysVouch'
  <2>. PICK o \in Outcomes : MayReturn(c, o) /\ Finish(c, o)
    BY <1>2 DEF Ends
  <2>1. outcome' = [outcome EXCEPT ![c] = o]
    BY DEF Finish
  <2>2. o = "replayed" => TookEffectFor(c, RequestOf[c])
    BY LedgerAssumption DEF MayReturn, ReceiptsName
  <2>3. o = "key_conflict" =>
          \E d \in Calls : KeyOf[d] = KeyOf[c] /\ RequestOf[d] # RequestOf[c] /\ applied[d] = 1
    BY DEF MayReturn, ReceiptsName, TookEffectFor
  <2>. QED
    BY <1>0, <2>1, <2>2, <2>3 DEF ReplaysVouch, TookEffectFor
<1>3. outcome' = outcome \/ \E c \in Calls : Ends(c)
  <2>1. ASSUME NEW c \in Calls, CallStep(c) \/ LoseReply(c) \/ LoseReceipt(c)
        PROVE  outcome' = outcome \/ Ends(c)
    BY <2>1, CallSteps DEF WatchPlanes, ReadPlanes, SwitchToWatched, SendCommit, LoseReply, Repeats
  <2>2. CASE RedisStep \/ \E cmd \in wire : Drop(cmd)
    BY <2>2 DEF RedisStep, Store, Refuse, Drop
  <2>3. CASE UNCHANGED callVars
    BY <2>3 DEF callVars
  <2>. QED
    BY <2>1, <2>2, <2>3, OtherSteps DEF Next
<1>. QED
  BY <1>1, <1>2, <1>3

\* The inductive invariant of what the calls are told.
THEOREM TruthCorrect == Spec => []TruthInv
<1>1. TruthInv /\ [Next]_vars => TruthInv'
  BY StoreStep, ReceiptsNameKept, CertainKept, ReplaysKept DEF TruthInv
<1>. QED
  BY <1>1, TruthInitInv, PTL DEF Spec

\* What a call is told is what happened to its mutation, however the replies
\* were lost and the commands delayed.
THEOREM OutcomesAreTrue == Spec => []OutcomeIsTrue
<1>1. ASSUME TruthInv PROVE OutcomeIsTrue
  <2>1. \A c \in Calls : applied[c] \in Nat /\ applied[c] <= 1
    BY <1>1 DEF TruthInv, StoreInv, LedgerInv, LedgerTypeOK, AtMostOnce
  <2>2. \A c \in Calls : outcome[c] = "ok" => applied[c] = 1
    BY <1>1, <2>1 DEF TruthInv, StoreInv, OutcomesTell
  <2>3. \A c \in Calls :
          outcome[c] \in {"unchanged", "rejected", "conflict"} /\ ~lost[c] => applied[c] = 0
    BY <1>1 DEF TruthInv, CertainCalls, NotYet
  <2>. QED
    BY <1>1, <2>2, <2>3 DEF TruthInv, ReplaysVouch, TookEffectFor, OutcomeIsTrue
<1>. QED
  BY <1>1, TruthCorrect, PTL

-----------------------------------------------------------------------------
(* Heartbeats. A mutation writes back the awareness it has read, so a      *)
(* heartbeat is kept because the commit it would overtake is refused.      *)

\* q has the heartbeats of p or later ones, none after t.
Beats(p, q, t) ==
  \A m \in Members : /\ q.awareness.lastSeenAt[m] >= p.awareness.lastSeenAt[m]
                     /\ q.awareness.lastSeenAt[m] <= t

HeartInv ==
  /\ StoreInv
  /\ Beats(planes, planes, now)
  /\ \A c \in Calls : Beats(base[c], base[c], now)
  /\ \A cmd \in wire : Beats(cmd.expected, cmd.next, now)

LEMMA HeartInitInv == Init => HeartInv
<1>. SUFFICES ASSUME Init PROVE HeartInv
  OBVIOUS
<1>1. StoreInv
  BY StoreInitInv
<1>2. Beats(planes, planes, 0)
  BY CreatedAssumption DEF Init, LedgerInit, Beats
<1>. QED
  BY <1>1, <1>2 DEF Init, HeartInv

\* An updater leaves every heartbeat alone or stamps it with the clock.
LEMMA UpdateBeats ==
  ASSUME NEW c \in Calls, NEW room \in RoomState, NEW t \in Nat, NEW m \in Members
  PROVE  Update(c, room, t).room.awareness.lastSeenAt[m]
           \in {room.awareness.lastSeenAt[m], t}
<1>. DEFINE Stamped(after) ==
       after.awareness.lastSeenAt[m] \in {room.awareness.lastSeenAt[m], t}
<1>1. /\ ActorOf[c] \in Members /\ Op[c] \in Ops
      /\ room.awareness.lastSeenAt \in [Members -> Nat]
      /\ room.awareness = [lastSeenAt |-> room.awareness.lastSeenAt,
                           connected |-> room.awareness.connected,
                           presenter |-> room.awareness.presenter,
                           followers |-> room.awareness.followers]
  BY UpdatesAssumption DEF RoomState, Awareness
<1>2. heartbeat(room.awareness, ActorOf[c], t).lastSeenAt[m]
        \in {room.awareness.lastSeenAt[m], t}
  BY <1>1 DEF heartbeat
<1>3. /\ Stamped(room)
      /\ Stamped(applyEdit(c, room))
      /\ Stamped(enableReview(room))
      /\ Stamped(acquireLease(c, room, t))
  BY DEF RoomState, applyEdit, enableReview, acquireLease
<1>4. Stamped(startSpotlight(c, room))
  BY <1>1 DEF RoomState, startSpotlight
<1>5. Stamped(queueAgentEdit(c, room, t))
  BY <1>2 DEF RoomState, queueAgentEdit, markAgentActive
<1>6. Stamped([applyEdit(c, room) EXCEPT !.awareness = markAgentActive(@, c, t)])
  BY <1>2 DEF RoomState, applyEdit, markAgentActive
<1>7. Stamped(runCanvasCommand(c, room, t).room)
  BY <1>3, <1>5, <1>6 DEF runCanvasCommand, Updated
<1>8. Stamped(setAgentEditPolicy(room).room)
  BY <1>3 DEF setAgentEditPolicy, Updated
<1>9. Stamped(runLeaseAction(c, room, t).room)
  BY <1>3 DEF runLeaseAction, Updated, Rejected
<1>10. Stamped(updateSpotlight(c, room).room)
  BY <1>3, <1>4 DEF updateSpotlight, Updated, Rejected
<1>. QED
  BY <1>1, <1>7, <1>8, <1>9, <1>10 DEF Update, Ops

LEMMA MutatedBeats ==
  ASSUME NEW c \in Calls, NEW p \in Planes, NEW t \in Nat, InOrder(p), Beats(p, p, t)
  PROVE  Beats(p, mutated(c, p, t), t)
<1>. DEFINE live == reconcileDerivedState(p, t)
            room == composeRoomState(live)
            after == Update(c, room, t).room
<1>1. live \in Planes /\ live.awareness.lastSeenAt = p.awareness.lastSeenAt
  BY ReconcileType DEF reconcileDerivedState, liveAwareness
<1>2. room \in RoomState /\ room.awareness = live.awareness
  BY <1>1, ComposeType DEF composeRoomState
<1>3. updated(c, p, t).room = after
  BY DEF updated
<1>. HIDE DEF live, room
<1>4. after \in RoomState
  BY <1>2, UpdateType DEF UpdateResult
<1>5. \A m \in Members : after.awareness.lastSeenAt[m] \in {p.awareness.lastSeenAt[m], t}
  BY <1>1, <1>2, UpdateBeats
<1>. HIDE DEF after
<1>6. mutated(c, p, t).awareness = after.awareness
  BY <1>3, <1>4, NormalizeContent DEF mutated
<1>7. \A m \in Members : p.awareness.lastSeenAt[m] \in Nat
  BY PlanesParts DEF Awareness
<1>. SUFFICES ASSUME NEW m \in Members
              PROVE  /\ mutated(c, p, t).awareness.lastSeenAt[m] >= p.awareness.lastSeenAt[m]
                     /\ mutated(c, p, t).awareness.lastSeenAt[m] <= t
  BY DEF Beats
<1>8. p.awareness.lastSeenAt[m] <= t
  BY DEF Beats
<1>9. mutated(c, p, t).awareness.lastSeenAt[m] \in {p.awareness.lastSeenAt[m], t}
  BY <1>5, <1>6
<1>. QED
  BY <1>7, <1>8, <1>9

\* Time passes; heartbeats that were not of the future still are not.
LEMMA BeatsLater ==
  ASSUME NEW p \in Planes, NEW q \in Planes, NEW t \in Nat, NEW u \in Nat, t <= u, Beats(p, q, t)
  PROVE  Beats(p, q, u)
<1>. SUFFICES ASSUME NEW m \in Members
              PROVE  /\ q.awareness.lastSeenAt[m] >= p.awareness.lastSeenAt[m]
                     /\ q.awareness.lastSeenAt[m] <= u
  BY DEF Beats
<1>1. /\ q.awareness.lastSeenAt[m] >= p.awareness.lastSeenAt[m]
      /\ q.awareness.lastSeenAt[m] <= t
  BY DEF Beats
<1>2. q.awareness.lastSeenAt[m] \in Nat
  BY PlanesParts DEF Awareness
<1>. QED
  BY <1>1, <1>2

\* Whoever takes a heartbeat of m back is a heartbeat of m.
Kept ==
  \A m \in Members :
    planes'.awareness.lastSeenAt[m] < planes.awareness.lastSeenAt[m] => updatePresence(m)

LEMMA HeartKept ==
  ASSUME HeartInv, [Next]_vars
  PROVE  HeartInv' /\ Kept
<1>. /\ StoreInv /\ planes \in Planes /\ base \in [Calls -> Planes] /\ wire \subseteq Command
     /\ now \in Nat /\ InOrder(planes)
     /\ Beats(planes, planes, now)
  BY LedgerAssumption DEF HeartInv, StoreInv, TypeOK, LedgerTypeOK, LedgerInv, HotPathReady,
     InOrder, Times
<1>. \A cmd \in wire : cmd.call \in Calls /\ cmd.expected \in Planes /\ cmd.next \in Planes
  BY DEF Command
<1>0. StoreInv'
  BY StoreStep
<1>. planes' \in Planes
  BY <1>0 DEF StoreInv, TypeOK, LedgerTypeOK
<1>. \A m \in Members : planes'.awareness.lastSeenAt[m] \in Nat
  BY PlanesParts DEF Awareness
<1>. \A m \in Members : planes.awareness.lastSeenAt[m] \in Nat
  BY PlanesParts DEF Awareness
<1>9. planes'.awareness = planes.awareness => Kept
  BY DEF Kept
\* The room's own beats, and what was read or prepared before stays as it was.
<1>1. ASSUME Beats(planes, planes', now), now' = now, base' = base, wire' \subseteq wire
      PROVE  HeartInv' /\ Kept
  <2>1. Beats(planes', planes', now)
    BY <1>1 DEF Beats
  <2>2. Kept
    BY <1>1 DEF Beats, Kept
  <2>. QED
    BY <1>0, <1>1, <2>1, <2>2 DEF HeartInv
<1>2. ASSUME NEW c \in Calls, CallStep(c) \/ LoseReply(c) \/ LoseReceipt(c)
      PROVE  HeartInv' /\ Kept
  <2>1. planes' = planes /\ now' = now
    BY <1>2 DEF CallStep, LoseReply, LoseReceipt, WatchPlanes, ReadPlanes, FindReceipt, Reject,
       SwitchToWatched, ReturnUnchanged, SendCommit, Return, LoseRace, ReturnReplayed, GiveUp,
       RecoverReceipt, RecoverNothing, redisVars
  <2>2. CASE ReadPlanes(c)
    <3>1. base' = [base EXCEPT ![c] = planes] /\ wire' = wire
      BY <2>2 DEF ReadPlanes
    <3>. QED
      BY <1>0, <1>9, <2>1, <3>1 DEF HeartInv
  <2>3. CASE SendCommit(c)
    <3>. DEFINE sentNow == [call |-> c, attempt |-> attempt[c], kind |-> kindOf(c),
                            expected |-> base[c],
                            next |-> IF kindOf(c) = "receipt" THEN base[c] ELSE next(c)]
    <3>1. wire' = wire \cup {sentNow} /\ base' = base
      BY <2>3 DEF SendCommit
    <3>2. InOrder(base[c]) /\ Beats(base[c], base[c], now)
      BY DEF HeartInv, StoreInv, ReadsOrdered
    <3>3. Beats(base[c], next(c), now)
      BY <3>2, MutatedBeats DEF next
    <3>4. Beats(sentNow.expected, sentNow.next, now)
      BY <3>2, <3>3
    <3>. HIDE DEF sentNow
    <3>. QED
      BY <1>0, <1>9, <2>1, <3>1, <3>4 DEF HeartInv
  <2>4. CASE WatchPlanes(c) \/ SwitchToWatched(c) \/ LoseReply(c) \/ Ends(c) \/ Repeats(c)
    <3>1. base' = base /\ wire' = wire
      BY <2>4 DEF WatchPlanes, SwitchToWatched, LoseReply, Ends, Repeats
    <3>. QED
      BY <1>1, <2>1, <3>1
  <2>. QED
    BY <1>2, <2>2, <2>3, <2>4, CallSteps
<1>3. ASSUME NEW cmd \in wire, Store(cmd)
      PROVE  HeartInv' /\ Kept
  <2>1. planes = cmd.expected
    BY <1>3 DEF Store, verdict, StoreInv, WatchHolds, Exec
  <2>2. planes' = cmd.next
    BY <1>3, <2>1, WriteWhole DEF Store
  <2>3. Beats(planes, planes', now)
    BY <2>1, <2>2 DEF HeartInv
  <2>. QED
    BY <1>1, <1>3, <2>3 DEF Store
<1>4. ASSUME NEW cmd \in wire, Refuse(cmd) \/ Drop(cmd)
      PROVE  HeartInv' /\ Kept
  <2>1. planes' = planes /\ now' = now /\ base' = base /\ wire' \subseteq wire
    BY <1>4 DEF Refuse, Drop, redisVars
  <2>. QED
    BY <1>1, <2>1
<1>5. ASSUME NEW m \in Members, updatePresence(m)
      PROVE  HeartInv' /\ Kept
  <2>0. PICK at \in 0 .. now :
          \E seen \in seenAfter(planes, m, at) : planes' = presenceCommit(planes, m, seen, at)
    BY <1>5 DEF updatePresence
  <2>1. PICK seen \in seenAfter(planes, m, at) : planes' = presenceCommit(planes, m, seen, at)
    BY <2>0
  <2>2. planes'.awareness.lastSeenAt = [planes.awareness.lastSeenAt EXCEPT ![m] = seen]
    <3>1. heartbeat(planes.awareness, m, seen).lastSeenAt
            = [planes.awareness.lastSeenAt EXCEPT ![m] = seen]
      BY PlanesParts DEF heartbeat, Awareness
    <3>. QED
      BY <2>1, <3>1 DEF presenceCommit, liveAwareness
  <2>3. planes.awareness.lastSeenAt \in [Members -> Nat]
    BY PlanesParts DEF Awareness
  <2>4. seen \in Nat /\ seen <= now
    BY DEF Beats, seenAfter, Max2
  <2>5. Beats(planes', planes', now)
    BY <2>2, <2>3, <2>4 DEF Beats
  <2>6. Kept
    BY <1>5, <2>2, <2>3 DEF Kept
  <2>. QED
    BY <1>0, <1>5, <2>5, <2>6 DEF HeartInv, updatePresence, callVars
<1>6. ASSUME NEW r \in Readers, ReadStep(r)
      PROVE  HeartInv' /\ Kept
  <2>1. now' = now /\ base' = base /\ wire' = wire
    BY <1>6 DEF ReadStep, ReadRoom, FetchPlanes, WatchLivePlanes, ReadLivePlanes,
       RefetchDocument, PersistDerived, LosePersistRace, callVars
  <2>2. planes'.awareness.lastSeenAt = planes.awareness.lastSeenAt
    <3>1. CASE PersistDerived(r)
      BY <3>1, PersistIsElapse DEF Elapse, reconcileDerivedState, liveAwareness
    <3>2. CASE ~PersistDerived(r)
      BY <1>6, <3>2 DEF ReadStep, ReadRoom, FetchPlanes, WatchLivePlanes, ReadLivePlanes,
         RefetchDocument, LosePersistRace, redisVars
    <3>. QED
      BY <3>1, <3>2
  <2>3. Beats(planes, planes', now)
    BY <2>2 DEF Beats
  <2>. QED
    BY <1>1, <2>1, <2>3
<1>7. CASE Tick
  <2>1. now' = now + 1 /\ planes' = planes /\ base' = base /\ wire' = wire
    BY <1>7 DEF Tick, redisVars, callVars
  <2>2. /\ Beats(planes, planes, now')
        /\ \A c \in Calls : Beats(base[c], base[c], now')
        /\ \A cmd \in wire : Beats(cmd.expected, cmd.next, now')
    BY <2>1, BeatsLater DEF HeartInv
  <2>. QED
    BY <1>0, <1>9, <2>1, <2>2 DEF HeartInv
<1>8. CASE UNCHANGED vars
  <2>1. planes' = planes /\ now' = now /\ base' = base /\ wire' = wire
    BY <1>8 DEF vars, redisVars, callVars
  <2>. QED
    BY <1>1, <2>1
<1>. QED
  BY <1>2, <1>3, <1>4, <1>5, <1>6, <1>7, <1>8 DEF Next, RedisStep

\* Written whole, the room keeps every heartbeat but one that an older one of
\* the same member replaces.
THEOREM HeartbeatsKept == Spec => HeartbeatsAreKept
<1>1. HeartInv /\ [Next]_vars => HeartInv'
  BY HeartKept
<1>2. HeartInv /\ [Next]_vars =>
        [\A m \in Members :
           planes'.awareness.lastSeenAt[m] < planes.awareness.lastSeenAt[m] => updatePresence(m)]_vars
  BY HeartKept DEF Kept
<1>. QED
  BY <1>1, <1>2, HeartInitInv, PTL DEF Spec, HeartbeatsAreKept

=============================================================================
