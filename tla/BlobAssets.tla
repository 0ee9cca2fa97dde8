------------------------------ MODULE BlobAssets ------------------------------
(***************************************************************************)
(* The life of an uploaded image: a request reserves its pathname and      *)
(* issues an upload capability, the browser puts the blob, a callback or a *)
(* request commits the registration, edits place and remove references to  *)
(* it on the canvas, and the daily cleanup deletes what nothing uses.      *)
(* The registry, the room and the provider's store are three stores with   *)
(* no common transaction; an invocation of the cleanup may be stopped      *)
(* after any call.                                                         *)
(*                                                                         *)
(* External: the provider, which refuses to overwrite a blob and to delete *)
(* one whose etag differs from ifMatch.                                    *)
(***************************************************************************)
EXTENDS BlobRegistry, FiniteSetsExt

CONSTANTS
  Sizes,          \* sizes of an upload: the capability's maximum is ReservationBytes
  MaxStamp,       \* bound: reservations and uploads of one pathname
  MaxRequests,    \* bound: uploads, finalizations and edits under way at once
  MaxFaults       \* bound: failed calls and stopped invocations

ASSUME AssetAssumption ==
  /\ Sizes \subseteq 1..ReservationBytes
  /\ MaxStamp \in [Paths -> Nat] /\ MaxRequests \in Nat /\ MaxFaults \in Nat

VARIABLES
  records,     \* the registry
  usage,       \* its capacity counters
  aged,        \* pathnames whose record is due for cleanup
  blobs,       \* the provider's store
  agedBlobs,   \* blobs the provider has had for the retention time
  stamp,       \* the clock of each pathname
  caps,        \* pathnames an upload capability was issued for
  asks,        \* upload requests under way
  finals,      \* finalizations that have read the blob's metadata
  refs,        \* pathnames the room's document refers to
  edits,       \* edits that have read the guard of the image they introduce
  run,         \* the invocation of each cleaner; its room is {} until read
  unproven,    \* history: recovered claims released without looking at the blob
  faults

vars == <<records, usage, aged, blobs, agedBlobs, stamp, caps, asks, finals, refs, edits, run,
          unproven, faults>>

NoBlob == [etag |-> 0, size |-> 0]
NoItem == [path |-> "none", status |-> "none", createdAt |-> 0, etag |-> 0, size |-> 0]
IdleRun == [at |-> "idle", work |-> {}, claims |-> {}, room |-> {}, item |-> NoItem,
            meta |-> NoBlob]

underWay == Cardinality(asks) + Cardinality(finals) + Cardinality(edits)

Item(p, r) ==
  [path |-> p, status |-> r.status, createdAt |-> r.createdAt, etag |-> r.etag, size |-> r.size]

Init ==
  /\ records = [p \in Paths |-> Absent]
  /\ usage = NoUsage
  /\ aged = {}
  /\ blobs = [p \in Paths |-> NoBlob]
  /\ agedBlobs = {}
  /\ stamp = [p \in Paths |-> 0]
  /\ caps = {}
  /\ asks = {}
  /\ finals = {}
  /\ refs = {}
  /\ edits = {}
  /\ run = [c \in Cleaners |-> IdleRun]
  /\ unproven = {}
  /\ faults = 0

-----------------------------------------------------------------------------
(* Writes shared by the actions: a record with its counters, and a blob.   *)

Write(p, r) ==
  /\ records' = [records EXCEPT ![p] = r]
  /\ usage' = Recounted(usage, records[p], r)

Keep == UNCHANGED <<records, usage, aged, unproven>>

DeleteRegistration(p) ==
  /\ Write(p, Absent)
  /\ aged' = aged \ {p}
  /\ unproven' = unproven \ {p}

FinalizeRegistration(p, blob) ==
  IF canFinalize(records[p], blob)
    THEN /\ Write(p, finalized(records[p], blob))
         /\ aged' = aged \ {p}
         /\ UNCHANGED unproven
    ELSE Keep

\* deletePrivateBlob: nothing happens to a blob with another etag.
deleteRefused(p, etag) == blobs[p].etag \notin {0, etag}

DeleteBlob(p) ==
  /\ blobs' = [blobs EXCEPT ![p] = NoBlob]
  /\ agedBlobs' = agedBlobs \ {p}

-----------------------------------------------------------------------------
(* Uploads.                                                                *)

\* The request begins by listing the reservations that are due.
AskUpload(p) ==
  /\ underWay < MaxRequests
  /\ asks' = asks \cup
       {[path |-> p, at |-> "reclaim", created |-> FALSE, createdAt |-> 0,
         stale |-> {<<q, records[q].createdAt>> :
                      q \in {x \in aged : records[x].status = "reserved"}}]}
  /\ UNCHANGED <<records, usage, aged, blobs, agedBlobs, stamp, caps, finals, refs, edits, run,
                 unproven, faults>>

\* The deletion throws, and the request fails, if the record changed since.
ReclaimExpired(a) ==
  /\ a.at = "reclaim"
  /\ \E s \in a.stale :
       LET p == s[1]
           rest == [a EXCEPT !.stale = a.stale \ {s}]
       IN \/ /\ records[p].status = "none"
             /\ asks' = (asks \ {a}) \cup {rest}
             /\ Keep
          \/ /\ isReservation(records[p], s[2])
             /\ asks' = (asks \ {a}) \cup {rest}
             /\ DeleteRegistration(p)
          \/ /\ records[p].status # "none"
             /\ ~isReservation(records[p], s[2])
             /\ asks' = asks \ {a}
             /\ Keep
  /\ UNCHANGED <<blobs, agedBlobs, stamp, caps, finals, refs, edits, run, faults>>

Reserve(a) ==
  LET p == a.path
      granted(created, createdAt) ==
        (asks \ {a}) \cup
          {[a EXCEPT !.at = "issue", !.created = created, !.createdAt = createdAt]}
  IN /\ a.at = "reclaim" /\ a.stale = {}
     /\ \/ /\ records[p].status # "none"
           /\ asks' = granted(FALSE, records[p].createdAt)
           /\ Keep /\ UNCHANGED stamp
        \/ /\ records[p].status = "none" /\ canReserve(usage, records, p)
           /\ stamp[p] < MaxStamp[p]
           /\ stamp' = [stamp EXCEPT ![p] = @ + 1]
           /\ Write(p, reserved(stamp'[p]))
           /\ asks' = granted(TRUE, stamp'[p])
           /\ UNCHANGED <<aged, unproven>>
        \/ /\ records[p].status = "none" /\ ~canReserve(usage, records, p)
           /\ asks' = asks \ {a}
           /\ Keep /\ UNCHANGED stamp
     /\ UNCHANGED <<blobs, agedBlobs, caps, finals, refs, edits, run, faults>>

Issue(a) ==
  /\ a.at = "issue"
  /\ caps' = caps \cup {a.path}
  /\ asks' = asks \ {a}
  /\ UNCHANGED <<records, usage, aged, blobs, agedBlobs, stamp, finals, refs, edits, run,
                 unproven, faults>>

\* A request whose capability cannot be issued takes back what it reserved.
IssueFails(a) ==
  /\ a.at = "issue" /\ faults < MaxFaults
  /\ faults' = faults + 1
  /\ asks' = asks \ {a}
  /\ IF a.created /\ isReservation(records[a.path], a.createdAt)
       THEN DeleteRegistration(a.path)
       ELSE Keep
  /\ UNCHANGED <<blobs, agedBlobs, stamp, caps, finals, refs, edits, run>>

\* A capability is good for five minutes; it may also never be used.
PutBlob(p) ==
  /\ p \in caps /\ blobs[p] = NoBlob /\ stamp[p] < MaxStamp[p]
  /\ stamp' = [stamp EXCEPT ![p] = @ + 1]
  /\ \E size \in Sizes : blobs' = [blobs EXCEPT ![p] = [etag |-> stamp'[p], size |-> size]]
  /\ UNCHANGED <<records, usage, aged, agedBlobs, caps, asks, finals, refs, edits, run,
                 unproven, faults>>

\* finalizePrivateBlobAsset, called back by the provider or by the client.
HeadForFinalize(p) ==
  /\ blobs[p] # NoBlob /\ underWay < MaxRequests
  /\ finals' = finals \cup {[path |-> p, blob |-> blobs[p]]}
  /\ UNCHANGED <<records, usage, aged, blobs, agedBlobs, stamp, caps, asks, refs, edits, run,
                 unproven, faults>>

Finalize(f) ==
  /\ finals' = finals \ {f}
  /\ FinalizeRegistration(f.path, f.blob)
  /\ UNCHANGED <<blobs, agedBlobs, stamp, caps, asks, refs, edits, run, faults>>

-----------------------------------------------------------------------------
(* The canvas.                                                             *)

\* An edit that introduces a reference reads the registration as its guard.
ReadGuard(p) ==
  /\ p \notin refs /\ isReferenceEligible(records[p]) /\ underWay < MaxRequests
  /\ edits' = edits \cup {[path |-> p, expected |-> records[p]]}
  /\ UNCHANGED <<records, usage, aged, blobs, agedBlobs, stamp, caps, asks, finals, refs, run,
                 unproven, faults>>

\* Faulty variant: the guard is not compared when the room is written.
CommitReferenceUnguarded(e) ==
  /\ edits' = edits \ {e}
  /\ refs' = refs \cup {e.path}
  /\ UNCHANGED <<records, usage, aged, blobs, agedBlobs, stamp, caps, asks, finals, run,
                 unproven, faults>>

\* The room is written only if the registration is still the one read.
CommitReference(e) ==
  /\ edits' = edits \ {e}
  /\ refs' = IF records[e.path] = e.expected THEN refs \cup {e.path} ELSE refs
  /\ UNCHANGED <<records, usage, aged, blobs, agedBlobs, stamp, caps, asks, finals, run,
                 unproven, faults>>

RemoveReference(p) ==
  /\ p \in refs
  /\ refs' = refs \ {p}
  /\ UNCHANGED <<records, usage, aged, blobs, agedBlobs, stamp, caps, asks, finals, edits, run,
                 unproven, faults>>

-----------------------------------------------------------------------------
(* Time: a reservation passes 15 minutes, or a committed record its next   *)
(* check; a blob passes the retention of a day.                            *)

RecordAges(p) ==
  /\ records[p].status # "none" /\ p \notin aged
  /\ aged' = aged \cup {p}
  /\ UNCHANGED <<records, usage, blobs, agedBlobs, stamp, caps, asks, finals, refs, edits, run,
                 unproven, faults>>

BlobAges(p) ==
  /\ blobs[p] # NoBlob /\ p \notin agedBlobs
  /\ agedBlobs' = agedBlobs \cup {p}
  /\ UNCHANGED <<records, usage, aged, blobs, stamp, caps, asks, finals, refs, edits, run,
                 unproven, faults>>

-----------------------------------------------------------------------------
(* cleanupPrivateBlobAssets, one call of another store per step.           *)

others == <<stamp, caps, asks, finals, refs, edits>>

Goes(c, r) == run' = [run EXCEPT ![c] = r]

\* The item at hand is finished, or given up when a call throws.
NextItem(c) ==
  Goes(c, [run[c] EXCEPT !.item = NoItem, !.meta = NoBlob,
             !.at = IF @ \in {"head", "settle", "purge"} THEN "candidates" ELSE "judge"])

reservations(c) == {i \in run[c].work : i.status = "reserved"}

ListCandidates(c) ==
  /\ run[c].at = "idle"
  /\ Goes(c, [IdleRun EXCEPT !.at = "candidates",
              !.work = {Item(p, records[p]) : p \in {q \in aged : records[q].status # "none"}}])
  /\ Keep /\ UNCHANGED <<blobs, agedBlobs, others, faults>>

\* The room is read at the first reservation and kept for the others.
ConsiderReservation(c) ==
  /\ run[c].at = "candidates"
  /\ \E i \in reservations(c) :
       Goes(c, [run[c] EXCEPT !.at = "head", !.work = @ \ {i}, !.item = i,
                              !.room = IF @ = {} THEN {refs} ELSE @])
  /\ Keep /\ UNCHANGED <<blobs, agedBlobs, others, faults>>

HeadReservation(c) ==
  /\ run[c].at = "head"
  /\ Goes(c, [run[c] EXCEPT !.at = "settle", !.meta = blobs[run[c].item.path]])
  /\ Keep /\ UNCHANGED <<blobs, agedBlobs, others, faults>>

SettleReservation(c) ==
  LET i == run[c].item
      p == i.path
      meta == run[c].meta
      same == isReservation(records[p], i.createdAt)
  IN /\ run[c].at = "settle"
     /\ \/ /\ meta # NoBlob /\ p \in UNION run[c].room
           /\ FinalizeRegistration(p, meta)
           /\ NextItem(c)
        \/ /\ meta # NoBlob => p \notin UNION run[c].room
           /\ ~same
           /\ Keep /\ NextItem(c)
        \/ /\ meta = NoBlob /\ same
           /\ DeleteRegistration(p)
           /\ NextItem(c)
        \/ /\ meta # NoBlob /\ p \notin UNION run[c].room /\ same
           /\ DeleteRegistration(p)
           /\ Goes(c, [run[c] EXCEPT !.at = "purge"])
     /\ UNCHANGED <<blobs, agedBlobs, others, faults>>

PurgeReservation(c) ==
  LET p == run[c].item.path
  IN /\ run[c].at = "purge"
     /\ IF deleteRefused(p, run[c].meta.etag) THEN UNCHANGED <<blobs, agedBlobs>> ELSE DeleteBlob(p)
     /\ NextItem(c)
     /\ Keep /\ UNCHANGED <<others, faults>>

Claim(c) ==
  /\ run[c].at = "candidates" /\ reservations(c) = {}
  /\ \E i \in run[c].work :
       LET p == i.path
           r == records[p]
       IN IF canClaim(r, i.etag, c)
            THEN /\ Write(p, claimed(r, c))
                 /\ Goes(c, [run[c] EXCEPT !.work = @ \ {i},
                         !.claims = @ \cup {[Item(p, r) EXCEPT !.status = disposition(r, c)]}])
                 /\ UNCHANGED <<aged, unproven>>
            ELSE Keep /\ Goes(c, [run[c] EXCEPT !.work = @ \ {i}])
  /\ UNCHANGED <<blobs, agedBlobs, others, faults>>

\* Only after every candidate is claimed.
ReadRoom(c) ==
  /\ run[c].at = "candidates" /\ run[c].work = {} /\ run[c].claims # {}
  /\ Goes(c, [run[c] EXCEPT !.at = "judge", !.room = {refs}])
  /\ Keep /\ UNCHANGED <<blobs, agedBlobs, others, faults>>

RoomUnreadable(c) ==
  /\ run[c].at = "candidates" /\ run[c].work = {} /\ run[c].claims # {}
  /\ faults < MaxFaults /\ faults' = faults + 1
  /\ Goes(c, [run[c] EXCEPT !.at = "release", !.room = {}])
  /\ Keep /\ UNCHANGED <<blobs, agedBlobs, others>>

ReleaseUnread(c) ==
  /\ run[c].at = "release"
  /\ \E k \in run[c].claims :
       /\ Goes(c, [run[c] EXCEPT !.claims = @ \ {k}])
       /\ IF holdsClaim(records[k.path], c)
            THEN /\ Write(k.path, released(records[k.path]))
                 /\ aged' = aged \ {k.path}
                 /\ unproven' = IF k.status = "recovered" THEN unproven \cup {k.path} ELSE unproven
            ELSE Keep
  /\ UNCHANGED <<blobs, agedBlobs, others, faults>>

\* A claim recovered from another invocation: the blob may be gone already.
Examine(c) ==
  /\ run[c].at = "judge"
  /\ \E k \in run[c].claims :
       Goes(c, [run[c] EXCEPT !.at = "decide", !.claims = @ \ {k}, !.item = k,
                              !.meta = IF k.status = "recovered" THEN blobs[k.path] ELSE NoBlob])
  /\ Keep /\ UNCHANGED <<blobs, agedBlobs, others, faults>>

isProven(c) ==
  run[c].meta = [etag |-> run[c].item.etag, size |-> run[c].item.size]

Decide(c) ==
  LET i == run[c].item
      p == i.path
      referenced == p \in UNION run[c].room
      recovered == i.status = "recovered"
      mine == holdsClaim(records[p], c)
  IN /\ run[c].at = "decide"
     /\ \/ /\ referenced /\ (recovered => isProven(c))
           /\ IF mine THEN /\ Write(p, released(records[p]))
                           /\ aged' = aged \ {p}
                           /\ UNCHANGED unproven
                      ELSE Keep
           /\ NextItem(c)
        \/ /\ recovered /\ ~isProven(c) /\ (~referenced => run[c].meta # NoBlob)
           /\ Keep /\ NextItem(c)
        \/ /\ ~referenced /\ recovered /\ run[c].meta = NoBlob
           /\ IF mine /\ records[p].etag = i.etag THEN DeleteRegistration(p) ELSE Keep
           /\ NextItem(c)
        \/ /\ ~referenced /\ (recovered => isProven(c))
           /\ IF canClaim(records[p], i.etag, c)
                THEN /\ Write(p, claimed(records[p], c))
                     /\ Goes(c, [run[c] EXCEPT !.at = "delete"])
                     /\ UNCHANGED <<aged, unproven>>
                ELSE Keep /\ NextItem(c)
     /\ UNCHANGED <<blobs, agedBlobs, others, faults>>

DeleteClaimed(c) ==
  LET i == run[c].item
  IN /\ run[c].at = "delete"
     /\ IF deleteRefused(i.path, i.etag)
          THEN NextItem(c) /\ UNCHANGED <<blobs, agedBlobs>>
          ELSE DeleteBlob(i.path) /\ Goes(c, [run[c] EXCEPT !.at = "forget"])
     /\ Keep /\ UNCHANGED <<others, faults>>

Forget(c) ==
  LET i == run[c].item
  IN /\ run[c].at = "forget"
     /\ IF holdsClaim(records[i.path], c) /\ records[i.path].etag = i.etag
          THEN DeleteRegistration(i.path)
          ELSE Keep
     /\ NextItem(c)
     /\ UNCHANGED <<blobs, agedBlobs, others, faults>>

\* Blobs no record names, of uploads whose reservation was reclaimed.
ListBlobs(c) ==
  /\ run[c].at \in {"candidates", "judge", "release"}
  /\ run[c].work = {} /\ run[c].claims = {}
  /\ Goes(c, [IdleRun EXCEPT !.at = "listed",
              !.work = {[NoItem EXCEPT !.path = p, !.etag = blobs[p].etag] : p \in agedBlobs}])
  /\ Keep /\ UNCHANGED <<blobs, agedBlobs, others, faults>>

GetRegistrations(c) ==
  /\ run[c].at = "listed"
  /\ Goes(c, [run[c] EXCEPT !.at = "sweep",
                            !.work = {i \in @ : records[i.path].status = "none"}])
  /\ Keep /\ UNCHANGED <<blobs, agedBlobs, others, faults>>

SweepBlob(c) ==
  /\ run[c].at = "sweep"
  /\ \E i \in run[c].work :
       /\ Goes(c, [run[c] EXCEPT !.work = @ \ {i}])
       /\ IF deleteRefused(i.path, i.etag) THEN UNCHANGED <<blobs, agedBlobs>> ELSE DeleteBlob(i.path)
  /\ Keep /\ UNCHANGED <<others, faults>>

\* The claims an invocation leaves are recovered once their lease is over:
\* an invocation lasts a minute at most, a lease five.
Abandons(c) ==
  /\ records' = [p \in Paths |-> IF holdsClaim(records[p], c)
                                   THEN [records[p] EXCEPT !.claim = Gone] ELSE records[p]]
  /\ Goes(c, IdleRun)
  /\ UNCHANGED <<usage, aged, blobs, agedBlobs, unproven, others>>

EndRun(c) ==
  /\ run[c].at = "sweep" /\ run[c].work = {}
  /\ Abandons(c)
  /\ UNCHANGED faults

-----------------------------------------------------------------------------
(* Faults of the cleanup.                                                  *)

Stopped(c) ==
  /\ run[c].at # "idle" /\ faults < MaxFaults
  /\ faults' = faults + 1
  /\ Abandons(c)

\* The call for the item at hand throws before it has an effect.
CallFails(c) ==
  /\ run[c].item # NoItem /\ faults < MaxFaults
  /\ faults' = faults + 1
  /\ NextItem(c)
  /\ Keep /\ UNCHANGED <<blobs, agedBlobs, others>>

\* The claim is made and its answer is lost: the invocation does not use it.
ClaimAnswerLost(c) ==
  /\ run[c].at = "candidates" /\ reservations(c) = {} /\ faults < MaxFaults
  /\ faults' = faults + 1
  /\ \E i \in run[c].work :
       /\ canClaim(records[i.path], i.etag, c)
       /\ Write(i.path, claimed(records[i.path], c))
       /\ Goes(c, [run[c] EXCEPT !.work = @ \ {i}])
  /\ UNCHANGED <<aged, unproven, blobs, agedBlobs, others>>

\* The provider deletes the blob and its answer is lost.
DeleteAnswerLost(c) ==
  /\ run[c].at = "delete" /\ faults < MaxFaults
  /\ ~deleteRefused(run[c].item.path, run[c].item.etag)
  /\ faults' = faults + 1
  /\ DeleteBlob(run[c].item.path)
  /\ NextItem(c)
  /\ Keep /\ UNCHANGED others

-----------------------------------------------------------------------------
Upload ==
  \/ \E p \in Paths : AskUpload(p) \/ PutBlob(p) \/ HeadForFinalize(p)
  \/ \E a \in asks : ReclaimExpired(a) \/ Reserve(a) \/ Issue(a) \/ IssueFails(a)
  \/ \E f \in finals : Finalize(f)

Canvas ==
  \/ \E p \in Paths : ReadGuard(p) \/ RemoveReference(p)
  \/ \E e \in edits : CommitReference(e)

Cleanup(c) ==
  \/ ListCandidates(c) \/ ConsiderReservation(c) \/ HeadReservation(c) \/ SettleReservation(c)
  \/ PurgeReservation(c) \/ Claim(c) \/ ReadRoom(c) \/ ReleaseUnread(c) \/ Examine(c)
  \/ Decide(c) \/ DeleteClaimed(c) \/ Forget(c) \/ ListBlobs(c) \/ GetRegistrations(c)
  \/ SweepBlob(c) \/ EndRun(c)

Trouble(c) ==
  RoomUnreadable(c) \/ Stopped(c) \/ CallFails(c) \/ ClaimAnswerLost(c) \/ DeleteAnswerLost(c)

Ages(p) == RecordAges(p) \/ BlobAges(p)

Next ==
  \/ Upload \/ Canvas
  \/ \E c \in Cleaners : Cleanup(c) \/ Trouble(c)
  \/ \E p \in Paths : Ages(p)

\* The cleanup is started every day and its calls return; time passes.
Spec ==
  /\ Init /\ [][Next]_vars
  /\ \A c \in Cleaners : WF_vars(Cleanup(c))
  /\ \A p \in Paths : WF_vars(RecordAges(p)) /\ WF_vars(BlobAges(p))

-----------------------------------------------------------------------------
(* Properties.                                                             *)

Records ==
  [status : {"none", "reserved", "committed", "cleanup-claimed"}, createdAt : Nat, etag : Nat,
   size : Nat, claim : Holders]

\* Types of the registry, and of the counters: none is ever negative.
AssetsTypeOK ==
  /\ records \in [Paths -> Records]
  /\ usage \in [DOMAIN NoUsage -> Nat]
  /\ blobs \in [Paths -> [etag : Nat, size : Nat]]
  /\ refs \subseteq Paths /\ caps \subseteq Paths
  /\ aged \subseteq Paths /\ agedBlobs \subseteq Paths /\ unproven \subseteq Paths

\* What is counted against the room's capacity is what its records hold, and
\* stays within the limits: no path of an upload leaks capacity.
CapacityIsAccounted ==
  LET held(status) == {p \in Paths : records[p].status \in status}
  IN /\ usage.reservedCount = Cardinality(held({"reserved"}))
     /\ usage.reservedBytes = ReservationBytes * usage.reservedCount
     /\ usage.committedCount = Cardinality(held({"committed", "cleanup-claimed"}))
     /\ usage.committedBytes = MapThenSumSet(LAMBDA p : records[p].size,
                                             held({"committed", "cleanup-claimed"}))
     /\ usage.reservedBytes + usage.committedBytes <= Limits.bytes

isStored(p) == blobs[p] = [etag |-> records[p].etag, size |-> records[p].size]

\* The registration names a blob uploaded under it, and no recovered claim
\* of it was given up unexamined.
isSound(p) == p \notin unproven /\ records[p].etag > records[p].createdAt

\* An edit may introduce a reference only to an image whose blob exists,
\* although the cleanup may have deleted it and lost the answer.
EligibleIsStored ==
  \A p \in Paths : isReferenceEligible(records[p]) /\ isSound(p) => isStored(p)

\* The cleanup never takes from the canvas an image that it shows: neither
\* the registration that lets it be read, nor the blob.
ReferencedIsKept ==
  \A p \in refs : isCommitted(records[p]) /\ (isSound(p) => isStored(p))

\* The claim of an invocation of the cleanup that was stopped.
isLeft(p) == records[p].status = "cleanup-claimed" /\ blobs[p].etag \notin {0, records[p].etag}

\* An image that leaves the canvas for good is deleted, record and blob,
\* although invocations are stopped and calls fail; except that a claim found
\* over another upload is left to an operator.
UnusedIsDeleted ==
  \A p \in Paths :
    <>[](p \notin refs /\ ~isLeft(p)) => <>[](records[p] = Absent /\ blobs[p] = NoBlob)
===============================================================================
