----------------------------- MODULE BlobRegistry -----------------------------
(***************************************************************************)
(* The registry of private images: one record per pathname, and the Redis  *)
(* scripts that reserve, commit, claim for cleanup, release and delete it. *)
(* Each operator is what one script makes of a record; the capacity        *)
(* counters change in the same script by what the record holds before and  *)
(* after.                                                                  *)
(*                                                                         *)
(* createdAt and etag are moments on one clock per pathname, so an etag    *)
(* smaller than createdAt is that of a blob older than the reservation;    *)
(* zero is null.  One room: its counters and the deployment's are changed  *)
(* by the same amounts in the same scripts.                                *)
(***************************************************************************)
EXTENDS Integers, FiniteSets

CONSTANTS
  Paths,
  Participants,
  OwnerOf,           \* the participant whose client chose the pathname
  Cleaners,          \* invocations of the cleanup route that can overlap
  ReservationBytes,
  Limits             \* [bytes, assets, pending]

Nobody == "nobody"
Gone == "gone"       \* the claim of an invocation that is over: its lease ends
Holders == Cleaners \cup {Nobody, Gone}

ASSUME RegistryAssumption ==
  /\ OwnerOf \in [Paths -> Participants]
  /\ Nobody \notin Cleaners /\ Gone \notin Cleaners
  /\ ReservationBytes \in Nat \ {0}
  /\ Limits \in [bytes : Nat, assets : Nat, pending : Nat]

Absent == [status |-> "none", createdAt |-> 0, etag |-> 0, size |-> 0, claim |-> Nobody]

isCommitted(r) == r.status \in {"committed", "cleanup-claimed"}
isReferenceEligible(r) == r.status = "committed"

-----------------------------------------------------------------------------
(* Capacity.                                                               *)

NoUsage == [reservedBytes |-> 0, reservedCount |-> 0, committedBytes |-> 0, committedCount |-> 0]

\* Faulty variant: a claimed record is given back as a reservation.
ShareForgetsClaims(r) ==
  CASE r.status = "none"      -> NoUsage
    [] r.status = "committed" -> [NoUsage EXCEPT !.committedBytes = r.size, !.committedCount = 1]
    [] OTHER -> [NoUsage EXCEPT !.reservedBytes = ReservationBytes, !.reservedCount = 1]

Share(r) ==
  CASE r.status = "none"     -> NoUsage
    [] r.status = "reserved" -> [NoUsage EXCEPT !.reservedBytes = ReservationBytes, !.reservedCount = 1]
    [] OTHER                 -> [NoUsage EXCEPT !.committedBytes = r.size, !.committedCount = 1]

\* Faulty variant: every deletion gives back a reservation.
RecountedAsReservation(usage, r, s) ==
  [field \in DOMAIN usage |->
     IF s.status = "none"
       THEN usage[field] - Share([r EXCEPT !.status = "reserved"])[field]
       ELSE usage[field] - Share(r)[field] + Share(s)[field]]

\* The counters when record r becomes s.  The scripts also refuse to take
\* more than a counter holds, which CapacityIsAccounted makes impossible.
Recounted(usage, r, s) ==
  [field \in DOMAIN usage |-> usage[field] - Share(r)[field] + Share(s)[field]]

pendingReservations(records, u) ==
  Cardinality({p \in Paths : records[p].status = "reserved" /\ OwnerOf[p] = u})

canReserve(usage, records, p) ==
  /\ usage.reservedBytes + usage.committedBytes + ReservationBytes <= Limits.bytes
  /\ usage.reservedCount + usage.committedCount + 1 <= Limits.assets
  /\ pendingReservations(records, OwnerOf[p]) + 1 <= Limits.pending

-----------------------------------------------------------------------------
(* The scripts.                                                            *)

reserved(now) == [Absent EXCEPT !.status = "reserved", !.createdAt = now]

\* Faulty variant: a late callback commits a claimed record again.
canFinalizeClaimed(r, blob) ==
  r.status \in {"reserved", "cleanup-claimed"} /\ blob.size \in 1..ReservationBytes

canFinalize(r, blob) == r.status = "reserved" /\ blob.size \in 1..ReservationBytes

finalized(r, blob) ==
  [r EXCEPT !.status = "committed", !.etag = blob.etag, !.size = blob.size]

\* Faulty variant: the claim of an invocation that is over stays refused.
canClaimOnce(r, etag, c) ==
  /\ isCommitted(r)
  /\ r.etag = etag
  /\ r.status = "cleanup-claimed" => r.claim = c

\* A claim is refused while the claim of another invocation has its lease.
canClaim(r, etag, c) ==
  /\ isCommitted(r)
  /\ r.etag = etag
  /\ r.status = "cleanup-claimed" => r.claim \in {c, Gone}

disposition(r, c) ==
  CASE r.status = "committed" -> "fresh"
    [] r.claim = c            -> "resumed"
    [] OTHER                  -> "recovered"

claimed(r, c) == [r EXCEPT !.status = "cleanup-claimed", !.claim = c]

holdsClaim(r, c) == r.status = "cleanup-claimed" /\ r.claim = c

released(r) == [r EXCEPT !.status = "committed", !.claim = Nobody]

\* The reservation an earlier reading saw, and no later one of its pathname.
isReservation(r, createdAt) == r.status = "reserved" /\ r.createdAt = createdAt
===============================================================================
