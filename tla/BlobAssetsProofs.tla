--------------------------- MODULE BlobAssetsProofs ---------------------------
(***************************************************************************)
(* The cleanup of private images takes nothing from the canvas, for any    *)
(* images, uploads, edits, overlapping invocations and faults.             *)
(*                                                                         *)
(* The argument has three parts.  A deletion outside a claim names a blob  *)
(* older than the pathname's present reservation (Outlived).  A claimed    *)
(* record is changed by its holder only (Held), and no edit refers to it,  *)
(* so what the holder saw of the room stays true (Sees).  A claim that was *)
(* recovered is given back only with its blob seen, or as unproven.        *)
(*                                                                         *)
(* Second, the counters of the registry are what its records hold.  That   *)
(* takes the sum over a set of records apart first: the fold adds in an    *)
(* order of its own, and every order gives one sum (HeldOneMore).          *)
(***************************************************************************)
EXTENDS BlobAssets, FiniteSetTheorems, TLAPS

-----------------------------------------------------------------------------
(* The invariant.                                                          *)

Stamped == [etag : Nat, size : Nat]

Items ==
  [path : Paths,
   status : {"none", "reserved", "committed", "cleanup-claimed", "fresh", "resumed", "recovered"},
   createdAt : Nat, etag : Nat, size : Nat]

Deciding == {"decide", "delete", "forget"}
Busy == {"head", "settle", "purge"} \cup Deciding

Runs ==
  [at : {"idle", "candidates", "judge", "release", "listed", "sweep"} \cup Busy,
   work : SUBSET Items, claims : SUBSET Items, room : SUBSET SUBSET Paths,
   item : Items \cup {NoItem}, meta : Stamped]

StoresOK ==
  /\ records \in [Paths -> Records] /\ blobs \in [Paths -> Stamped] /\ stamp \in [Paths -> Nat]
  /\ refs \subseteq Paths /\ aged \subseteq Paths /\ agedBlobs \subseteq Paths

RequestsOK ==
  /\ asks \subseteq [path : Paths, at : {"reclaim", "issue"}, created : BOOLEAN,
                     createdAt : Nat, stale : SUBSET (Paths \X Nat)]
  /\ finals \subseteq [path : Paths, blob : Stamped]
  /\ edits \subseteq [path : Paths, expected : {r \in Records : r.status = "committed"}]

\* One pathname: its clock, and what the two safety properties say of it.
PathOK(p) ==
  /\ blobs[p].etag <= stamp[p] /\ records[p].createdAt <= stamp[p]
  /\ isReferenceEligible(records[p]) /\ isSound(p) => isStored(p)
  /\ p \in refs => isCommitted(records[p]) /\ (isSound(p) => isStored(p))

\* No reservation of p is as old as an upload of stamp e.
Outlived(p, e) == records[p].status = "none" \/ records[p].createdAt > e

\* A blob that was uploaded under the present reservation is still there.
isCurrent(p, blob) ==
  records[p].status = "reserved" /\ blob.etag > records[p].createdAt => blobs[p] = blob

FinalsOK ==
  \A f \in finals : f.blob.etag <= stamp[f.path] /\ isCurrent(f.path, f.blob)

RunsOK ==
  /\ run \in [Cleaners -> Runs]
  /\ \A c \in Cleaners : IF run[c].at \in Busy THEN run[c].item \in Items ELSE run[c].item = NoItem

\* What an invocation deletes without a claim.
Sweeps(c) ==
  run[c].at \in {"listed", "sweep"} =>
    \A i \in run[c].work :
      /\ i.etag <= stamp[i.path]
      /\ run[c].at = "sweep" => Outlived(i.path, i.etag)

Settles(c) ==
  LET p == run[c].item.path
  IN /\ run[c].at \in {"settle", "purge"} => run[c].meta.etag <= stamp[p]
     /\ run[c].at = "purge" => Outlived(p, run[c].meta.etag)
     /\ run[c].at = "settle" => isCurrent(p, run[c].meta)

\* What it has still to claim is not claimed by it already.
Takes(c) ==
  /\ run[c].at = "idle" => \A p \in Paths : ~holdsClaim(records[p], c)
  /\ run[c].at \notin {"listed", "sweep"} =>
       \A i \in run[c].work :
         /\ ~holdsClaim(records[i.path], c)
         /\ \A j \in run[c].work : i.path = j.path => i = j

Pending(c) == run[c].claims \cup (IF run[c].at \in Deciding THEN {run[c].item} ELSE {})

Held(c) ==
  /\ \A k \in Pending(c) :
       /\ holdsClaim(records[k.path], c)
       /\ records[k.path].etag = k.etag /\ records[k.path].size = k.size
  /\ \A k, l \in run[c].claims : k.path = l.path => k = l
  /\ run[c].at \in Deciding => \A k \in run[c].claims : k.path # run[c].item.path

\* A claim it took from nobody has its blob, and so has one it has proven.
Fresh(c) ==
  /\ \A k \in run[c].claims : k.status # "recovered" /\ isSound(k.path) => isStored(k.path)
  /\ run[c].at = "decide" /\ isSound(run[c].item.path)
       /\ (run[c].item.status = "recovered" => isProven(c))
       => isStored(run[c].item.path)

\* The room it read has every reference to what it still holds.
Sees(c) ==
  /\ run[c].at \in {"judge"} \cup Deciding =>
       \A k \in Pending(c) : k.path \in refs => k.path \in UNION run[c].room
  /\ run[c].at \in {"delete", "forget"} => run[c].item.path \notin UNION run[c].room

RunOK(c) == Sweeps(c) /\ Settles(c) /\ Takes(c) /\ Held(c) /\ Fresh(c) /\ Sees(c)

BlobInv ==
  /\ StoresOK /\ RequestsOK /\ RunsOK
  /\ \A p \in Paths : PathOK(p)
  /\ FinalsOK
  /\ \A c \in Cleaners : RunOK(c)

-----------------------------------------------------------------------------
(* What a step may do to a pathname that others are at work on.            *)

\* Nothing that is on its way becomes a danger, or a mistake.
KeptAt(p) ==
  /\ stamp'[p] \in Nat /\ stamp[p] <= stamp'[p]
  /\ \A e \in Nat : e <= stamp[p] /\ Outlived(p, e) => Outlived(p, e)'
  /\ \A b \in Stamped : b.etag <= stamp[p] /\ isCurrent(p, b) => isCurrent(p, b)'

\* A claim of c is neither made nor touched, and no reference appears.
SparedAt(c, p) ==
  /\ holdsClaim(records[p], c)' => holdsClaim(records[p], c)
  /\ holdsClaim(records[p], c) =>
       /\ records'[p] = records[p]
       /\ p \in refs' => p \in refs
       /\ isSound(p)' => isSound(p)
       /\ isSound(p)' /\ isStored(p) => isStored(p)'

Safe(p) == PathOK(p)' /\ KeptAt(p)

SameAt(p) ==
  /\ records'[p] = records[p] /\ blobs'[p] = blobs[p] /\ stamp'[p] = stamp[p]
  /\ p \in refs' <=> p \in refs
  /\ p \in unproven' <=> p \in unproven

LEMMA SameIsSafe ==
  ASSUME BlobInv, NEW p \in Paths, SameAt(p)
  PROVE  Safe(p) /\ \A c : SparedAt(c, p)
<1>1. PathOK(p) /\ stamp[p] \in Nat
  BY DEF BlobInv, StoresOK
<1>2. PathOK(p)'
  BY <1>1 DEF SameAt, PathOK, isSound, isStored
<1>3. KeptAt(p)
  BY <1>1 DEF SameAt, KeptAt, Outlived, isCurrent
<1>4. \A c : SparedAt(c, p)
  BY DEF SameAt, SparedAt, isSound, isStored
<1> QED
  BY <1>2, <1>3, <1>4 DEF Safe

LEMMA RunTypes ==
  ASSUME BlobInv, NEW c \in Cleaners
  PROVE  /\ run[c] \in Runs /\ RunOK(c)
         /\ run[c].work \subseteq Items /\ run[c].claims \subseteq Items
         /\ run[c].meta \in Stamped /\ run[c].meta.etag \in Nat
         /\ run[c].at \in Busy => run[c].item \in Items
         /\ run[c].at \notin Busy => run[c].item = NoItem
         /\ Pending(c) \subseteq Items
         /\ \A i \in Items : i.path \in Paths /\ i.etag \in Nat
<1>1. run[c] \in Runs /\ RunOK(c)
  BY DEF BlobInv, RunsOK
<1>2. /\ run[c].at \in Busy => run[c].item \in Items
      /\ run[c].at \notin Busy => run[c].item = NoItem
  BY DEF BlobInv, RunsOK
<1>3. /\ run[c].work \subseteq Items /\ run[c].claims \subseteq Items
      /\ run[c].meta \in Stamped
  BY <1>1 DEF Runs
<1>4. run[c].meta.etag \in Nat
  BY <1>3 DEF Stamped
<1>5. Pending(c) \subseteq Items
  BY <1>2, <1>3 DEF Pending, Busy
<1>6. \A i \in Items : i.path \in Paths /\ i.etag \in Nat
  BY DEF Items
<1> QED
  BY <1>1, <1>2, <1>3, <1>4, <1>5, <1>6

\* What an invocation has still to do of what it had before: X are the
\* pathnames it is done with in this step.
LEMMA PendingStays ==
  ASSUME BlobInv, NEW c \in Cleaners, NEW X,
         \A p \in Paths \ X : SparedAt(c, p),
         \A k \in Pending(c)' : k \in Pending(c) /\ k.path \notin X
  PROVE  \A k \in Pending(c)' :
           /\ k \in Items /\ k.path \in Paths
           /\ holdsClaim(records[k.path], c) /\ records'[k.path] = records[k.path]
           /\ records[k.path].etag = k.etag /\ records[k.path].size = k.size
           /\ k.path \in refs' => k.path \in refs
           /\ isSound(k.path)' => isSound(k.path)
           /\ isSound(k.path)' /\ isStored(k.path) => isStored(k.path)'
<1> TAKE k \in Pending(c)'
<1>1. k \in Pending(c) /\ k \in Items /\ k.path \in Paths \ X
  BY RunTypes
<1>2. /\ holdsClaim(records[k.path], c)
      /\ records[k.path].etag = k.etag /\ records[k.path].size = k.size
  BY <1>1, RunTypes DEF RunOK, Held
<1>3. SparedAt(c, k.path)
  BY <1>1
<1> QED
  BY <1>1, <1>2, <1>3 DEF SparedAt

LEMMA FewerHeld ==
  ASSUME BlobInv, NEW c \in Cleaners, NEW X,
         \A p \in Paths \ X : SparedAt(c, p),
         \A k \in Pending(c)' : k \in Pending(c) /\ k.path \notin X,
         run'[c].claims \subseteq run[c].claims,
         run'[c].at \in Deciding =>
           \/ run[c].at \in Deciding /\ run'[c].item = run[c].item
           \/ run'[c].item \in run[c].claims \ run'[c].claims
  PROVE  /\ Held(c)'
         /\ \A k \in run'[c].claims : (k.status # "recovered" /\ isSound(k.path) => isStored(k.path))'
<1>1. Held(c) /\ Fresh(c)
  BY RunTypes DEF RunOK
<1>2. \A k \in Pending(c)' :
        /\ holdsClaim(records'[k.path], c)
        /\ records'[k.path].etag = k.etag /\ records'[k.path].size = k.size
  BY PendingStays
<1>3. \A k, l \in run'[c].claims : k.path = l.path => k = l
  BY <1>1 DEF Held
<1>4. ASSUME run'[c].at \in Deciding, NEW k \in run'[c].claims
      PROVE  k.path # run'[c].item.path
  BY <1>1, <1>4 DEF Held
<1>5. ASSUME NEW k \in run'[c].claims, k.status # "recovered", isSound(k.path)'
      PROVE  isStored(k.path)'
  <2>1. k \in Pending(c)' /\ k \in run[c].claims
    BY DEF Pending
  <2>2. isSound(k.path) /\ (isStored(k.path) => isStored(k.path)')
    BY <1>5, <2>1, PendingStays
  <2> QED
    BY <1>1, <1>5, <2>1, <2>2 DEF Fresh
<1>6. Held(c)'
  BY <1>2, <1>3, <1>4 DEF Held
<1> QED
  BY <1>5, <1>6

LEMMA FewerSeen ==
  ASSUME BlobInv, NEW c \in Cleaners, NEW X,
         \A p \in Paths \ X : SparedAt(c, p),
         \A k \in Pending(c)' : k \in Pending(c) /\ k.path \notin X,
         run'[c].at \in {"judge"} \cup Deciding =>
           run[c].at \in {"judge"} \cup Deciding /\ run'[c].room = run[c].room,
         run'[c].at \in {"delete", "forget"} => run'[c].item.path \notin UNION run[c].room
  PROVE  Sees(c)'
<1>1. Sees(c)
  BY RunTypes DEF RunOK
<1>2. \A k \in Pending(c)' : k.path \in refs' => k.path \in refs
  BY PendingStays
<1>3. run'[c].at \in {"judge"} \cup Deciding =>
        \A k \in Pending(c)' : k.path \in refs' => k.path \in UNION run'[c].room
  BY <1>1, <1>2 DEF Sees
<1>4. run'[c].at \in {"delete", "forget"} => run'[c].item.path \notin UNION run'[c].room
  BY DEF Deciding
<1> QED
  BY <1>3, <1>4 DEF Sees

LEMMA LessWork ==
  ASSUME BlobInv, NEW c \in Cleaners, NEW X,
         \A p \in Paths \ X : SparedAt(c, p),
         run'[c].at # "idle",
         run[c].at \notin {"listed", "sweep"} \/ run'[c].at \in {"listed", "sweep"},
         run'[c].at \notin {"listed", "sweep"} => run'[c].work \subseteq run[c].work,
         \A i \in run'[c].work : i.path \notin X
  PROVE  Takes(c)'
<1>1. Takes(c)
  BY RunTypes DEF RunOK
<1>2. ASSUME run'[c].at \notin {"listed", "sweep"}, NEW i \in run'[c].work
      PROVE  ~holdsClaim(records'[i.path], c) /\ \A j \in run'[c].work : i.path = j.path => i = j
  <2>1. i \in run[c].work /\ i.path \in Paths \ X
    BY <1>2, RunTypes
  <2>2. ~holdsClaim(records[i.path], c) /\ \A j \in run[c].work : i.path = j.path => i = j
    BY <1>1, <1>2, <2>1 DEF Takes
  <2> QED
    BY <1>2, <2>1, <2>2 DEF SparedAt
<1> QED
  BY <1>2 DEF Takes

\* An invocation that does not move is undisturbed.
LEMMA RunStays ==
  ASSUME BlobInv, NEW c \in Cleaners, run'[c] = run[c],
         \A p \in Paths : KeptAt(p) /\ SparedAt(c, p)
  PROVE  RunOK(c)'
<1>1. RunOK(c)
  BY RunTypes
<1>2. Pending(c)' = Pending(c)
  BY DEF Pending
<1>2a. PICK X : /\ \A p \in Paths \ X : SparedAt(c, p)
                /\ \A k \in Pending(c)' : k \in Pending(c) /\ k.path \notin X
  <2>1. PICK X : X = {}
    OBVIOUS
  <2> QED
    BY <1>2, <2>1
<1>3. \A p \in Paths : stamp[p] \in Nat /\ stamp'[p] \in Nat /\ stamp[p] <= stamp'[p]
  BY DEF BlobInv, StoresOK, KeptAt
<1>4. Sweeps(c)'
  <2>1. ASSUME NEW i \in run[c].work, run[c].at \in {"listed", "sweep"}
        PROVE  i.etag <= stamp'[i.path] /\ (run[c].at = "sweep" => Outlived(i.path, i.etag)')
    <3>1. i.path \in Paths /\ i.etag \in Nat
      BY <2>1, RunTypes
    <3>2. i.etag <= stamp[i.path] /\ (run[c].at = "sweep" => Outlived(i.path, i.etag))
      BY <1>1, <2>1 DEF RunOK, Sweeps
    <3>3. Outlived(i.path, i.etag) => Outlived(i.path, i.etag)'
      BY <3>1, <3>2 DEF KeptAt
    <3> QED
      BY <1>3, <3>1, <3>2, <3>3
  <2> QED
    BY <2>1 DEF Sweeps
<1>5. Settles(c)'
  <2> DEFINE p == run[c].item.path
             b == run[c].meta
  <2>1. ASSUME run[c].at \in {"settle", "purge"}
        PROVE  /\ b.etag <= stamp'[p]
               /\ run[c].at = "purge" => Outlived(p, b.etag)'
               /\ run[c].at = "settle" => isCurrent(p, b)'
    <3>1. p \in Paths /\ b \in Stamped /\ b.etag \in Nat
      BY <2>1, RunTypes DEF Busy
    <3>2. /\ b.etag <= stamp[p]
          /\ run[c].at = "purge" => Outlived(p, b.etag)
          /\ run[c].at = "settle" => isCurrent(p, b)
      BY <1>1, <2>1 DEF RunOK, Settles
    <3>3. \A q \in Paths, e \in Nat : e <= stamp[q] /\ Outlived(q, e) => Outlived(q, e)'
      BY DEF KeptAt
    <3>4. \A q \in Paths, d \in Stamped : d.etag <= stamp[q] /\ isCurrent(q, d) => isCurrent(q, d)'
      BY DEF KeptAt
    <3> QED
      BY <1>3, <3>1, <3>2, <3>3, <3>4
  <2> QED
    BY <2>1 DEF Settles
<1>6. Takes(c)'
  <2>1. \A q \in Paths : holdsClaim(records'[q], c) => holdsClaim(records[q], c)
    BY DEF SparedAt
  <2>2. \A i \in run[c].work : i.path \in Paths
    BY RunTypes
  <2> QED
    BY <1>1, <2>1, <2>2 DEF RunOK, Takes
<1>7. /\ Held(c)'
      /\ \A k \in run'[c].claims : (k.status # "recovered" /\ isSound(k.path) => isStored(k.path))'
  <2>1. run[c].at \in Deciding => run'[c].item = run[c].item
    OBVIOUS
  <2> QED
    BY <1>2a, <2>1, FewerHeld
<1>8. Sees(c)'
  <2>1. \A k \in Pending(c)' : k.path \in refs' => k.path \in refs
    BY <1>2a, PendingStays
  <2> QED
    BY <1>1, <1>2, <2>1 DEF RunOK, Sees
<1>9. Fresh(c)'
  <2>1. \A k \in Pending(c)' : /\ isSound(k.path)' => isSound(k.path)
                               /\ isSound(k.path)' /\ isStored(k.path) => isStored(k.path)'
    BY <1>2a, PendingStays
  <2>2. isProven(c)' <=> isProven(c)
    BY DEF isProven
  <2>3. Fresh(c)
    BY <1>1 DEF RunOK
  <2>4. ASSUME NEW k, k = run[c].item, run[c].at = "decide", isSound(k.path)',
               k.status = "recovered" => isProven(c)
        PROVE  isStored(k.path)'
    <3>1. k \in Pending(c)'
      BY <2>4 DEF Pending, Deciding
    <3> QED
      BY <2>1, <2>3, <2>4, <3>1 DEF Fresh
  <2>5. run'[c].at = "decide" /\ isSound(run[c].item.path)'
          /\ (run'[c].item.status = "recovered" => isProven(c)') => isStored(run[c].item.path)'
    BY <2>2, <2>4 DEF isSound, isStored
  <2> QED
    BY <1>7, <2>5 DEF Fresh
<1> QED
  BY <1>4, <1>5, <1>6, <1>7, <1>8, <1>9 DEF RunOK

-----------------------------------------------------------------------------
(* What the scripts and the provider do to a pathname.                     *)

LEMMA PathTypes ==
  ASSUME BlobInv, NEW p \in Paths
  PROVE  /\ PathOK(p) /\ stamp[p] \in Nat
         /\ blobs[p] \in Stamped /\ blobs[p].etag \in Nat
         /\ records[p] \in Records
         /\ records[p].createdAt \in Nat /\ records[p].etag \in Nat
<1>1. PathOK(p) /\ stamp[p] \in Nat /\ blobs[p] \in Stamped /\ records[p] \in Records
  BY DEF BlobInv, StoresOK
<1> QED
  BY <1>1 DEF Stamped, Records

Cleaner(c) == c \in Cleaners /\ c # Nobody /\ c # Gone

LEMMA CleanersAreCleaners == \A c \in Cleaners : Cleaner(c)
BY RegistryAssumption DEF Cleaner

\* The pathname keeps its references and its recovered claims.
Quiet(p) == (p \in refs' <=> p \in refs) /\ (p \in unproven' <=> p \in unproven)

LEMMA ReserveIsSafe ==
  ASSUME BlobInv, NEW p \in Paths, records[p].status = "none",
         stamp'[p] = stamp[p] + 1, records'[p] = reserved(stamp'[p]), blobs'[p] = blobs[p],
         Quiet(p)
  PROVE  Safe(p) /\ \A c : SparedAt(c, p)
<1>1. /\ records'[p].status = "reserved" /\ records'[p].createdAt = stamp[p] + 1
  BY DEF reserved, Absent
<1>2. PathOK(p)'
  BY <1>1, PathTypes DEF PathOK, Quiet, isCommitted, isReferenceEligible
<1>3. KeptAt(p)
  <2>1. \A b \in Stamped : b.etag \in Nat
    BY DEF Stamped
  <2> QED
    BY <1>1, <2>1, PathTypes DEF KeptAt, Outlived, isCurrent
<1> QED
  BY <1>1, <1>2, <1>3 DEF Safe, SparedAt, holdsClaim

LEMMA DropIsSafe ==
  ASSUME BlobInv, NEW p \in Paths, records[p].status = "reserved",
         records'[p] = Absent, blobs'[p] = blobs[p], stamp'[p] = stamp[p],
         p \in refs' <=> p \in refs
  PROVE  Safe(p) /\ \A c : SparedAt(c, p)
<1>1. records'[p].status = "none" /\ records'[p].createdAt = 0
  BY DEF Absent
<1>2. PathOK(p)'
  BY <1>1, PathTypes DEF PathOK, isCommitted, isReferenceEligible
<1>3. KeptAt(p)
  BY <1>1, PathTypes DEF KeptAt, Outlived, isCurrent
<1> QED
  BY <1>1, <1>2, <1>3 DEF Safe, SparedAt, holdsClaim

LEMMA CommitIsSafe ==
  ASSUME BlobInv, NEW p \in Paths, records[p].status = "reserved",
         NEW b \in Stamped, isCurrent(p, b),
         records'[p] = finalized(records[p], b), blobs'[p] = blobs[p], stamp'[p] = stamp[p],
         Quiet(p)
  PROVE  Safe(p) /\ \A c : SparedAt(c, p)
<1>1. /\ records'[p].status = "committed" /\ records'[p].createdAt = records[p].createdAt
      /\ records'[p].etag = b.etag /\ records'[p].size = b.size
  BY PathTypes DEF finalized, Records
<1>2. b.etag \in Nat /\ b = [etag |-> b.etag, size |-> b.size]
  BY DEF Stamped
<1>3. isSound(p)' => isStored(p)'
  BY <1>1, <1>2 DEF isSound, isStored, isCurrent
<1>4. PathOK(p)'
  BY <1>1, <1>3, PathTypes DEF PathOK, Quiet, isCommitted, isReferenceEligible
<1>5. KeptAt(p)
  BY <1>1, PathTypes DEF KeptAt, Outlived, isCurrent
<1> QED
  BY <1>1, <1>4, <1>5 DEF Safe, SparedAt, holdsClaim

\* The record of a blob that is not there is not sound, or not stored.
LEMMA NoBlobIsUnsound ==
  ASSUME BlobInv, NEW p \in Paths, blobs[p].etag = 0, isSound(p)
  PROVE  ~isStored(p)
BY PathTypes DEF isSound, isStored

LEMMA PutIsSafe ==
  ASSUME BlobInv, NEW p \in Paths, blobs[p] = NoBlob,
         records'[p] = records[p], stamp'[p] = stamp[p] + 1, blobs'[p].etag = stamp'[p],
         Quiet(p)
  PROVE  Safe(p) /\ \A c : SparedAt(c, p)
<1>1. blobs[p].etag = 0
  BY DEF NoBlob
<1>2. isSound(p)' <=> isSound(p)
  BY DEF Quiet, isSound
<1>3. isSound(p) => ~isStored(p)
  BY <1>1, NoBlobIsUnsound
<1>4. PathOK(p)'
  <2>1. blobs'[p].etag <= stamp'[p] /\ records'[p].createdAt <= stamp'[p]
    BY PathTypes DEF PathOK
  <2> QED
    BY <1>2, <1>3, <2>1, PathTypes DEF PathOK, Quiet
<1>5. KeptAt(p)
  <2>1. \A b \in Stamped : b.etag \in Nat
    BY DEF Stamped
  <2> QED
    BY <1>1, <2>1, PathTypes DEF KeptAt, Outlived, isCurrent
<1> QED
  BY <1>2, <1>3, <1>4, <1>5 DEF Safe, SparedAt, Quiet

\* A deletion that names an upload older than the reservation.
LEMMA PurgeIsSafe ==
  ASSUME BlobInv, NEW p \in Paths, NEW e \in Nat, Outlived(p, e), blobs[p].etag \in {0, e},
         records'[p] = records[p], stamp'[p] = stamp[p], blobs'[p] = NoBlob, Quiet(p)
  PROVE  Safe(p) /\ \A c : SparedAt(c, p)
<1>1. records[p].status # "none" /\ isSound(p) => ~isStored(p)
  BY PathTypes DEF Outlived, isSound, isStored
<1>2. isSound(p)' <=> isSound(p)
  BY DEF Quiet, isSound
<1>3. PathOK(p)'
  <2>1. blobs'[p].etag <= stamp'[p] /\ records'[p].createdAt <= stamp'[p]
    BY PathTypes DEF PathOK, NoBlob
  <2> QED
    BY <1>1, <1>2, <2>1, PathTypes DEF PathOK, Quiet, isCommitted, isReferenceEligible
<1>4. KeptAt(p)
  <2>1. \A b \in Stamped : isCurrent(p, b) => isCurrent(p, b)'
    <3> SUFFICES ASSUME NEW b \in Stamped, isCurrent(p, b),
                        records[p].status = "reserved", b.etag > records[p].createdAt
                 PROVE  FALSE
      BY DEF isCurrent
    <3>1. blobs[p] = b /\ b.etag \in Nat /\ records[p].createdAt > e
      BY DEF isCurrent, Outlived, Stamped
    <3> QED
      BY <3>1, PathTypes
  <2> QED
    BY <2>1, PathTypes DEF KeptAt, Outlived
<1> QED
  BY <1>1, <1>2, <1>3, <1>4 DEF Safe, SparedAt, Quiet, holdsClaim

LEMMA ClaimIsSafe ==
  ASSUME BlobInv, NEW p \in Paths, NEW c \in Cleaners, NEW e, canClaim(records[p], e, c),
         records'[p] = claimed(records[p], c), blobs'[p] = blobs[p], stamp'[p] = stamp[p],
         Quiet(p)
  PROVE  Safe(p) /\ \A d \in Cleaners \ {c} : SparedAt(d, p)
<1>1. /\ records'[p].status = "cleanup-claimed" /\ records'[p].claim = c
      /\ records'[p].createdAt = records[p].createdAt
      /\ records'[p].etag = records[p].etag /\ records'[p].size = records[p].size
  BY PathTypes DEF claimed, Records
<1>2. PathOK(p)'
  BY <1>1, PathTypes
  DEF PathOK, Quiet, isCommitted, isReferenceEligible, isSound, isStored
<1>3. KeptAt(p)
  BY <1>1, PathTypes DEF KeptAt, Outlived, isCurrent, canClaim, isCommitted
<1>4. ASSUME NEW d \in Cleaners \ {c} PROVE SparedAt(d, p)
  BY <1>1, CleanersAreCleaners DEF Cleaner, SparedAt, holdsClaim, canClaim
<1> QED
  BY <1>2, <1>3, <1>4 DEF Safe

LEMMA ReleaseIsSafe ==
  ASSUME BlobInv, NEW p \in Paths, NEW c \in Cleaners, holdsClaim(records[p], c),
         records'[p] = released(records[p]), blobs'[p] = blobs[p], stamp'[p] = stamp[p],
         p \in refs' <=> p \in refs, p \in unproven => p \in unproven',
         isSound(p) /\ p \notin unproven' => isStored(p)
  PROVE  Safe(p) /\ \A d \in Cleaners \ {c} : SparedAt(d, p)
<1>1. /\ records'[p].status = "committed" /\ records'[p].claim = Nobody
      /\ records'[p].createdAt = records[p].createdAt
      /\ records'[p].etag = records[p].etag /\ records'[p].size = records[p].size
  BY PathTypes DEF released, Records
<1>2. isSound(p)' => isStored(p)'
  BY <1>1 DEF isSound, isStored
<1>3. PathOK(p)'
  BY <1>1, <1>2, PathTypes DEF PathOK, isCommitted, isReferenceEligible
<1>4. KeptAt(p)
  BY <1>1, PathTypes DEF KeptAt, Outlived, isCurrent, holdsClaim
<1>5. ASSUME NEW d \in Cleaners \ {c} PROVE SparedAt(d, p)
  BY <1>1 DEF SparedAt, holdsClaim
<1> QED
  BY <1>3, <1>4, <1>5 DEF Safe

LEMMA TakeIsSafe ==
  ASSUME BlobInv, NEW p \in Paths, NEW c \in Cleaners, holdsClaim(records[p], c), p \notin refs,
         records'[p] = records[p], blobs'[p] = NoBlob, stamp'[p] = stamp[p], Quiet(p)
  PROVE  Safe(p) /\ \A d \in Cleaners \ {c} : SparedAt(d, p)
<1>1. PathOK(p)'
  <2>1. blobs'[p].etag <= stamp'[p] /\ records'[p].createdAt <= stamp'[p]
    BY PathTypes DEF PathOK, NoBlob
  <2> QED
    BY <2>1 DEF PathOK, Quiet, holdsClaim, isReferenceEligible
<1>2. KeptAt(p)
  BY PathTypes DEF KeptAt, Outlived, isCurrent, holdsClaim
<1>3. ASSUME NEW d \in Cleaners \ {c} PROVE SparedAt(d, p)
  BY DEF SparedAt, holdsClaim
<1> QED
  BY <1>1, <1>2, <1>3 DEF Safe

LEMMA ForgetIsSafe ==
  ASSUME BlobInv, NEW p \in Paths, NEW c \in Cleaners, holdsClaim(records[p], c), p \notin refs,
         records'[p] = Absent, blobs'[p] = blobs[p], stamp'[p] = stamp[p],
         p \in refs' <=> p \in refs
  PROVE  Safe(p) /\ \A d \in Cleaners \ {c} : SparedAt(d, p)
<1>1. records'[p].status = "none" /\ records'[p].createdAt = 0
  BY DEF Absent
<1>2. PathOK(p)'
  BY <1>1, PathTypes DEF PathOK, isReferenceEligible
<1>3. KeptAt(p)
  BY <1>1, PathTypes DEF KeptAt, Outlived, isCurrent
<1>4. ASSUME NEW d \in Cleaners \ {c} PROVE SparedAt(d, p)
  BY <1>1 DEF SparedAt, holdsClaim
<1> QED
  BY <1>2, <1>3, <1>4 DEF Safe

LEMMA ReferIsSafe ==
  ASSUME BlobInv, NEW p \in Paths,
         records'[p] = records[p], blobs'[p] = blobs[p], stamp'[p] = stamp[p],
         p \in unproven' <=> p \in unproven,
         p \in refs' => p \in refs \/ isReferenceEligible(records[p])
  PROVE  Safe(p) /\ \A c : SparedAt(c, p)
<1>1. (isSound(p)' <=> isSound(p)) /\ (isStored(p)' <=> isStored(p))
  BY DEF isSound, isStored
<1>2. PathOK(p)'
  BY <1>1, PathTypes DEF PathOK, isReferenceEligible, isCommitted
<1>3. KeptAt(p)
  BY PathTypes DEF KeptAt, Outlived, isCurrent
<1> QED
  BY <1>1, <1>2, <1>3 DEF Safe, SparedAt, holdsClaim, isReferenceEligible

LEMMA LeaveIsSafe ==
  ASSUME BlobInv, NEW p \in Paths, NEW c \in Cleaners, holdsClaim(records[p], c),
         records'[p] = [records[p] EXCEPT !.claim = Gone],
         blobs'[p] = blobs[p], stamp'[p] = stamp[p], Quiet(p)
  PROVE  Safe(p) /\ \A d \in Cleaners \ {c} : SparedAt(d, p)
<1>1. /\ records'[p].status = "cleanup-claimed" /\ records'[p].claim = Gone
      /\ records'[p].createdAt = records[p].createdAt
      /\ records'[p].etag = records[p].etag /\ records'[p].size = records[p].size
  BY PathTypes DEF holdsClaim, Records
<1>2. PathOK(p)'
  BY <1>1, PathTypes
  DEF PathOK, Quiet, isCommitted, isReferenceEligible, isSound, isStored
<1>3. KeptAt(p)
  BY <1>1, PathTypes DEF KeptAt, Outlived, isCurrent, holdsClaim
<1>4. ASSUME NEW d \in Cleaners \ {c} PROVE SparedAt(d, p)
  BY <1>1, CleanersAreCleaners DEF Cleaner, SparedAt, holdsClaim
<1> QED
  BY <1>2, <1>3, <1>4 DEF Safe

-----------------------------------------------------------------------------
(* Steps that leave every invocation undisturbed.                          *)

Calm ==
  /\ StoresOK'
  /\ \A p \in Paths : Safe(p) /\ \A c \in Cleaners : SparedAt(c, p)

CalmFor(c) ==
  /\ StoresOK'
  /\ \A p \in Paths : Safe(p) /\ \A d \in Cleaners \ {c} : SparedAt(d, p)

LEMMA RecordTypes ==
  ASSUME NEW r \in Records, NEW b \in Stamped, NEW c \in Cleaners, NEW n \in Nat
  PROVE  /\ reserved(n) \in Records /\ Absent \in Records
         /\ finalized(r, b) \in Records /\ claimed(r, c) \in Records
         /\ released(r) \in Records /\ [r EXCEPT !.claim = Gone] \in Records
BY DEF reserved, Absent, finalized, claimed, released, Records, Stamped, Holders, Nobody

LEMMA FinalsStay ==
  ASSUME BlobInv, \A p \in Paths : KeptAt(p), finals' \subseteq finals
  PROVE  FinalsOK'
<1> SUFFICES ASSUME NEW f \in finals'
             PROVE  f.blob.etag <= stamp'[f.path] /\ isCurrent(f.path, f.blob)'
  BY DEF FinalsOK
<1>1. f \in finals /\ f.path \in Paths /\ f.blob \in Stamped /\ f.blob.etag \in Nat
  BY DEF BlobInv, RequestsOK, Stamped
<1>2. f.blob.etag <= stamp[f.path] /\ isCurrent(f.path, f.blob)
  BY <1>1 DEF BlobInv, FinalsOK
<1>3. stamp[f.path] \in Nat /\ stamp'[f.path] \in Nat /\ stamp[f.path] <= stamp'[f.path]
  BY <1>1, PathTypes DEF KeptAt
<1>4. isCurrent(f.path, f.blob)'
  BY <1>1, <1>2 DEF KeptAt
<1> QED
  BY <1>1, <1>2, <1>3, <1>4

LEMMA WorldStep ==
  ASSUME BlobInv, Calm, RequestsOK', UNCHANGED run, FinalsOK'
  PROVE  BlobInv'
<1>1. \A p \in Paths : PathOK(p)' /\ KeptAt(p)
  BY DEF Calm, Safe
<1>2. ASSUME NEW c \in Cleaners PROVE RunOK(c)'
  <2>1. \A p \in Paths : SparedAt(c, p)
    BY DEF Calm
  <2>2. run'[c] = run[c]
    OBVIOUS
  <2> QED
    BY <1>1, <2>1, <2>2, RunStays
<1>3. RunsOK'
  BY DEF BlobInv, RunsOK
<1> QED
  BY <1>1, <1>2, <1>3 DEF BlobInv, Calm

LEMMA OthersStay ==
  ASSUME BlobInv, NEW c \in Cleaners, CalmFor(c), UNCHANGED <<asks, finals, edits>>,
         NEW s \in Runs, run' = [run EXCEPT ![c] = s],
         IF s.at \in Busy THEN s.item \in Items ELSE s.item = NoItem,
         RunOK(c)'
  PROVE  BlobInv'
<1>1. \A p \in Paths : PathOK(p)' /\ KeptAt(p)
  BY DEF CalmFor, Safe
<1>2. ASSUME NEW d \in Cleaners \ {c} PROVE RunOK(d)'
  <2>1. \A p \in Paths : SparedAt(d, p)
    BY DEF CalmFor
  <2>2. run'[d] = run[d]
    BY DEF BlobInv, RunsOK
  <2> QED
    BY <1>1, <2>1, <2>2, RunStays
<1>3. RunsOK'
  <2>1. run' \in [Cleaners -> Runs]
    BY DEF BlobInv, RunsOK
  <2>2. run'[c] = s /\ \A d \in Cleaners \ {c} : run'[d] = run[d]
    BY DEF BlobInv, RunsOK
  <2> QED
    BY <2>1, <2>2 DEF BlobInv, RunsOK
<1>4. RequestsOK' /\ FinalsOK'
  BY <1>1, FinalsStay DEF BlobInv, RequestsOK
<1> QED
  BY <1>1, <1>2, <1>3, <1>4 DEF BlobInv, CalmFor

-----------------------------------------------------------------------------
(* The writes that the actions share.                                      *)

LEMMA NothingWritten ==
  ASSUME BlobInv, UNCHANGED <<records, blobs, stamp, refs, unproven>>,
         aged' \subseteq Paths, agedBlobs' \subseteq Paths
  PROVE  Calm
<1>1. \A p \in Paths : SameAt(p)
  BY DEF SameAt
<1>2. \A p \in Paths : Safe(p) /\ \A c : SparedAt(c, p)
  BY <1>1, SameIsSafe
<1> QED
  BY <1>2 DEF Calm, BlobInv, StoresOK

LEMMA KeepIsCalm ==
  ASSUME BlobInv, Keep, UNCHANGED <<blobs, agedBlobs, stamp, refs>>
  PROVE  Calm
BY NothingWritten DEF Keep, BlobInv, StoresOK

\* A record is written, and nothing else.
LEMMA OneRecord ==
  ASSUME BlobInv, NEW p \in Paths, NEW r \in Records, NEW D,
         records' = [records EXCEPT ![p] = r], UNCHANGED <<blobs, agedBlobs, stamp, refs>>,
         aged' \subseteq aged, \A q \in Paths \ {p} : q \in unproven' <=> q \in unproven,
         Safe(p), \A d \in D : SparedAt(d, p)
  PROVE  /\ StoresOK'
         /\ \A q \in Paths \ {p} : \A d : SparedAt(d, q)
         /\ \A q \in Paths : Safe(q) /\ \A d \in D : SparedAt(d, q)
<1>1. StoresOK'
  BY DEF BlobInv, StoresOK
<1>2. \A q \in Paths \ {p} : SameAt(q)
  BY DEF SameAt, BlobInv, StoresOK
<1>3. \A q \in Paths \ {p} : Safe(q) /\ \A d : SparedAt(d, q)
  BY <1>2, SameIsSafe
<1> QED
  BY <1>1, <1>3

LEMMA DropIsCalm ==
  ASSUME BlobInv, NEW p \in Paths, records[p].status = "reserved", DeleteRegistration(p),
         UNCHANGED <<blobs, agedBlobs, stamp, refs>>
  PROVE  Calm /\ records'[p].status = "none"
<1>1. /\ records' = [records EXCEPT ![p] = Absent] /\ aged' \subseteq aged
      /\ \A q \in Paths \ {p} : q \in unproven' <=> q \in unproven
  BY DEF DeleteRegistration, Write
<1>2. records'[p] = Absent /\ Absent \in Records
  BY <1>1 DEF BlobInv, StoresOK, Absent, Records, Holders
<1>3. Safe(p) /\ \A c : SparedAt(c, p)
  BY <1>2, DropIsSafe
<1>4. Calm
  BY <1>1, <1>2, <1>3, OneRecord DEF Calm
<1>5. records'[p].status = "none"
  BY <1>2 DEF Absent
<1> QED
  BY <1>4, <1>5

LEMMA FinalizeIsCalm ==
  ASSUME BlobInv, NEW p \in Paths, NEW b \in Stamped, isCurrent(p, b), FinalizeRegistration(p, b),
         UNCHANGED <<blobs, agedBlobs, stamp, refs>>
  PROVE  Calm
<1>1. CASE Keep
  BY <1>1, KeepIsCalm
<1>2. CASE ~Keep
  <2>1. /\ records[p].status = "reserved"
        /\ records' = [records EXCEPT ![p] = finalized(records[p], b)]
        /\ aged' \subseteq aged /\ unproven' = unproven
    BY <1>2 DEF FinalizeRegistration, Write, canFinalize
  <2>2. finalized(records[p], b) \in Records
    BY PathTypes DEF finalized, Records, Stamped
  <2>3. records'[p] = finalized(records[p], b)
    BY <2>1 DEF BlobInv, StoresOK
  <2>4. Safe(p) /\ \A c : SparedAt(c, p)
    BY <2>1, <2>3, CommitIsSafe DEF Quiet
  <2> QED
    BY <2>1, <2>2, <2>4, OneRecord DEF Calm
<1> QED
  BY <1>1, <1>2

\* A deletion that names an upload which the pathname has outlived.
LEMMA PurgeIsCalm ==
  ASSUME BlobInv, NEW p \in Paths, NEW e \in Nat, Outlived(p, e),
         IF deleteRefused(p, e) THEN UNCHANGED <<blobs, agedBlobs>> ELSE DeleteBlob(p),
         Keep, UNCHANGED <<stamp, refs>>
  PROVE  Calm
<1>1. CASE UNCHANGED <<blobs, agedBlobs>>
  BY <1>1, KeepIsCalm
<1>2. CASE DeleteBlob(p) /\ blobs[p].etag \in {0, e}
  <2>1. /\ blobs' = [blobs EXCEPT ![p] = NoBlob] /\ agedBlobs' \subseteq agedBlobs
        /\ UNCHANGED <<records, aged, unproven>>
    BY <1>2 DEF DeleteBlob, Keep
  <2>2. blobs'[p] = NoBlob /\ \A q \in Paths \ {p} : blobs'[q] = blobs[q]
    BY <2>1 DEF BlobInv, StoresOK
  <2>3. Safe(p) /\ \A c : SparedAt(c, p)
    BY <1>2, <2>1, <2>2, PurgeIsSafe DEF Quiet
  <2>4. \A q \in Paths \ {p} : Safe(q) /\ \A c : SparedAt(c, q)
    BY <2>1, <2>2, SameIsSafe DEF SameAt
  <2>5. NoBlob \in Stamped
    BY DEF NoBlob, Stamped
  <2>6. StoresOK'
    BY <2>1, <2>5 DEF BlobInv, StoresOK
  <2> QED
    BY <2>3, <2>4, <2>6 DEF Calm
<1> QED
  BY <1>1, <1>2 DEF deleteRefused

-----------------------------------------------------------------------------
(* Uploads, the canvas and time.                                           *)

LEMMA AskUploadKeeps ==
  ASSUME BlobInv, NEW p \in Paths, AskUpload(p)
  PROVE  BlobInv'
<1>1. Calm
  BY NothingWritten DEF AskUpload, BlobInv, StoresOK
<1>2. RequestsOK'
  <2> DEFINE stale == {<<q, records[q].createdAt>> : q \in {x \in aged : records[x].status = "reserved"}}
             a == [path |-> p, at |-> "reclaim", created |-> FALSE, createdAt |-> 0, stale |-> stale]
  <2>1. stale \in SUBSET (Paths \X Nat)
    BY PathTypes DEF BlobInv, StoresOK
  <2>2. asks' = asks \cup {a} /\ UNCHANGED <<finals, edits>>
    BY DEF AskUpload
  <2> HIDE DEF stale
  <2>3. a \in [path : Paths, at : {"reclaim", "issue"}, created : BOOLEAN,
               createdAt : Nat, stale : SUBSET (Paths \X Nat)]
    BY <2>1
  <2> QED
    BY <2>2, <2>3 DEF BlobInv, RequestsOK
<1>3. FinalsOK'
  BY <1>1, FinalsStay DEF AskUpload, Calm, Safe
<1> QED
  BY <1>1, <1>2, <1>3, WorldStep DEF AskUpload

LEMMA ReclaimExpiredKeeps ==
  ASSUME BlobInv, NEW a \in asks, ReclaimExpired(a)
  PROVE  BlobInv'
<1>1. PICK s \in a.stale :
        LET p == s[1]
            rest == [a EXCEPT !.stale = a.stale \ {s}]
        IN \/ /\ records[p].status = "none"
              /\ asks' = (asks \ {a}) \cup {rest}
              /\ Keep
           \/ /\ isReservation(records[p], s[2])
              /\ asks' = (asks \ {a}) \cup {rest}
              /\ DeleteRegistration(p)
           \/ /\ records[p].status # "none"
              /\ ~isReservation(records[p], s[2])
              /\ asks' = asks \ {a}
              /\ Keep
  BY DEF ReclaimExpired
<1>2. /\ a \in [path : Paths, at : {"reclaim", "issue"}, created : BOOLEAN,
                createdAt : Nat, stale : SUBSET (Paths \X Nat)]
      /\ s[1] \in Paths
  BY DEF BlobInv, RequestsOK
<1>3. UNCHANGED <<blobs, agedBlobs, stamp, finals, refs, edits, run>>
  BY DEF ReclaimExpired
<1>4. Calm
  BY <1>1, <1>2, <1>3, KeepIsCalm, DropIsCalm DEF isReservation
<1>5. RequestsOK'
  BY <1>1, <1>2, <1>3 DEF BlobInv, RequestsOK
<1>6. FinalsOK'
  BY <1>3, <1>4, FinalsStay DEF Calm, Safe
<1> QED
  BY <1>3, <1>4, <1>5, <1>6, WorldStep

LEMMA ReserveKeeps ==
  ASSUME BlobInv, NEW a \in asks, Reserve(a)
  PROVE  BlobInv'
<1> DEFINE p == a.path
<1>1. /\ a \in [path : Paths, at : {"reclaim", "issue"}, created : BOOLEAN,
                createdAt : Nat, stale : SUBSET (Paths \X Nat)]
      /\ p \in Paths
  BY DEF BlobInv, RequestsOK
<1>2. UNCHANGED <<blobs, agedBlobs, finals, refs, edits, run>>
  BY DEF Reserve
<1>3. CASE Keep /\ UNCHANGED stamp
  <2>1. Calm
    BY <1>2, <1>3, KeepIsCalm
  <2>2. \/ asks' = (asks \ {a}) \cup {[a EXCEPT !.at = "issue", !.created = FALSE,
                                                !.createdAt = records[p].createdAt]}
        \/ asks' = asks \ {a}
        \/ /\ asks' = (asks \ {a}) \cup {[a EXCEPT !.at = "issue", !.created = TRUE,
                                                   !.createdAt = stamp'[p]]}
    BY DEF Reserve
  <2>3. RequestsOK'
    BY <1>1, <1>2, <1>3, <2>2, PathTypes DEF BlobInv, RequestsOK
  <2>4. FinalsOK'
    BY <1>2, <2>1, FinalsStay DEF Calm, Safe
  <2> QED
    BY <1>2, <2>1, <2>3, <2>4, WorldStep
<1>4. CASE /\ records[p].status = "none"
           /\ stamp' = [stamp EXCEPT ![p] = @ + 1]
           /\ Write(p, reserved(stamp'[p]))
           /\ asks' = (asks \ {a}) \cup {[a EXCEPT !.at = "issue", !.created = TRUE,
                                                   !.createdAt = stamp'[p]]}
           /\ UNCHANGED <<aged, unproven>>
  <2>1. /\ stamp' \in [Paths -> Nat] /\ stamp'[p] = stamp[p] + 1
        /\ \A q \in Paths \ {p} : stamp'[q] = stamp[q]
    BY <1>1, <1>4 DEF BlobInv, StoresOK
  <2>2. reserved(stamp'[p]) \in Records
    BY <1>1, <2>1 DEF reserved, Absent, Records, Holders
  <2>3. /\ records' \in [Paths -> Records] /\ records'[p] = reserved(stamp'[p])
        /\ \A q \in Paths \ {p} : records'[q] = records[q]
    BY <1>1, <1>4, <2>2 DEF BlobInv, StoresOK, Write
  <2>4. Safe(p) /\ \A c : SparedAt(c, p)
    BY <1>1, <1>2, <1>4, <2>1, <2>3, ReserveIsSafe DEF Quiet
  <2>5. \A q \in Paths \ {p} : Safe(q) /\ \A c : SparedAt(c, q)
    BY <1>2, <1>4, <2>1, <2>3, SameIsSafe DEF SameAt
  <2>6. Calm
    BY <1>2, <1>4, <2>1, <2>3, <2>4, <2>5 DEF Calm, BlobInv, StoresOK
  <2>7. RequestsOK'
    <3> DEFINE b == [a EXCEPT !.at = "issue", !.created = TRUE, !.createdAt = stamp'[p]]
    <3>1. stamp'[p] \in Nat
      BY <1>1, <2>1
    <3>2. b \in [path : Paths, at : {"reclaim", "issue"}, created : BOOLEAN,
                 createdAt : Nat, stale : SUBSET (Paths \X Nat)]
      BY <1>1, <3>1
    <3>3. asks' = (asks \ {a}) \cup {b}
      BY <1>4
    <3> HIDE DEF b
    <3> QED
      BY <1>2, <3>2, <3>3 DEF BlobInv, RequestsOK
  <2>8. FinalsOK'
    BY <1>2, <2>6, FinalsStay DEF Calm, Safe
  <2> QED
    BY <1>2, <2>6, <2>7, <2>8, WorldStep
<1> QED
  BY <1>3, <1>4 DEF Reserve

LEMMA IssueKeeps ==
  ASSUME BlobInv, NEW a \in asks, Issue(a) \/ IssueFails(a)
  PROVE  BlobInv'
<1>1. /\ UNCHANGED <<blobs, agedBlobs, stamp, finals, refs, edits, run>>
      /\ asks' = asks \ {a}
  BY DEF Issue, IssueFails
<1>2. Keep \/ (isReservation(records[a.path], a.createdAt) /\ DeleteRegistration(a.path))
  BY DEF Issue, IssueFails, Keep
<1>3. a.path \in Paths
  BY DEF BlobInv, RequestsOK
<1>4. Calm
  BY <1>1, <1>2, <1>3, KeepIsCalm, DropIsCalm DEF isReservation
<1>5. RequestsOK'
  BY <1>1 DEF BlobInv, RequestsOK
<1>6. FinalsOK'
  BY <1>1, <1>4, FinalsStay DEF Calm, Safe
<1> QED
  BY <1>1, <1>4, <1>5, <1>6, WorldStep

LEMMA PutBlobKeeps ==
  ASSUME BlobInv, NEW p \in Paths, PutBlob(p)
  PROVE  BlobInv'
<1>1. PICK size \in Sizes : blobs' = [blobs EXCEPT ![p] = [etag |-> stamp'[p], size |-> size]]
  BY DEF PutBlob
<1>2. /\ UNCHANGED <<records, aged, agedBlobs, asks, finals, refs, edits, run, unproven>>
      /\ blobs[p] = NoBlob /\ stamp' = [stamp EXCEPT ![p] = @ + 1]
  BY DEF PutBlob
<1>3. size \in Nat
  BY AssetAssumption, RegistryAssumption
<1>4. /\ stamp' \in [Paths -> Nat] /\ stamp'[p] = stamp[p] + 1
      /\ \A q \in Paths \ {p} : stamp'[q] = stamp[q]
  BY <1>2 DEF BlobInv, StoresOK
<1>5. [etag |-> stamp'[p], size |-> size] \in Stamped
  BY <1>3, <1>4 DEF Stamped
<1>6. /\ blobs' \in [Paths -> Stamped] /\ blobs'[p].etag = stamp'[p]
      /\ \A q \in Paths \ {p} : blobs'[q] = blobs[q]
  BY <1>1, <1>5 DEF BlobInv, StoresOK
<1>7. Safe(p) /\ \A c : SparedAt(c, p)
  BY <1>2, <1>4, <1>6, PutIsSafe DEF Quiet
<1>8. \A q \in Paths \ {p} : Safe(q) /\ \A c : SparedAt(c, q)
  BY <1>2, <1>4, <1>6, SameIsSafe DEF SameAt
<1>9. Calm
  BY <1>2, <1>4, <1>6, <1>7, <1>8 DEF Calm, BlobInv, StoresOK
<1>10. RequestsOK'
  BY <1>2 DEF BlobInv, RequestsOK
<1>11. FinalsOK'
  BY <1>2, <1>9, FinalsStay DEF Calm, Safe
<1> QED
  BY <1>2, <1>9, <1>10, <1>11, WorldStep

LEMMA HeadForFinalizeKeeps ==
  ASSUME BlobInv, NEW p \in Paths, HeadForFinalize(p)
  PROVE  BlobInv'
<1>1. UNCHANGED <<records, blobs, agedBlobs, stamp, asks, refs, edits, run, unproven, aged>>
      /\ finals' = finals \cup {[path |-> p, blob |-> blobs[p]]}
  BY DEF HeadForFinalize
<1>2. Calm
  BY <1>1, NothingWritten DEF BlobInv, StoresOK
<1>3. RequestsOK'
  BY <1>1, PathTypes DEF BlobInv, RequestsOK
<1>4. FinalsOK'
  <2>1. FinalsOK
    BY DEF BlobInv
  <2>2. blobs[p].etag <= stamp[p] /\ isCurrent(p, blobs[p])
    BY PathTypes DEF PathOK, isCurrent
  <2> QED
    BY <1>1, <2>1, <2>2 DEF FinalsOK, isCurrent
<1> QED
  BY <1>1, <1>2, <1>3, <1>4, WorldStep

LEMMA FinalizeKeeps ==
  ASSUME BlobInv, NEW f \in finals, Finalize(f)
  PROVE  BlobInv'
<1>1. /\ UNCHANGED <<blobs, agedBlobs, stamp, asks, refs, edits, run>>
      /\ finals' = finals \ {f} /\ FinalizeRegistration(f.path, f.blob)
  BY DEF Finalize
<1>2. f.path \in Paths /\ f.blob \in Stamped /\ isCurrent(f.path, f.blob)
  BY DEF BlobInv, RequestsOK, FinalsOK
<1>3. Calm
  BY <1>1, <1>2, FinalizeIsCalm
<1>4. RequestsOK'
  BY <1>1 DEF BlobInv, RequestsOK
<1>5. FinalsOK'
  BY <1>1, <1>3, FinalsStay DEF Calm, Safe
<1> QED
  BY <1>1, <1>3, <1>4, <1>5, WorldStep

LEMMA CanvasKeeps ==
  ASSUME BlobInv, Canvas
  PROVE  BlobInv'
<1>1. UNCHANGED <<records, aged, blobs, agedBlobs, stamp, asks, finals, run, unproven>>
  BY DEF Canvas, ReadGuard, RemoveReference, CommitReference
<1>2. /\ refs' \subseteq Paths
      /\ \A p \in Paths : p \in refs' => p \in refs \/ isReferenceEligible(records[p])
  <2>1. CASE \E p \in Paths : ReadGuard(p) \/ RemoveReference(p)
    BY <2>1 DEF ReadGuard, RemoveReference, BlobInv, StoresOK
  <2>2. ASSUME NEW e \in edits, CommitReference(e)
        PROVE  /\ refs' \subseteq Paths
               /\ \A p \in Paths : p \in refs' => p \in refs \/ isReferenceEligible(records[p])
    <3>1. e.path \in Paths /\ e.expected.status = "committed"
      BY DEF BlobInv, RequestsOK
    <3> QED
      BY <2>2, <3>1 DEF CommitReference, BlobInv, StoresOK, isReferenceEligible
  <2> QED
    BY <2>1, <2>2 DEF Canvas
<1>3. \A p \in Paths : Safe(p) /\ \A c : SparedAt(c, p)
  BY <1>1, <1>2, ReferIsSafe
<1>4. Calm
  BY <1>1, <1>2, <1>3 DEF Calm, BlobInv, StoresOK
<1>5. RequestsOK'
  <2>1. CASE edits' \subseteq edits
    BY <1>1, <2>1 DEF BlobInv, RequestsOK
  <2>2. ASSUME NEW p \in Paths, ReadGuard(p) PROVE RequestsOK'
    BY <1>1, <2>2, PathTypes DEF ReadGuard, BlobInv, RequestsOK, isReferenceEligible
  <2> QED
    BY <2>1, <2>2 DEF Canvas, RemoveReference, CommitReference
<1>6. FinalsOK'
  BY <1>1, <1>4, FinalsStay DEF Calm, Safe
<1> QED
  BY <1>1, <1>4, <1>5, <1>6, WorldStep

LEMMA AgesKeep ==
  ASSUME BlobInv, NEW p \in Paths, Ages(p)
  PROVE  BlobInv'
<1>1. UNCHANGED <<records, blobs, stamp, asks, finals, refs, edits, run, unproven>>
      /\ aged' \subseteq Paths /\ agedBlobs' \subseteq Paths
  BY DEF Ages, RecordAges, BlobAges, BlobInv, StoresOK
<1>2. Calm
  BY <1>1, NothingWritten
<1>3. RequestsOK'
  BY <1>1 DEF BlobInv, RequestsOK
<1>4. FinalsOK'
  BY <1>1, <1>2, FinalsStay DEF Calm, Safe
<1> QED
  BY <1>1, <1>2, <1>3, <1>4, WorldStep

-----------------------------------------------------------------------------
(* How an invocation moves on.                                             *)

LEMMA Went ==
  ASSUME BlobInv, NEW c \in Cleaners, NEW s, Goes(c, s)
  PROVE  run'[c] = s /\ run' = [run EXCEPT ![c] = s]
BY DEF Goes, BlobInv, RunsOK

LEMMA CalmForAll ==
  ASSUME Calm, NEW c \in Cleaners
  PROVE  CalmFor(c) /\ \A p \in Paths : SparedAt(c, p)
BY DEF Calm, CalmFor

\* From one reservation to the next.
Reserving == {"candidates", "head", "settle", "purge"}

LEMMA ReservationPhase ==
  ASSUME BlobInv, NEW c \in Cleaners, Calm,
         run[c].at \in Reserving, run'[c].at \in Reserving \cup {"release"},
         run'[c].claims = run[c].claims, run'[c].work \subseteq run[c].work, Settles(c)'
  PROVE  RunOK(c)'
<1>0. PICK X : X = {}
  OBVIOUS
<1>1. Pending(c)' = run[c].claims /\ run[c].claims \subseteq Pending(c)
  BY DEF Pending, Deciding, Reserving
<1>2. \A p \in Paths \ X : SparedAt(c, p)
  BY CalmForAll
<1>3. \A k \in Pending(c)' : k \in Pending(c) /\ k.path \notin X
  BY <1>0, <1>1
<1>4. run'[c].at \notin Deciding /\ run'[c].at # "judge" /\ run'[c].at \notin {"idle", "listed", "sweep"}
      /\ run[c].at \notin {"listed", "sweep"}
  BY DEF Reserving, Deciding
<1>5. /\ Held(c)'
      /\ \A k \in run'[c].claims : (k.status # "recovered" /\ isSound(k.path) => isStored(k.path))'
  BY <1>2, <1>3, <1>4, FewerHeld
<1>6. Takes(c)'
  <2>1. \A i \in run'[c].work : i.path \notin X
    BY <1>0
  <2> QED
    BY <1>2, <1>4, <2>1, LessWork
<1>7. Sweeps(c)' /\ Sees(c)'
  BY <1>4 DEF Sweeps, Sees, Deciding
<1>8. Fresh(c)'
  BY <1>4, <1>5 DEF Fresh, Deciding
<1> QED
  BY <1>5, <1>6, <1>7, <1>8 DEF RunOK

\* The claim at hand is settled, one way or another.
LEMMA ClaimSettled ==
  ASSUME BlobInv, NEW c \in Cleaners, run[c].at \in Deciding,
         \A p \in Paths \ {run[c].item.path} : SparedAt(c, p),
         run'[c].at = "judge", run'[c].claims = run[c].claims,
         run'[c].work = run[c].work, run'[c].room = run[c].room
  PROVE  RunOK(c)'
<1>0. PICK X : X = {run[c].item.path}
  OBVIOUS
<1>1. RunOK(c) /\ run[c].item \in Pending(c) /\ run[c].item \in Items
  BY RunTypes DEF Pending, Busy
<1>2. Pending(c)' = run[c].claims /\ run[c].claims \subseteq Pending(c)
  BY DEF Pending, Deciding
<1>3. \A k \in Pending(c)' : k \in Pending(c) /\ k.path \notin X
  BY <1>0, <1>1, <1>2 DEF RunOK, Held
<1>4. \A p \in Paths \ X : SparedAt(c, p)
  BY <1>0
<1>5. run'[c].at \notin Deciding /\ run'[c].at \notin {"idle", "listed", "sweep"}
      /\ run[c].at \notin {"listed", "sweep"}
  BY DEF Deciding
<1>6. /\ Held(c)'
      /\ \A k \in run'[c].claims : (k.status # "recovered" /\ isSound(k.path) => isStored(k.path))'
  BY <1>3, <1>4, <1>5, FewerHeld
<1>7. Takes(c)'
  <2>1. holdsClaim(records[run[c].item.path], c)
    BY <1>1 DEF RunOK, Held
  <2>2. \A i \in run'[c].work : i.path \notin X
    BY <1>0, <1>1, <1>5, <2>1 DEF RunOK, Takes
  <2> QED
    BY <1>4, <1>5, <2>2, LessWork
<1>8. Sees(c)'
  BY <1>3, <1>4, <1>5, FewerSeen DEF Deciding
<1>9. Sweeps(c)' /\ Settles(c)'
  BY DEF Sweeps, Settles
<1>10. Fresh(c)'
  BY <1>6 DEF Fresh
<1> QED
  BY <1>6, <1>7, <1>8, <1>9, <1>10 DEF RunOK

LEMMA NextItemGoes ==
  ASSUME BlobInv, NEW c \in Cleaners, NextItem(c)
  PROVE  \E s \in Runs :
           /\ run' = [run EXCEPT ![c] = s] /\ run'[c] = s
           /\ s.item = NoItem /\ s.meta = NoBlob /\ s.at \notin Busy
           /\ s.work = run[c].work /\ s.claims = run[c].claims /\ s.room = run[c].room
           /\ s.at = IF run[c].at \in {"head", "settle", "purge"} THEN "candidates" ELSE "judge"
<1> DEFINE at == IF run[c].at \in {"head", "settle", "purge"} THEN "candidates" ELSE "judge"
           s == [run[c] EXCEPT !.item = NoItem, !.meta = NoBlob, !.at = at]
<1>1. Goes(c, s)
  BY DEF NextItem
<1>2. run[c] \in Runs
  BY RunTypes
<1>3. /\ s.item = NoItem /\ s.meta = NoBlob /\ s.at = at
      /\ s.work = run[c].work /\ s.claims = run[c].claims /\ s.room = run[c].room
  BY <1>2 DEF Runs
<1>4. at \in {"candidates", "judge"} /\ at \notin Busy
  BY DEF Busy, Deciding
<1>5. s \in Runs
  <2>1. NoBlob \in Stamped
    BY DEF NoBlob, Stamped
  <2> QED
    BY <1>2, <1>4, <2>1 DEF Runs
<1> HIDE DEF s
<1>6. run'[c] = s /\ run' = [run EXCEPT ![c] = s]
  BY <1>1, Went
<1> QED
  BY <1>3, <1>4, <1>5, <1>6

\* A reservation is left for the next one.
LEMMA ReservationLeft ==
  ASSUME BlobInv, NEW c \in Cleaners, Calm, UNCHANGED <<asks, finals, edits>>,
         run[c].at \in {"head", "settle", "purge"}, NextItem(c)
  PROVE  BlobInv'
<1>1. PICK s \in Runs :
           /\ run' = [run EXCEPT ![c] = s] /\ run'[c] = s
           /\ s.item = NoItem /\ s.at \notin Busy
           /\ s.work = run[c].work /\ s.claims = run[c].claims
           /\ s.at = "candidates"
  BY NextItemGoes
<1>2. Settles(c)'
  BY <1>1 DEF Settles
<1>3. RunOK(c)'
  BY <1>1, <1>2, ReservationPhase DEF Reserving
<1> QED
  BY <1>1, <1>3, CalmForAll, OthersStay

\* A claim is left for the next one.
LEMMA ClaimLeft ==
  ASSUME BlobInv, NEW c \in Cleaners, CalmFor(c), UNCHANGED <<asks, finals, edits>>,
         run[c].at \in Deciding, NextItem(c),
         \A p \in Paths \ {run[c].item.path} : SparedAt(c, p)
  PROVE  BlobInv'
<1>1. PICK s \in Runs :
           /\ run' = [run EXCEPT ![c] = s] /\ run'[c] = s
           /\ s.item = NoItem /\ s.at \notin Busy
           /\ s.work = run[c].work /\ s.claims = run[c].claims /\ s.room = run[c].room
           /\ s.at = "judge"
  BY NextItemGoes DEF Deciding
<1>2. RunOK(c)'
  BY <1>1, ClaimSettled
<1> QED
  BY <1>1, <1>2, OthersStay

-----------------------------------------------------------------------------
(* The cleanup's reservations.                                             *)

LEMMA ListCandidatesKeeps ==
  ASSUME BlobInv, NEW c \in Cleaners, ListCandidates(c)
  PROVE  BlobInv'
<1> DEFINE work == {Item(p, records[p]) : p \in {q \in aged : records[q].status # "none"}}
           s == [IdleRun EXCEPT !.at = "candidates", !.work = work]
<1>1. /\ Goes(c, s) /\ Keep /\ UNCHANGED <<blobs, agedBlobs, stamp, refs>>
      /\ UNCHANGED <<asks, finals, edits>> /\ run[c].at = "idle"
  BY DEF ListCandidates, others
<1>2. Calm
  BY <1>1, KeepIsCalm
<1>3. work \subseteq Items
  BY PathTypes DEF Item, Items, Records, BlobInv, StoresOK
<1>4. \A i, j \in work : i.path \in Paths /\ (i.path = j.path => i = j)
  BY DEF Item, BlobInv, StoresOK
<1> HIDE DEF work
<1>5. /\ s.at = "candidates" /\ s.work = work /\ s.claims = {} /\ s.room = {} /\ s.item = NoItem
      /\ s.meta = NoBlob
  BY DEF IdleRun
<1>6. s \in Runs
  BY <1>3 DEF IdleRun, Runs, NoBlob, Stamped
<1> HIDE DEF s
<1>7. run'[c] = s /\ run' = [run EXCEPT ![c] = s]
  BY <1>1, Went
<1>8. RunOK(c)'
  <2>1. \A p \in Paths : ~holdsClaim(records'[p], c)
    BY <1>1, RunTypes DEF RunOK, Takes, Keep
  <2>2. Takes(c)'
    BY <1>4, <1>5, <1>7, <2>1 DEF Takes
  <2>3. Held(c)' /\ Sees(c)' /\ Fresh(c)'
    BY <1>5, <1>7 DEF Held, Sees, Fresh, Pending, Deciding
  <2>4. Sweeps(c)' /\ Settles(c)'
    BY <1>5, <1>7 DEF Sweeps, Settles
  <2> QED
    BY <2>2, <2>3, <2>4 DEF RunOK
<1>9. s.at \notin Busy
  BY <1>5 DEF Busy, Deciding
<1> QED
  BY <1>1, <1>2, <1>5, <1>6, <1>7, <1>8, <1>9, CalmForAll, OthersStay

LEMMA ConsiderReservationKeeps ==
  ASSUME BlobInv, NEW c \in Cleaners, ConsiderReservation(c)
  PROVE  BlobInv'
<1> DEFINE r == run[c]
<1>1. PICK i \in reservations(c) :
        Goes(c, [r EXCEPT !.at = "head", !.work = @ \ {i}, !.item = i,
                          !.room = IF @ = {} THEN {refs} ELSE @])
  BY DEF ConsiderReservation
<1>2. /\ Keep /\ UNCHANGED <<blobs, agedBlobs, stamp, refs>>
      /\ UNCHANGED <<asks, finals, edits>> /\ r.at = "candidates"
  BY DEF ConsiderReservation, others
<1>3. Calm
  BY <1>2, KeepIsCalm
<1>4. r \in Runs /\ i \in Items /\ refs \in SUBSET Paths
  BY RunTypes DEF reservations, BlobInv, StoresOK
<1> DEFINE s == [r EXCEPT !.at = "head", !.work = @ \ {i}, !.item = i,
                          !.room = IF @ = {} THEN {refs} ELSE @]
<1>5. s.at = "head" /\ s.work = r.work \ {i} /\ s.item = i /\ s.claims = r.claims
  BY <1>4 DEF Runs
<1>6. s \in Runs
  BY <1>4 DEF Runs, Busy
<1> HIDE DEF s
<1>7. run'[c] = s /\ run' = [run EXCEPT ![c] = s]
  BY <1>1, Went DEF s
<1>8. RunOK(c)'
  <2>1. Settles(c)'
    BY <1>5, <1>7 DEF Settles
  <2> QED
    BY <1>2, <1>3, <1>5, <1>7, <2>1, ReservationPhase DEF Reserving
<1> QED
  BY <1>2, <1>3, <1>4, <1>5, <1>6, <1>7, <1>8, CalmForAll, OthersStay DEF Busy

LEMMA HeadReservationKeeps ==
  ASSUME BlobInv, NEW c \in Cleaners, HeadReservation(c)
  PROVE  BlobInv'
<1> DEFINE r == run[c]
           p == r.item.path
           s == [r EXCEPT !.at = "settle", !.meta = blobs[p]]
<1>1. /\ Goes(c, s) /\ Keep /\ UNCHANGED <<blobs, agedBlobs, stamp, refs>>
      /\ UNCHANGED <<asks, finals, edits>> /\ r.at = "head"
  BY DEF HeadReservation, others
<1>2. Calm
  BY <1>1, KeepIsCalm
<1>3. r \in Runs /\ r.item \in Items /\ p \in Paths /\ blobs[p] \in Stamped /\ blobs[p].etag <= stamp[p]
  BY <1>1, RunTypes, PathTypes DEF PathOK, Busy
<1>4. s.at = "settle" /\ s.work = r.work /\ s.item = r.item /\ s.claims = r.claims
      /\ s.meta = blobs[p]
  BY <1>3 DEF Runs
<1>5. s \in Runs
  BY <1>3 DEF Runs, Busy
<1> HIDE DEF s
<1>6. run'[c] = s /\ run' = [run EXCEPT ![c] = s]
  BY <1>1, Went
<1>7. RunOK(c)'
  <2>1. Settles(c)'
    BY <1>1, <1>3, <1>4, <1>6 DEF Settles, isCurrent
  <2> QED
    BY <1>1, <1>2, <1>4, <1>6, <2>1, ReservationPhase DEF Reserving
<1> QED
  BY <1>1, <1>2, <1>3, <1>4, <1>5, <1>6, <1>7, CalmForAll, OthersStay DEF Busy

LEMMA SettleReservationKeeps ==
  ASSUME BlobInv, NEW c \in Cleaners, SettleReservation(c)
  PROVE  BlobInv'
<1> DEFINE r == run[c]
           p == r.item.path
           meta == r.meta
<1>1. /\ UNCHANGED <<blobs, agedBlobs, stamp, refs>>
      /\ UNCHANGED <<asks, finals, edits>> /\ r.at = "settle"
  BY DEF SettleReservation, others
<1>2. r \in Runs /\ RunOK(c) /\ r.item \in Items /\ p \in Paths /\ meta \in Stamped
  BY <1>1, RunTypes DEF Busy
<1>3. meta.etag <= stamp[p] /\ isCurrent(p, meta)
  BY <1>1, <1>2 DEF RunOK, Settles
<1>4. CASE NextItem(c)
  <2>1. \/ FinalizeRegistration(p, meta)
        \/ Keep
        \/ records[p].status = "reserved" /\ DeleteRegistration(p)
    BY DEF SettleReservation, isReservation
  <2>2. Calm
    BY <1>1, <1>2, <1>3, <2>1, FinalizeIsCalm, KeepIsCalm, DropIsCalm
  <2> QED
    BY <1>1, <1>4, <2>2, ReservationLeft
<1>5. CASE /\ records[p].status = "reserved" /\ DeleteRegistration(p)
           /\ Goes(c, [r EXCEPT !.at = "purge"])
  <2>1. Calm /\ records'[p].status = "none"
    BY <1>1, <1>2, <1>5, DropIsCalm
  <2> DEFINE s == [r EXCEPT !.at = "purge"]
  <2>2. s.at = "purge" /\ s.work = r.work /\ s.item = r.item /\ s.claims = r.claims /\ s.meta = meta
    BY <1>2 DEF Runs
  <2>3. s \in Runs
    BY <1>2 DEF Runs, Busy
  <2> HIDE DEF s
  <2>4. run'[c] = s /\ run' = [run EXCEPT ![c] = s]
    BY <1>5, Went DEF s
  <2>5. Settles(c)'
    BY <1>1, <1>3, <2>1, <2>2, <2>4 DEF Settles, Outlived
  <2>6. RunOK(c)'
    BY <1>1, <2>1, <2>2, <2>4, <2>5, ReservationPhase DEF Reserving
  <2> QED
    BY <1>1, <1>2, <2>1, <2>2, <2>3, <2>4, <2>6, CalmForAll, OthersStay DEF Busy
<1> QED
  BY <1>4, <1>5 DEF SettleReservation, isReservation

LEMMA PurgeReservationKeeps ==
  ASSUME BlobInv, NEW c \in Cleaners, PurgeReservation(c)
  PROVE  BlobInv'
<1> DEFINE p == run[c].item.path
           e == run[c].meta.etag
<1>1. /\ Keep /\ UNCHANGED <<stamp, refs>>
      /\ UNCHANGED <<asks, finals, edits>> /\ run[c].at = "purge" /\ NextItem(c)
      /\ IF deleteRefused(p, e) THEN UNCHANGED <<blobs, agedBlobs>> ELSE DeleteBlob(p)
  BY DEF PurgeReservation, others
<1>2. p \in Paths /\ e \in Nat /\ Outlived(p, e)
  BY <1>1, RunTypes DEF Busy, RunOK, Settles
<1>3. Calm
  BY <1>1, <1>2, PurgeIsCalm
<1> QED
  BY <1>1, <1>3, ReservationLeft

-----------------------------------------------------------------------------
(* The cleanup's claims.                                                   *)

\* A claim is made; K is empty when its answer is lost.
LEMMA ClaimMade ==
  ASSUME BlobInv, NEW c \in Cleaners, run[c].at = "candidates", NEW i \in run[c].work,
         NEW r, r = records[i.path], canClaim(r, i.etag, c), Write(i.path, claimed(r, c)),
         UNCHANGED <<aged, unproven, blobs, agedBlobs, stamp, refs, asks, finals, edits>>,
         NEW K, K \subseteq {[Item(i.path, r) EXCEPT !.status = disposition(r, c)]},
         NEW s \in Runs, Goes(c, s), s.at = "candidates", s.work = run[c].work \ {i},
         s.claims = run[c].claims \cup K, s.item = NoItem
  PROVE  BlobInv'
<1> DEFINE p == i.path
<1>1. p \in Paths /\ r \in Records /\ RunOK(c)
  BY RunTypes, PathTypes
<1>2. /\ ~holdsClaim(r, c)
      /\ \A j \in run[c].work \ {i} : j.path # p
  BY <1>1 DEF RunOK, Takes
<1>3. /\ records' = [records EXCEPT ![p] = claimed(r, c)] /\ claimed(r, c) \in Records
      /\ records'[p] = claimed(r, c)
  <2>1. claimed(r, c) \in Records
    BY <1>1 DEF claimed, Records, Holders
  <2>2. records' = [records EXCEPT ![p] = claimed(r, c)]
    BY DEF Write
  <2> QED
    BY <1>1, <2>1, <2>2 DEF BlobInv, StoresOK
<1>4. Safe(p) /\ \A d \in Cleaners \ {c} : SparedAt(d, p)
  BY <1>1, <1>3, ClaimIsSafe DEF Quiet
<1>5. CalmFor(c) /\ \A q \in Paths \ {p} : SparedAt(c, q)
  <2>1. PICK D : D = Cleaners \ {c}
    OBVIOUS
  <2>2. PICK v \in Records : v = claimed(r, c)
    BY <1>3
  <2>3. /\ records' = [records EXCEPT ![p] = v] /\ UNCHANGED <<blobs, agedBlobs, stamp, refs>>
        /\ aged' \subseteq aged /\ \A q \in Paths \ {p} : q \in unproven' <=> q \in unproven
        /\ Safe(p) /\ \A d \in D : SparedAt(d, p)
    BY <1>3, <1>4, <2>1, <2>2
  <2>4. /\ StoresOK'
        /\ \A q \in Paths \ {p} : \A d : SparedAt(d, q)
        /\ \A q \in Paths : Safe(q) /\ \A d \in D : SparedAt(d, q)
    BY <1>1, <2>3, OneRecord
  <2> QED
    BY <2>1, <2>4 DEF CalmFor
<1>6. run'[c] = s /\ run' = [run EXCEPT ![c] = s]
  BY Went
<1>7. ASSUME NEW k \in K
      PROVE  /\ k.path = p /\ k.etag = r.etag /\ k.size = r.size
             /\ k.status # "recovered" => r.status = "committed"
  <2>1. k.path = p /\ k.etag = r.etag /\ k.size = r.size /\ k.status = disposition(r, c)
    BY DEF Item
  <2>2. r.status = "committed" \/ r.status = "cleanup-claimed"
    BY DEF canClaim, isCommitted
  <2> QED
    BY <1>2, <2>1, <2>2 DEF disposition, holdsClaim
<1>8. \A k, l \in K : k = l
  OBVIOUS
<1>9. /\ records'[p].status = "cleanup-claimed" /\ records'[p].claim = c
      /\ records'[p].createdAt = r.createdAt
      /\ records'[p].etag = r.etag /\ records'[p].size = r.size
  <2>1. /\ claimed(r, c).status = "cleanup-claimed" /\ claimed(r, c).claim = c
        /\ claimed(r, c).createdAt = r.createdAt
        /\ claimed(r, c).etag = r.etag /\ claimed(r, c).size = r.size
    BY <1>1 DEF claimed, Records
  <2> QED
    BY <1>3, <2>1
<1>10. ASSUME NEW k \in run[c].claims
       PROVE  /\ k.path \in Paths \ {p} /\ records'[k.path] = records[k.path]
              /\ holdsClaim(records[k.path], c)
              /\ records[k.path].etag = k.etag /\ records[k.path].size = k.size
              /\ isSound(k.path)' => isSound(k.path)
              /\ isSound(k.path)' /\ isStored(k.path) => isStored(k.path)'
  <2>1. k \in Pending(c) /\ k.path \in Paths
    BY RunTypes DEF Pending
  <2>2. /\ holdsClaim(records[k.path], c)
        /\ records[k.path].etag = k.etag /\ records[k.path].size = k.size
    BY <1>1, <2>1 DEF RunOK, Held
  <2> QED
    BY <1>2, <1>5, <2>1, <2>2 DEF SparedAt
<1>11. Pending(c)' = run[c].claims \cup K
  BY <1>6 DEF Pending, Deciding
<1>12. Held(c)'
  <2>1. \A k \in Pending(c)' :
          /\ holdsClaim(records'[k.path], c)
          /\ records'[k.path].etag = k.etag /\ records'[k.path].size = k.size
    BY <1>7, <1>9, <1>10, <1>11 DEF holdsClaim
  <2>2. \A k, l \in run'[c].claims : k.path = l.path => k = l
    BY <1>1, <1>6, <1>7, <1>8, <1>10 DEF RunOK, Held
  <2>3. run'[c].at \notin Deciding
    BY <1>6 DEF Deciding
  <2> QED
    BY <2>1, <2>2, <2>3 DEF Held
<1>13. Fresh(c)'
  <2>1. ASSUME NEW k \in run[c].claims, k.status # "recovered", isSound(k.path)'
        PROVE  isStored(k.path)'
    BY <1>1, <1>10, <2>1 DEF RunOK, Fresh
  <2>2. ASSUME NEW k \in K, k.status # "recovered", isSound(k.path)'
        PROVE  isStored(k.path)'
    <3>1. k.path = p /\ r.status = "committed"
      BY <1>7, <2>2
    <3>2. isSound(p)
      BY <1>9, <2>2, <3>1 DEF isSound
    <3>3. isStored(p)
      BY <1>1, <3>1, <3>2, PathTypes DEF PathOK, isReferenceEligible
    <3> QED
      BY <1>9, <3>1, <3>3 DEF isStored
  <2> QED
    BY <1>6, <2>1, <2>2 DEF Fresh
<1>14. Takes(c)'
  <2>1. ASSUME NEW j \in run[c].work \ {i}
        PROVE  /\ ~holdsClaim(records'[j.path], c)
               /\ \A l \in run[c].work \ {i} : j.path = l.path => j = l
    <3>1. j.path \in Paths \ {p} /\ ~holdsClaim(records[j.path], c)
      BY <1>1, <1>2, RunTypes DEF RunOK, Takes
    <3>2. \A l \in run[c].work \ {i} : j.path = l.path => j = l
      BY <1>1 DEF RunOK, Takes
    <3> QED
      BY <1>5, <3>1, <3>2 DEF SparedAt
  <2> QED
    BY <1>6, <2>1 DEF Takes
<1>15. Sweeps(c)' /\ Settles(c)' /\ Sees(c)'
  BY <1>6 DEF Sweeps, Settles, Sees, Deciding
<1>16. RunOK(c)'
  BY <1>12, <1>13, <1>14, <1>15 DEF RunOK
<1>17. s.at \notin Busy
  BY DEF Busy, Deciding
<1> QED
  BY <1>5, <1>6, <1>16, <1>17, OthersStay

LEMMA ClaimKeeps ==
  ASSUME BlobInv, NEW c \in Cleaners, Claim(c) \/ ClaimAnswerLost(c)
  PROVE  BlobInv'
<1> DEFINE run0 == run[c]
<1>1. /\ run0 \in Runs /\ run0.at = "candidates" /\ run0.item = NoItem
      /\ UNCHANGED <<blobs, agedBlobs, stamp, refs, asks, finals, edits>>
  BY RunTypes DEF Claim, ClaimAnswerLost, others, Busy, Deciding
<1>2. PICK i \in run0.work :
        LET r == records[i.path]
        IN \/ /\ canClaim(r, i.etag, c) /\ Write(i.path, claimed(r, c))
              /\ Goes(c, [run0 EXCEPT !.work = @ \ {i},
                          !.claims = @ \cup {[Item(i.path, r) EXCEPT !.status = disposition(r, c)]}])
              /\ UNCHANGED <<aged, unproven>>
           \/ /\ canClaim(r, i.etag, c) /\ Write(i.path, claimed(r, c))
              /\ Goes(c, [run0 EXCEPT !.work = @ \ {i}])
              /\ UNCHANGED <<aged, unproven>>
           \/ Keep /\ Goes(c, [run0 EXCEPT !.work = @ \ {i}])
  BY Zenon DEF Claim, ClaimAnswerLost
<1>3. PICK r : r = records[i.path]
  OBVIOUS
<1>4. i.path \in Paths /\ r \in Records
  BY <1>3, RunTypes, PathTypes
<1> DEFINE k == [Item(i.path, r) EXCEPT !.status = disposition(r, c)]
           s == [run0 EXCEPT !.work = @ \ {i}]
           t == [run0 EXCEPT !.work = @ \ {i}, !.claims = @ \cup {k}]
<1>5. k \in Items
  BY <1>4 DEF Item, Items, Records, disposition
<1>6. /\ s \in Runs /\ s.at = "candidates" /\ s.work = run0.work \ {i}
      /\ s.claims = run0.claims /\ s.item = NoItem
  BY <1>1 DEF Runs
<1>7. /\ t \in Runs /\ t.at = "candidates" /\ t.work = run0.work \ {i}
      /\ t.claims = run0.claims \cup {k} /\ t.item = NoItem
  BY <1>1, <1>5 DEF Runs
<1>8. CASE canClaim(r, i.etag, c) /\ Write(i.path, claimed(r, c)) /\ UNCHANGED <<aged, unproven>>
           /\ Goes(c, t)
  <2>1. PICK K : K = {k}
    OBVIOUS
  <2> QED
    BY <1>1, <1>3, <1>7, <1>8, <2>1, ClaimMade
<1>9. CASE canClaim(r, i.etag, c) /\ Write(i.path, claimed(r, c)) /\ UNCHANGED <<aged, unproven>>
           /\ Goes(c, s)
  <2>1. PICK K : K = {}
    OBVIOUS
  <2> HIDE DEF s
  <2> QED
    BY <1>1, <1>3, <1>6, <1>9, <2>1, ClaimMade
<1>10. CASE Keep /\ Goes(c, s)
  <2> HIDE DEF s
  <2>1. Calm
    BY <1>1, <1>10, KeepIsCalm
  <2>2. run'[c] = s /\ run' = [run EXCEPT ![c] = s]
    BY <1>10, Went
  <2>3. Settles(c)'
    BY <1>6, <2>2 DEF Settles
  <2>4. RunOK(c)'
    BY <1>1, <1>6, <2>1, <2>2, <2>3, ReservationPhase DEF Reserving
  <2> QED
    BY <1>1, <1>6, <2>1, <2>2, <2>4, CalmForAll, OthersStay DEF Busy, Deciding
<1> QED
  BY <1>2, <1>3, <1>8, <1>9, <1>10

LEMMA ReadRoomKeeps ==
  ASSUME BlobInv, NEW c \in Cleaners, ReadRoom(c) \/ RoomUnreadable(c)
  PROVE  BlobInv'
<1> DEFINE r == run[c]
           s == [r EXCEPT !.at = "judge", !.room = {refs}]
           t == [r EXCEPT !.at = "release", !.room = {}]
<1>1. /\ Keep /\ UNCHANGED <<blobs, agedBlobs, stamp, refs, asks, finals, edits>>
      /\ r.at = "candidates" /\ (Goes(c, s) \/ Goes(c, t))
  BY DEF ReadRoom, RoomUnreadable, others
<1>2. Calm
  BY <1>1, KeepIsCalm
<1>3. r \in Runs /\ r.item = NoItem /\ RunOK(c) /\ refs \in SUBSET Paths
  BY <1>1, RunTypes DEF Busy, Deciding, BlobInv, StoresOK
<1>4. CASE Goes(c, s)
  <2>1. /\ s.at = "judge" /\ s.work = r.work /\ s.claims = r.claims /\ s.item = NoItem
        /\ s.room = {refs}
    BY <1>3 DEF Runs
  <2>2. s \in Runs
    BY <1>3 DEF Runs
  <2> HIDE DEF s
  <2>3. run'[c] = s /\ run' = [run EXCEPT ![c] = s]
    BY <1>4, Went
  <2>4. PICK X : X = {}
    OBVIOUS
  <2>5. Pending(c)' = r.claims /\ r.claims \subseteq Pending(c)
    BY <2>1, <2>3 DEF Pending, Deciding
  <2>6. \A p \in Paths \ X : SparedAt(c, p)
    BY <1>2, CalmForAll
  <2>7. run'[c].at \notin Deciding
    BY <2>1, <2>3 DEF Deciding
  <2>8. /\ Held(c)'
        /\ \A k \in run'[c].claims : (k.status # "recovered" /\ isSound(k.path) => isStored(k.path))'
    BY <2>1, <2>3, <2>4, <2>5, <2>6, <2>7, FewerHeld
  <2>9. Takes(c)'
    BY <1>1, <2>1, <2>3, <2>4, <2>6, LessWork
  <2>10. Sees(c)'
    BY <1>1, <2>1, <2>3 DEF Sees, Deciding
  <2>11. Sweeps(c)' /\ Settles(c)' /\ Fresh(c)'
    BY <2>1, <2>3, <2>8 DEF Sweeps, Settles, Fresh
  <2>12. RunOK(c)'
    BY <2>8, <2>9, <2>10, <2>11 DEF RunOK
  <2> QED
    BY <1>1, <1>2, <2>1, <2>2, <2>3, <2>12, CalmForAll, OthersStay DEF Busy, Deciding
<1>5. CASE Goes(c, t)
  <2>1. t.at = "release" /\ t.work = r.work /\ t.claims = r.claims /\ t.item = NoItem
    BY <1>3 DEF Runs
  <2>2. t \in Runs
    BY <1>3 DEF Runs
  <2> HIDE DEF t
  <2>3. run'[c] = t /\ run' = [run EXCEPT ![c] = t]
    BY <1>5, Went
  <2>4. Settles(c)'
    BY <2>1, <2>3 DEF Settles
  <2>5. RunOK(c)'
    BY <1>1, <1>2, <2>1, <2>3, <2>4, ReservationPhase DEF Reserving
  <2> QED
    BY <1>1, <1>2, <2>1, <2>2, <2>3, <2>5, CalmForAll, OthersStay DEF Busy, Deciding
<1> QED
  BY <1>1, <1>4, <1>5

\* The registration of a claim is put back, as CalmFor the other invocations.
LEMMA ReleaseIsCalm ==
  ASSUME BlobInv, NEW p \in Paths, NEW c \in Cleaners, holdsClaim(records[p], c),
         Write(p, released(records[p])), aged' = aged \ {p},
         UNCHANGED <<blobs, agedBlobs, stamp, refs>>,
         p \in unproven => p \in unproven',
         \A q \in Paths \ {p} : q \in unproven' <=> q \in unproven,
         isSound(p) /\ p \notin unproven' => isStored(p)
  PROVE  CalmFor(c) /\ \A q \in Paths \ {p} : SparedAt(c, q)
<1>1. PICK v \in Records : v = released(records[p])
  BY PathTypes DEF released, Records, Holders
<1>2. records' = [records EXCEPT ![p] = v]
  BY <1>1 DEF Write
<1>3. records'[p] = released(records[p])
  BY <1>1, <1>2 DEF BlobInv, StoresOK
<1>4. Safe(p) /\ \A d \in Cleaners \ {c} : SparedAt(d, p)
  BY <1>3, ReleaseIsSafe
<1>5. PICK D : D = Cleaners \ {c}
  OBVIOUS
<1>6. aged' \subseteq aged /\ \A d \in D : SparedAt(d, p)
  BY <1>4, <1>5
<1>7. /\ StoresOK'
      /\ \A q \in Paths \ {p} : \A d : SparedAt(d, q)
      /\ \A q \in Paths : Safe(q) /\ \A d \in D : SparedAt(d, q)
  BY <1>2, <1>4, <1>6, OneRecord
<1> QED
  BY <1>5, <1>7 DEF CalmFor

LEMMA ReleaseUnreadKeeps ==
  ASSUME BlobInv, NEW c \in Cleaners, ReleaseUnread(c)
  PROVE  BlobInv'
<1> DEFINE r == run[c]
<1>1. PICK k \in r.claims :
        /\ Goes(c, [r EXCEPT !.claims = @ \ {k}])
        /\ IF holdsClaim(records[k.path], c)
             THEN /\ Write(k.path, released(records[k.path]))
                  /\ aged' = aged \ {k.path}
                  /\ unproven' = IF k.status = "recovered" THEN unproven \cup {k.path} ELSE unproven
             ELSE Keep
  BY DEF ReleaseUnread
<1>2. r.at = "release" /\ UNCHANGED <<blobs, agedBlobs, stamp, refs, asks, finals, edits>>
  BY DEF ReleaseUnread, others
<1>3. r \in Runs /\ RunOK(c) /\ r.item = NoItem /\ k \in Pending(c) /\ k.path \in Paths
  BY <1>2, RunTypes DEF Pending, Busy, Deciding
<1>4. holdsClaim(records[k.path], c)
  BY <1>3 DEF RunOK, Held
<1>5. k.status # "recovered" /\ isSound(k.path) => isStored(k.path)
  BY <1>3 DEF RunOK, Fresh
<1> DEFINE p == k.path
           s == [r EXCEPT !.claims = @ \ {k}]
<1>6. CalmFor(c) /\ \A q \in Paths \ {p} : SparedAt(c, q)
  <2>1. /\ p \in unproven => p \in unproven'
        /\ \A q \in Paths \ {p} : q \in unproven' <=> q \in unproven
        /\ isSound(p) /\ p \notin unproven' => isStored(p)
    BY <1>1, <1>4, <1>5
  <2> QED
    BY <1>1, <1>2, <1>3, <1>4, <2>1, ReleaseIsCalm
<1>7. s.at = "release" /\ s.work = r.work /\ s.claims = r.claims \ {k} /\ s.item = NoItem
  BY <1>2, <1>3 DEF Runs
<1>8. s \in Runs
  BY <1>3 DEF Runs
<1> HIDE DEF s
<1>9. run'[c] = s /\ run' = [run EXCEPT ![c] = s]
  BY <1>1, Went DEF s
<1>10. PICK X : X = {p}
  OBVIOUS
<1>11. \A l \in Pending(c)' : l \in Pending(c) /\ l.path \notin X
  <2>1. Pending(c)' = r.claims \ {k} /\ Pending(c) = r.claims
    BY <1>2, <1>7, <1>9 DEF Pending, Deciding
  <2> QED
    BY <1>3, <1>10, <2>1 DEF RunOK, Held
<1>12. run'[c].at \notin Deciding
  BY <1>7, <1>9 DEF Deciding
<1>13. /\ Held(c)'
       /\ \A l \in run'[c].claims : (l.status # "recovered" /\ isSound(l.path) => isStored(l.path))'
  BY <1>6, <1>7, <1>9, <1>10, <1>11, <1>12, FewerHeld
<1>14. Takes(c)'
  <2>1. \A i \in run'[c].work : i.path \notin X
    BY <1>2, <1>3, <1>4, <1>7, <1>9, <1>10 DEF RunOK, Takes
  <2> QED
    BY <1>2, <1>6, <1>7, <1>9, <1>10, <2>1, LessWork
<1>15. Sweeps(c)' /\ Settles(c)' /\ Sees(c)' /\ Fresh(c)'
  BY <1>7, <1>9, <1>13 DEF Sweeps, Settles, Sees, Fresh, Deciding
<1>16. RunOK(c)'
  BY <1>13, <1>14, <1>15 DEF RunOK
<1> QED
  BY <1>2, <1>6, <1>7, <1>8, <1>9, <1>16, OthersStay DEF Busy, Deciding

LEMMA ExamineKeeps ==
  ASSUME BlobInv, NEW c \in Cleaners, Examine(c)
  PROVE  BlobInv'
<1> DEFINE r == run[c]
<1>1. PICK k \in r.claims :
        Goes(c, [r EXCEPT !.at = "decide", !.claims = @ \ {k}, !.item = k,
                          !.meta = IF k.status = "recovered" THEN blobs[k.path] ELSE NoBlob])
  BY DEF Examine
<1>2. /\ Keep /\ UNCHANGED <<blobs, agedBlobs, stamp, refs, asks, finals, edits>>
      /\ r.at = "judge"
  BY DEF Examine, others
<1>3. Calm
  BY <1>2, KeepIsCalm
<1>4. r \in Runs /\ RunOK(c) /\ k \in Items /\ k \in Pending(c) /\ k.path \in Paths
  BY RunTypes DEF Pending
<1> DEFINE meta == IF k.status = "recovered" THEN blobs[k.path] ELSE NoBlob
           s == [r EXCEPT !.at = "decide", !.claims = @ \ {k}, !.item = k, !.meta = meta]
<1>5. meta \in Stamped
  BY <1>4, PathTypes DEF NoBlob, Stamped
<1> HIDE DEF meta
<1>6. /\ s.at = "decide" /\ s.work = r.work /\ s.claims = r.claims \ {k} /\ s.item = k
      /\ s.meta = meta /\ s.room = r.room
  BY <1>4 DEF Runs
<1>7. s \in Runs
  BY <1>4, <1>5 DEF Runs, Busy, Deciding
<1>8. Goes(c, s)
  BY <1>1 DEF meta
<1> HIDE DEF s
<1>9. run'[c] = s /\ run' = [run EXCEPT ![c] = s]
  BY <1>8, Went
<1>10. PICK X : X = {}
  OBVIOUS
<1>11. Pending(c)' = r.claims /\ r.claims \subseteq Pending(c) /\ k \in Pending(c)'
  BY <1>6, <1>9 DEF Pending, Deciding
<1>12. \A p \in Paths \ X : SparedAt(c, p)
  BY <1>3, CalmForAll
<1>13. /\ Held(c)'
       /\ \A l \in run'[c].claims : (l.status # "recovered" /\ isSound(l.path) => isStored(l.path))'
  BY <1>6, <1>9, <1>10, <1>11, <1>12, FewerHeld
<1>14. Takes(c)'
  BY <1>2, <1>6, <1>9, <1>10, <1>12, LessWork
<1>15. Sees(c)'
  BY <1>2, <1>6, <1>9, <1>10, <1>11, <1>12, FewerSeen DEF Deciding
<1>16. Fresh(c)'
  <2>1. ASSUME isSound(k.path)', k.status = "recovered" => isProven(c)'
        PROVE  isStored(k.path)'
    <3>1. CASE k.status # "recovered"
      <4>1. isSound(k.path) /\ (isStored(k.path) => isStored(k.path)')
        BY <1>10, <1>11, <1>12, <2>1, PendingStays
      <4> QED
        BY <1>4, <3>1, <4>1 DEF RunOK, Fresh
    <3>2. CASE k.status = "recovered"
      <4>1. blobs[k.path] = [etag |-> k.etag, size |-> k.size]
        BY <1>6, <1>9, <2>1, <3>2 DEF isProven, meta
      <4>2. records[k.path].etag = k.etag /\ records[k.path].size = k.size
        BY <1>4 DEF RunOK, Held
      <4> QED
        BY <1>2, <4>1, <4>2 DEF isStored, Keep
    <3> QED
      BY <3>1, <3>2
  <2>2. run'[c].item = k
    BY <1>6, <1>9
  <2>3. (isSound(run[c].item.path) /\ (run[c].item.status = "recovered" => isProven(c))
           => isStored(run[c].item.path))'
    BY <2>1, <2>2 DEF isSound, isStored
  <2>4. \A l \in run'[c].claims : (l.status # "recovered" /\ isSound(l.path) => isStored(l.path))'
    BY <1>13
  <2> QED
    BY <2>3, <2>4 DEF Fresh
<1>17. Sweeps(c)' /\ Settles(c)'
  BY <1>6, <1>9 DEF Sweeps, Settles
<1>18. RunOK(c)'
  BY <1>13, <1>14, <1>15, <1>16, <1>17 DEF RunOK
<1> QED
  BY <1>2, <1>3, <1>4, <1>6, <1>7, <1>9, <1>18, CalmForAll, OthersStay DEF Busy, Deciding

\* The item at hand is deleted, or is about to be.
LEMMA ClaimGoesOn ==
  ASSUME BlobInv, NEW c \in Cleaners, run[c].at \in Deciding, run'[c].at \in {"delete", "forget"},
         run'[c].item = run[c].item, run'[c].claims = run[c].claims,
         run'[c].work = run[c].work, run'[c].room = run[c].room,
         NEW p, p = run[c].item.path, \A q \in Paths \ {p} : SparedAt(c, q),
         records'[p] = records[p], p \notin refs', p \notin UNION run[c].room
  PROVE  RunOK(c)'
<1>1. RunOK(c) /\ run[c].item \in Pending(c) /\ run[c].claims \subseteq Pending(c)
  BY RunTypes DEF Pending
<1>2. Pending(c)' = run[c].claims \cup {run[c].item} /\ run[c].at \notin {"listed", "sweep"}
      /\ run'[c].at \in Deciding
  BY DEF Pending, Deciding
<1>3. /\ holdsClaim(records[p], c)
      /\ records[p].etag = run[c].item.etag /\ records[p].size = run[c].item.size
  BY <1>1 DEF RunOK, Held
<1>4. ASSUME NEW k \in run[c].claims
      PROVE  /\ k.path \in Paths \ {p} /\ records'[k.path] = records[k.path]
             /\ holdsClaim(records[k.path], c)
             /\ records[k.path].etag = k.etag /\ records[k.path].size = k.size
             /\ isSound(k.path)' => isSound(k.path)
             /\ isSound(k.path)' /\ isStored(k.path) => isStored(k.path)'
             /\ k.path \in refs' => k.path \in refs
  <2>1. k \in Pending(c) /\ k.path \in Paths /\ k.path # p
    BY <1>1, RunTypes DEF RunOK, Held
  <2>2. /\ holdsClaim(records[k.path], c)
        /\ records[k.path].etag = k.etag /\ records[k.path].size = k.size
    BY <1>1, <2>1 DEF RunOK, Held
  <2> QED
    BY <2>1, <2>2 DEF SparedAt
<1>5. Held(c)'
  <2>1. \A k \in Pending(c)' :
          /\ holdsClaim(records'[k.path], c)
          /\ records'[k.path].etag = k.etag /\ records'[k.path].size = k.size
    BY <1>2, <1>3, <1>4
  <2>2. \A k, l \in run'[c].claims : k.path = l.path => k = l
    BY <1>1 DEF RunOK, Held
  <2>3. \A k \in run'[c].claims : k.path # run'[c].item.path
    BY <1>4
  <2> QED
    BY <2>1, <2>2, <2>3 DEF Held
<1>6. Fresh(c)'
  <2>1. ASSUME NEW k \in run'[c].claims, k.status # "recovered", isSound(k.path)'
        PROVE  isStored(k.path)'
    BY <1>1, <1>4, <2>1 DEF RunOK, Fresh
  <2> QED
    BY <2>1 DEF Fresh
<1>7. Takes(c)'
  <2>1. ASSUME NEW j \in run[c].work
        PROVE  /\ ~holdsClaim(records'[j.path], c)
               /\ \A l \in run[c].work : j.path = l.path => j = l
    <3>1. j.path \in Paths /\ ~holdsClaim(records[j.path], c)
      BY <1>1, <1>2, RunTypes DEF RunOK, Takes
    <3>2. \A l \in run[c].work : j.path = l.path => j = l
      BY <1>1, <1>2 DEF RunOK, Takes
    <3> QED
      BY <1>3, <3>1, <3>2 DEF SparedAt
  <2> QED
    BY <2>1 DEF Takes
<1>8. Sees(c)'
  BY <1>1, <1>2, <1>4 DEF RunOK, Sees
<1>9. Sweeps(c)' /\ Settles(c)'
  BY DEF Sweeps, Settles
<1> QED
  BY <1>5, <1>6, <1>7, <1>8, <1>9 DEF RunOK

LEMMA ForgetIsCalm ==
  ASSUME BlobInv, NEW p \in Paths, NEW c \in Cleaners, holdsClaim(records[p], c), p \notin refs,
         Keep \/ DeleteRegistration(p), UNCHANGED <<blobs, agedBlobs, stamp, refs>>
  PROVE  CalmFor(c) /\ \A q \in Paths \ {p} : SparedAt(c, q)
<1>1. CASE Keep
  BY <1>1, KeepIsCalm, CalmForAll
<1>2. CASE DeleteRegistration(p)
  <2>1. /\ records' = [records EXCEPT ![p] = Absent] /\ aged' \subseteq aged
        /\ \A q \in Paths \ {p} : q \in unproven' <=> q \in unproven
    BY <1>2 DEF DeleteRegistration, Write
  <2>2. records'[p] = Absent /\ Absent \in Records
    BY <2>1 DEF BlobInv, StoresOK, Absent, Records, Holders
  <2>3. Safe(p) /\ \A d \in Cleaners \ {c} : SparedAt(d, p)
    BY <2>2, ForgetIsSafe
  <2>4. PICK D : D = Cleaners \ {c}
    OBVIOUS
  <2>5. \A d \in D : SparedAt(d, p)
    BY <2>3, <2>4
  <2>6. /\ StoresOK'
        /\ \A q \in Paths \ {p} : \A d : SparedAt(d, q)
        /\ \A q \in Paths : Safe(q) /\ \A d \in D : SparedAt(d, q)
    BY <2>1, <2>2, <2>3, <2>5, OneRecord
  <2> QED
    BY <2>4, <2>6 DEF CalmFor
<1> QED
  BY <1>1, <1>2

LEMMA TakeIsCalm ==
  ASSUME BlobInv, NEW p \in Paths, NEW c \in Cleaners, holdsClaim(records[p], c), p \notin refs,
         Keep, DeleteBlob(p), UNCHANGED <<stamp, refs>>
  PROVE  CalmFor(c) /\ \A q \in Paths \ {p} : SparedAt(c, q)
<1>1. /\ blobs' = [blobs EXCEPT ![p] = NoBlob] /\ agedBlobs' \subseteq agedBlobs
      /\ UNCHANGED <<records, aged, unproven>>
  BY DEF DeleteBlob, Keep
<1>2. blobs'[p] = NoBlob /\ \A q \in Paths \ {p} : blobs'[q] = blobs[q]
  BY <1>1 DEF BlobInv, StoresOK
<1>3. Safe(p) /\ \A d \in Cleaners \ {c} : SparedAt(d, p)
  BY <1>1, <1>2, TakeIsSafe DEF Quiet
<1>4. \A q \in Paths \ {p} : Safe(q) /\ \A d : SparedAt(d, q)
  BY <1>1, <1>2, SameIsSafe DEF SameAt
<1>5. NoBlob \in Stamped
  BY DEF NoBlob, Stamped
<1>6. StoresOK'
  BY <1>1, <1>5 DEF BlobInv, StoresOK
<1> QED
  BY <1>3, <1>4, <1>6 DEF CalmFor

\* The claim at hand is the invocation's, and the room it read has its path.
LEMMA AtHand ==
  ASSUME BlobInv, NEW c \in Cleaners, run[c].at \in Deciding, NEW p, p = run[c].item.path
  PROVE  /\ p \in Paths /\ run[c] \in Runs /\ run[c].item \in Items
         /\ holdsClaim(records[p], c)
         /\ records[p].etag = run[c].item.etag /\ records[p].size = run[c].item.size
         /\ p \in refs => p \in UNION run[c].room
         /\ run[c].at \in {"delete", "forget"} => p \notin UNION run[c].room /\ p \notin refs
<1>1. RunOK(c) /\ run[c].item \in Pending(c) /\ run[c].item \in Items /\ run[c] \in Runs
  BY RunTypes DEF Pending, Busy
<1>2. p \in Paths
  BY <1>1, RunTypes
<1>3. /\ holdsClaim(records[p], c)
      /\ records[p].etag = run[c].item.etag /\ records[p].size = run[c].item.size
  BY <1>1 DEF RunOK, Held
<1>4. /\ p \in refs => p \in UNION run[c].room
      /\ run[c].at \in {"delete", "forget"} => p \notin UNION run[c].room
  BY <1>1 DEF RunOK, Sees
<1> QED
  BY <1>1, <1>2, <1>3, <1>4

LEMMA DecideKeeps ==
  ASSUME BlobInv, NEW c \in Cleaners, Decide(c)
  PROVE  BlobInv'
<1> DEFINE r == run[c]
<1>0. PICK p : p = r.item.path
  OBVIOUS
<1>1. /\ UNCHANGED <<blobs, agedBlobs, stamp, refs, asks, finals, edits>>
      /\ r.at = "decide" /\ r.at \in Deciding
  BY DEF Decide, others, Deciding
<1>2. /\ p \in Paths /\ r \in Runs /\ r.item \in Items /\ holdsClaim(records[p], c)
      /\ records[p].etag = r.item.etag /\ (p \in refs => p \in UNION r.room)
  BY <1>0, <1>1, AtHand
<1>3. \/ /\ r.item.status = "recovered" => isProven(c)
         /\ Write(p, released(records[p])) /\ aged' = aged \ {p} /\ UNCHANGED unproven
         /\ NextItem(c)
      \/ Keep /\ NextItem(c)
      \/ p \notin UNION r.room /\ DeleteRegistration(p) /\ NextItem(c)
      \/ /\ p \notin UNION r.room /\ Write(p, claimed(records[p], c))
         /\ Goes(c, [r EXCEPT !.at = "delete"]) /\ UNCHANGED <<aged, unproven>>
  BY <1>0 DEF Decide
<1>4. CASE /\ r.item.status = "recovered" => isProven(c)
           /\ Write(p, released(records[p])) /\ aged' = aged \ {p} /\ UNCHANGED unproven
           /\ NextItem(c)
  <2>1. isSound(p) => isStored(p)
    BY <1>0, <1>1, <1>4, RunTypes DEF RunOK, Fresh
  <2>2. CalmFor(c) /\ \A q \in Paths \ {p} : SparedAt(c, q)
    BY <1>1, <1>2, <1>4, <2>1, ReleaseIsCalm
  <2> QED
    BY <1>0, <1>1, <1>4, <2>2, ClaimLeft
<1>5. CASE Keep /\ NextItem(c)
  <2>1. CalmFor(c) /\ \A q \in Paths \ {p} : SparedAt(c, q)
    BY <1>1, <1>5, KeepIsCalm, CalmForAll
  <2> QED
    BY <1>0, <1>1, <1>5, <2>1, ClaimLeft
<1>6. CASE p \notin UNION r.room /\ DeleteRegistration(p) /\ NextItem(c)
  <2>1. CalmFor(c) /\ \A q \in Paths \ {p} : SparedAt(c, q)
    BY <1>1, <1>2, <1>6, ForgetIsCalm
  <2> QED
    BY <1>0, <1>1, <1>6, <2>1, ClaimLeft
<1>7. CASE /\ p \notin UNION r.room /\ Write(p, claimed(records[p], c))
           /\ Goes(c, [r EXCEPT !.at = "delete"]) /\ UNCHANGED <<aged, unproven>>
  <2>1. claimed(records[p], c) = records[p]
    BY <1>2, PathTypes DEF claimed, holdsClaim, Records
  <2>2. records' = records
    BY <1>2, <1>7, <2>1 DEF Write, BlobInv, StoresOK
  <2>3. Calm
    BY <1>1, <1>7, <2>2, NothingWritten DEF BlobInv, StoresOK
  <2> DEFINE s == [r EXCEPT !.at = "delete"]
  <2>4. /\ s.at = "delete" /\ s.work = r.work /\ s.claims = r.claims /\ s.item = r.item
        /\ s.room = r.room
    BY <1>2 DEF Runs
  <2>5. s \in Runs
    BY <1>2 DEF Runs, Busy, Deciding
  <2> HIDE DEF s
  <2>6. run'[c] = s /\ run' = [run EXCEPT ![c] = s]
    BY <1>7, Went DEF s
  <2>7. CalmFor(c) /\ \A q \in Paths \ {p} : SparedAt(c, q)
    BY <2>3, CalmForAll
  <2>8. p \notin refs' /\ records'[p] = records[p]
    BY <1>1, <1>2, <1>7, <2>2
  <2>9. RunOK(c)'
    BY <1>0, <1>1, <1>7, <2>4, <2>6, <2>7, <2>8, ClaimGoesOn
  <2> QED
    BY <1>1, <1>2, <2>4, <2>5, <2>6, <2>7, <2>9, OthersStay DEF Busy, Deciding
<1> QED
  BY <1>3, <1>4, <1>5, <1>6, <1>7

LEMMA DeleteClaimedKeeps ==
  ASSUME BlobInv, NEW c \in Cleaners, DeleteClaimed(c) \/ DeleteAnswerLost(c)
  PROVE  BlobInv'
<1> DEFINE r == run[c]
<1>0. PICK p : p = r.item.path
  OBVIOUS
<1>1. /\ Keep /\ UNCHANGED <<stamp, refs, asks, finals, edits>>
      /\ r.at = "delete" /\ r.at \in Deciding
  BY DEF DeleteClaimed, DeleteAnswerLost, others, Deciding
<1>2. /\ p \in Paths /\ r \in Runs /\ r.item \in Items /\ holdsClaim(records[p], c)
      /\ p \notin refs /\ p \notin UNION r.room
  BY <1>0, <1>1, AtHand
<1>3. \/ NextItem(c) /\ UNCHANGED <<blobs, agedBlobs>>
      \/ DeleteBlob(p) /\ NextItem(c)
      \/ DeleteBlob(p) /\ Goes(c, [r EXCEPT !.at = "forget"])
  BY <1>0 DEF DeleteClaimed, DeleteAnswerLost
<1>4. CalmFor(c) /\ \A q \in Paths \ {p} : SparedAt(c, q)
  <2>1. CASE UNCHANGED <<blobs, agedBlobs>>
    BY <1>1, <2>1, KeepIsCalm, CalmForAll
  <2>2. CASE DeleteBlob(p)
    BY <1>1, <1>2, <2>2, TakeIsCalm
  <2> QED
    BY <1>3, <2>1, <2>2
<1>5. CASE NextItem(c)
  BY <1>0, <1>1, <1>4, <1>5, ClaimLeft
<1>6. CASE Goes(c, [r EXCEPT !.at = "forget"])
  <2> DEFINE s == [r EXCEPT !.at = "forget"]
  <2>1. /\ s.at = "forget" /\ s.work = r.work /\ s.claims = r.claims /\ s.item = r.item
        /\ s.room = r.room
    BY <1>2 DEF Runs
  <2>2. s \in Runs
    BY <1>2 DEF Runs, Busy, Deciding
  <2> HIDE DEF s
  <2>3. run'[c] = s /\ run' = [run EXCEPT ![c] = s]
    BY <1>6, Went DEF s
  <2>4. p \notin refs' /\ records'[p] = records[p]
    BY <1>1, <1>2 DEF Keep
  <2>5. RunOK(c)'
    BY <1>0, <1>1, <1>2, <1>4, <2>1, <2>3, <2>4, ClaimGoesOn
  <2> QED
    BY <1>1, <1>2, <1>4, <2>1, <2>2, <2>3, <2>5, OthersStay DEF Busy, Deciding
<1> QED
  BY <1>3, <1>5, <1>6

LEMMA ForgetKeeps ==
  ASSUME BlobInv, NEW c \in Cleaners, Forget(c)
  PROVE  BlobInv'
<1>0. PICK p : p = run[c].item.path
  OBVIOUS
<1>1. /\ UNCHANGED <<blobs, agedBlobs, stamp, refs, asks, finals, edits>>
      /\ run[c].at = "forget" /\ run[c].at \in Deciding /\ NextItem(c)
      /\ Keep \/ DeleteRegistration(p)
  BY <1>0 DEF Forget, others, Deciding
<1>2. p \in Paths /\ holdsClaim(records[p], c) /\ p \notin refs
  BY <1>0, <1>1, AtHand
<1>3. CalmFor(c) /\ \A q \in Paths \ {p} : SparedAt(c, q)
  BY <1>1, <1>2, ForgetIsCalm
<1> QED
  BY <1>0, <1>1, <1>3, ClaimLeft

-----------------------------------------------------------------------------
(* Blobs without a record, the end of an invocation, and its faults.       *)

LEMMA ListBlobsKeeps ==
  ASSUME BlobInv, NEW c \in Cleaners, ListBlobs(c)
  PROVE  BlobInv'
<1> DEFINE work == {[NoItem EXCEPT !.path = p, !.etag = blobs[p].etag] : p \in agedBlobs}
           s == [IdleRun EXCEPT !.at = "listed", !.work = work]
<1>1. /\ Goes(c, s) /\ Keep /\ UNCHANGED <<blobs, agedBlobs, stamp, refs, asks, finals, edits>>
  BY DEF ListBlobs, others
<1>2. Calm
  BY <1>1, KeepIsCalm
<1>3. \A i \in work : i \in Items /\ i.path \in Paths /\ i.etag <= stamp[i.path]
  <2> TAKE i \in work
  <2>1. PICK p \in agedBlobs : i = [NoItem EXCEPT !.path = p, !.etag = blobs[p].etag]
    OBVIOUS
  <2>2. p \in Paths
    BY DEF BlobInv, StoresOK
  <2>3. i.path = p /\ i.etag = blobs[p].etag
    BY <2>1 DEF NoItem
  <2>4. i \in Items
    BY <2>1, <2>2, PathTypes DEF NoItem, Items
  <2> QED
    BY <2>2, <2>3, <2>4, PathTypes DEF PathOK
<1> HIDE DEF work
<1>4. /\ s.at = "listed" /\ s.work = work /\ s.claims = {} /\ s.room = {} /\ s.item = NoItem
  BY DEF IdleRun
<1>5. s \in Runs
  BY <1>3 DEF IdleRun, Runs, NoBlob, Stamped
<1> HIDE DEF s
<1>6. run'[c] = s /\ run' = [run EXCEPT ![c] = s]
  BY <1>1, Went
<1>7. RunOK(c)'
  <2>1. Sweeps(c)'
    BY <1>1, <1>3, <1>4, <1>6 DEF Sweeps
  <2>2. Held(c)' /\ Sees(c)' /\ Fresh(c)'
    BY <1>4, <1>6 DEF Held, Sees, Fresh, Pending, Deciding
  <2>3. Takes(c)' /\ Settles(c)'
    BY <1>4, <1>6 DEF Takes, Settles
  <2> QED
    BY <2>1, <2>2, <2>3 DEF RunOK
<1> QED
  BY <1>1, <1>2, <1>4, <1>5, <1>6, <1>7, CalmForAll, OthersStay DEF Busy, Deciding

LEMMA SweepPhase ==
  ASSUME BlobInv, NEW c \in Cleaners, Calm, UNCHANGED <<asks, finals, edits>>,
         run[c].at \in {"listed", "sweep"}, NEW work \in SUBSET run[c].work,
         Goes(c, [run[c] EXCEPT !.at = "sweep", !.work = work]),
         \A i \in work : (i.etag <= stamp[i.path] /\ Outlived(i.path, i.etag))'
  PROVE  BlobInv'
<1> DEFINE r == run[c]
           s == [r EXCEPT !.at = "sweep", !.work = work]
<1>1. r \in Runs /\ r.item = NoItem /\ work \in SUBSET Items
  BY RunTypes DEF Busy, Deciding
<1>2. s.at = "sweep" /\ s.work = work /\ s.claims = r.claims /\ s.item = NoItem
  BY <1>1 DEF Runs
<1>3. s \in Runs
  BY <1>1 DEF Runs
<1> HIDE DEF s
<1>4. run'[c] = s /\ run' = [run EXCEPT ![c] = s]
  BY Went DEF s
<1>5. PICK X : X = {}
  OBVIOUS
<1>6. Pending(c)' = r.claims /\ r.claims \subseteq Pending(c)
  BY <1>2, <1>4 DEF Pending, Deciding
<1>7. \A p \in Paths \ X : SparedAt(c, p)
  BY CalmForAll
<1>8. run'[c].at \notin Deciding
  BY <1>2, <1>4 DEF Deciding
<1>9. /\ Held(c)'
      /\ \A k \in run'[c].claims : (k.status # "recovered" /\ isSound(k.path) => isStored(k.path))'
  BY <1>2, <1>4, <1>5, <1>6, <1>7, <1>8, FewerHeld
<1>10. Sweeps(c)'
  BY <1>2, <1>4 DEF Sweeps
<1>11. Takes(c)' /\ Settles(c)' /\ Sees(c)' /\ Fresh(c)'
  BY <1>2, <1>4, <1>9 DEF Takes, Settles, Sees, Fresh, Deciding
<1>12. RunOK(c)'
  BY <1>9, <1>10, <1>11 DEF RunOK
<1> QED
  BY <1>2, <1>3, <1>4, <1>12, CalmForAll, OthersStay DEF Busy, Deciding

LEMMA GetRegistrationsKeeps ==
  ASSUME BlobInv, NEW c \in Cleaners, GetRegistrations(c)
  PROVE  BlobInv'
<1>1. PICK work : work = {i \in run[c].work : records[i.path].status = "none"}
  OBVIOUS
<1>2. /\ Keep /\ UNCHANGED <<blobs, agedBlobs, stamp, refs, asks, finals, edits>>
      /\ run[c].at = "listed" /\ run[c] \in Runs /\ RunOK(c)
      /\ Goes(c, [run[c] EXCEPT !.at = "sweep", !.work = work])
  BY <1>1, RunTypes DEF GetRegistrations, others
<1>3. Calm
  BY <1>2, KeepIsCalm
<1>4. \A i \in work : (i.etag <= stamp[i.path] /\ Outlived(i.path, i.etag))'
  BY <1>1, <1>2 DEF RunOK, Sweeps, Outlived, Keep
<1> QED
  BY <1>1, <1>2, <1>3, <1>4, SweepPhase

LEMMA SweepBlobKeeps ==
  ASSUME BlobInv, NEW c \in Cleaners, SweepBlob(c)
  PROVE  BlobInv'
<1>1. PICK i \in run[c].work :
        /\ Goes(c, [run[c] EXCEPT !.work = @ \ {i}])
        /\ IF deleteRefused(i.path, i.etag) THEN UNCHANGED <<blobs, agedBlobs>> ELSE DeleteBlob(i.path)
  BY DEF SweepBlob
<1>2. /\ Keep /\ UNCHANGED <<stamp, refs, asks, finals, edits>>
      /\ run[c].at = "sweep" /\ run[c] \in Runs /\ RunOK(c)
  BY RunTypes DEF SweepBlob, others
<1>3. \A j \in run[c].work : /\ j.path \in Paths /\ j.etag \in Nat
                             /\ j.etag <= stamp[j.path] /\ Outlived(j.path, j.etag)
  BY <1>2, RunTypes DEF RunOK, Sweeps
<1>4. Calm
  BY <1>1, <1>2, <1>3, PurgeIsCalm
<1>5. PICK work : work = run[c].work \ {i}
  OBVIOUS
<1>6. [run[c] EXCEPT !.work = @ \ {i}] = [run[c] EXCEPT !.at = "sweep", !.work = work]
  BY <1>2, <1>5 DEF Runs
<1>7. \A j \in work : (j.etag <= stamp[j.path] /\ Outlived(j.path, j.etag))'
  BY <1>2, <1>3, <1>5 DEF Outlived, Keep
<1>8. Goes(c, [run[c] EXCEPT !.at = "sweep", !.work = work])
  BY <1>1, <1>6
<1> QED
  BY <1>2, <1>4, <1>5, <1>7, <1>8, SweepPhase

LEMMA AbandonsKeeps ==
  ASSUME BlobInv, NEW c \in Cleaners, Abandons(c)
  PROVE  BlobInv'
<1>1. /\ records' = [p \in Paths |-> IF holdsClaim(records[p], c)
                                       THEN [records[p] EXCEPT !.claim = Gone] ELSE records[p]]
      /\ UNCHANGED <<aged, blobs, agedBlobs, unproven, stamp, asks, finals, refs, edits>>
      /\ Goes(c, IdleRun)
  BY DEF Abandons, others
<1>2. ASSUME NEW p \in Paths
      PROVE  /\ records'[p] \in Records /\ ~holdsClaim(records'[p], c)
             /\ Safe(p) /\ \A d \in Cleaners \ {c} : SparedAt(d, p)
  <2>1. records[p] \in Records /\ c # Gone
    BY PathTypes, CleanersAreCleaners DEF Cleaner
  <2>2. CASE holdsClaim(records[p], c)
    <3>1. records'[p] = [records[p] EXCEPT !.claim = Gone]
      BY <1>1, <2>2
    <3>2. records'[p] \in Records /\ records'[p].claim = Gone
      BY <2>1, <3>1 DEF Records, Holders
    <3> QED
      BY <1>1, <2>1, <2>2, <3>1, <3>2, LeaveIsSafe DEF Quiet, holdsClaim
  <2>3. CASE ~holdsClaim(records[p], c)
    BY <1>1, <2>1, <2>3, SameIsSafe DEF SameAt
  <2> QED
    BY <2>2, <2>3
<1>3. CalmFor(c)
  BY <1>1, <1>2 DEF CalmFor, BlobInv, StoresOK
<1>4. IdleRun \in Runs
  BY DEF IdleRun, Runs, NoBlob, Stamped
<1>5. /\ IdleRun.at = "idle" /\ IdleRun.work = {} /\ IdleRun.claims = {} /\ IdleRun.item = NoItem
  BY DEF IdleRun
<1>6. run'[c] = IdleRun /\ run' = [run EXCEPT ![c] = IdleRun]
  BY <1>1, Went
<1>7. RunOK(c)'
  <2>1. Takes(c)'
    BY <1>2, <1>5, <1>6 DEF Takes
  <2>2. Held(c)' /\ Sees(c)' /\ Fresh(c)'
    BY <1>5, <1>6 DEF Held, Sees, Fresh, Pending, Deciding
  <2>3. Sweeps(c)' /\ Settles(c)'
    BY <1>5, <1>6 DEF Sweeps, Settles
  <2> QED
    BY <2>1, <2>2, <2>3 DEF RunOK
<1>8. IdleRun.at \notin Busy
  BY <1>5 DEF Busy, Deciding
<1> QED
  BY <1>1, <1>3, <1>4, <1>5, <1>6, <1>7, <1>8, OthersStay

LEMMA CallFailsKeeps ==
  ASSUME BlobInv, NEW c \in Cleaners, CallFails(c)
  PROVE  BlobInv'
<1>1. /\ Keep /\ UNCHANGED <<blobs, agedBlobs, stamp, refs, asks, finals, edits>> /\ NextItem(c)
      /\ run[c].item # NoItem
  BY DEF CallFails, others
<1>2. Calm
  BY <1>1, KeepIsCalm
<1>3. run[c].at \in {"head", "settle", "purge"} \/ run[c].at \in Deciding
  BY <1>1, RunTypes DEF Busy
<1> QED
  BY <1>1, <1>2, <1>3, CalmForAll, ReservationLeft, ClaimLeft

-----------------------------------------------------------------------------
(* The theorems.                                                           *)

LEMMA InitInv == Init => BlobInv
<1> SUFFICES ASSUME Init PROVE BlobInv
  OBVIOUS
<1>1. /\ records = [p \in Paths |-> Absent] /\ blobs = [p \in Paths |-> NoBlob]
      /\ stamp = [p \in Paths |-> 0] /\ run = [c \in Cleaners |-> IdleRun]
      /\ aged = {} /\ agedBlobs = {} /\ asks = {} /\ finals = {} /\ refs = {} /\ edits = {}
      /\ unproven = {}
  BY DEF Init
<1>2. /\ Absent \in Records /\ Absent.status = "none" /\ Absent.createdAt = 0
      /\ NoBlob \in Stamped /\ NoBlob.etag = 0
  BY DEF Absent, Records, Holders, NoBlob, Stamped
<1>3. /\ IdleRun \in Runs /\ IdleRun.at = "idle" /\ IdleRun.work = {} /\ IdleRun.claims = {}
      /\ IdleRun.item = NoItem
  BY <1>2 DEF IdleRun, Runs
<1>4. StoresOK /\ RequestsOK /\ FinalsOK
  BY <1>1, <1>2 DEF StoresOK, RequestsOK, FinalsOK
<1>5. RunsOK
  BY <1>1, <1>3 DEF RunsOK, Busy, Deciding
<1>6. \A p \in Paths : PathOK(p)
  BY <1>1, <1>2 DEF PathOK, isReferenceEligible
<1>7. ASSUME NEW c \in Cleaners PROVE RunOK(c)
  <2>1. run[c] = IdleRun
    BY <1>1
  <2>2. Takes(c)
    BY <1>1, <1>2, <1>3, <2>1 DEF Takes, holdsClaim
  <2>3. Held(c) /\ Sees(c) /\ Fresh(c)
    BY <1>3, <2>1 DEF Held, Sees, Fresh, Pending, Deciding
  <2>4. Sweeps(c) /\ Settles(c)
    BY <1>3, <2>1 DEF Sweeps, Settles
  <2> QED
    BY <2>2, <2>3, <2>4 DEF RunOK
<1> QED
  BY <1>4, <1>5, <1>6, <1>7 DEF BlobInv

LEMMA CleanupKeeps ==
  ASSUME BlobInv, NEW c \in Cleaners, Cleanup(c) \/ Trouble(c)
  PROVE  BlobInv'
<1>1. CASE ListCandidates(c) \/ ConsiderReservation(c) \/ HeadReservation(c)
           \/ SettleReservation(c) \/ PurgeReservation(c)
  BY <1>1, ListCandidatesKeeps, ConsiderReservationKeeps, HeadReservationKeeps,
     SettleReservationKeeps, PurgeReservationKeeps
<1>2. CASE Claim(c) \/ ClaimAnswerLost(c)
  BY <1>2, ClaimKeeps
<1>3. CASE ReadRoom(c) \/ RoomUnreadable(c)
  BY <1>3, ReadRoomKeeps
<1>4. CASE ReleaseUnread(c) \/ Examine(c) \/ Decide(c)
  BY <1>4, ReleaseUnreadKeeps, ExamineKeeps, DecideKeeps
<1>5. CASE DeleteClaimed(c) \/ DeleteAnswerLost(c)
  BY <1>5, DeleteClaimedKeeps
<1>6. CASE Forget(c) \/ ListBlobs(c) \/ GetRegistrations(c) \/ SweepBlob(c)
  BY <1>6, ForgetKeeps, ListBlobsKeeps, GetRegistrationsKeeps, SweepBlobKeeps
<1>7. CASE EndRun(c) \/ Stopped(c)
  BY <1>7, AbandonsKeeps DEF EndRun, Stopped
<1>8. CASE CallFails(c)
  BY <1>8, CallFailsKeeps
<1> QED
  BY <1>1, <1>2, <1>3, <1>4, <1>5, <1>6, <1>7, <1>8 DEF Cleanup, Trouble

LEMMA NextInv == BlobInv /\ [Next]_vars => BlobInv'
<1> SUFFICES ASSUME BlobInv, [Next]_vars PROVE BlobInv'
  OBVIOUS
<1>1. CASE Upload
  BY <1>1, AskUploadKeeps, PutBlobKeeps, HeadForFinalizeKeeps, ReclaimExpiredKeeps, ReserveKeeps,
     IssueKeeps, FinalizeKeeps DEF Upload
<1>2. CASE Canvas
  BY <1>2, CanvasKeeps
<1>3. ASSUME NEW c \in Cleaners, Cleanup(c) \/ Trouble(c) PROVE BlobInv'
  BY <1>3, CleanupKeeps
<1>4. ASSUME NEW p \in Paths, Ages(p) PROVE BlobInv'
  BY <1>4, AgesKeep
<1>5. CASE UNCHANGED vars
  <2>1. UNCHANGED <<records, aged, blobs, agedBlobs, stamp, asks, finals, refs, edits, run, unproven>>
    BY <1>5 DEF vars
  <2>2. Calm
    BY <2>1, NothingWritten DEF BlobInv, StoresOK
  <2>3. RequestsOK'
    BY <2>1 DEF BlobInv, RequestsOK
  <2>4. FinalsOK'
    BY <2>1, <2>2, FinalsStay DEF Calm, Safe
  <2> QED
    BY <2>1, <2>2, <2>3, <2>4, WorldStep
<1> QED
  BY <1>1, <1>2, <1>3, <1>4, <1>5 DEF Next

LEMMA BlobInvariant == Spec => []BlobInv
BY InitInv, NextInv, PTL DEF Spec

\* An edit may introduce a reference to an image only while its blob exists,
\* whatever the cleanup deletes and whichever answers it loses.
THEOREM EligibleHasBlob == Spec => []EligibleIsStored
<1>1. BlobInv => EligibleIsStored
  BY DEF BlobInv, PathOK, EligibleIsStored
<1> QED
  BY <1>1, BlobInvariant, PTL

\* No invocation of the cleanup, and no number of them at once, takes the
\* registration or the blob of an image that the canvas shows.
THEOREM CanvasKeepsImages == Spec => []ReferencedIsKept
<1>1. BlobInv => ReferencedIsKept
  BY DEF BlobInv, StoresOK, PathOK, ReferencedIsKept
<1> QED
  BY <1>1, BlobInvariant, PTL

-----------------------------------------------------------------------------
(* Sums over finite sets.                                                  *)

Pick(s) == CHOOSE x \in s : TRUE

\* g adds up the sizes that w has over the subsets of D, as the fold does.
Adds(g, D, w) ==
  g = [s \in SUBSET D |-> IF s = {} THEN 0 ELSE w[Pick(s)].size + g[s \ {Pick(s)}]]

Sized(S, w) == \A p \in S : w[p].size \in Nat

SameSizes(S, w, v) == \A p \in S : w[p].size = v[p].size

LEMMA Picked ==
  ASSUME NEW s, s # {}
  PROVE  Pick(s) \in s
BY DEF Pick

LEMMA AddsAt ==
  ASSUME NEW g, NEW D, NEW w, Adds(g, D, w), NEW s \in SUBSET D
  PROVE  /\ s = {} => g[s] = 0
         /\ s # {} => /\ Pick(s) \in s /\ s \ {Pick(s)} \in SUBSET D
                      /\ g[s] = w[Pick(s)].size + g[s \ {Pick(s)}]
<1>1. g[s] = IF s = {} THEN 0 ELSE w[Pick(s)].size + g[s \ {Pick(s)}]
  BY Zenon DEF Adds
<1> QED BY <1>1, Picked

\* The least finite set for which something fails.
LEMMA LeastSet ==
  ASSUME NEW D, NEW Bad \in SUBSET FiniteSubsetsOf(D), Bad # {}
  PROVE  \E s \in Bad : \A x \in s : s \ {x} \notin Bad
<1> DEFINE R == StrictSubsetOrdering(D)
<1>1. IsWellFoundedOn(R, FiniteSubsetsOf(D))
  BY FS_StrictSubsetOrderingWellFounded
<1>2. PICK s \in Bad : \A y \in Bad : ~(<<y, s>> \in R)
  <2> HIDE DEF R
  <2> QED BY <1>1, WFMin
<1>3. ASSUME NEW x \in s, s \ {x} \in Bad PROVE FALSE
  <2>1. s \in SUBSET D /\ s \ {x} \in SUBSET D /\ s \ {x} # s
    BY <1>3 DEF FiniteSubsetsOf
  <2>2. <<s \ {x}, s>> \in R
    BY <2>1 DEF StrictSubsetOrdering
  <2> QED BY <1>2, <1>3, <2>2
<1> QED BY <1>2, <1>3

LEMMA AddsUnique ==
  ASSUME NEW D, NEW E, NEW w, NEW v, NEW g, NEW h, Adds(g, D, w), Adds(h, E, v),
         NEW S, IsFiniteSet(S), S \in SUBSET D, S \in SUBSET E, SameSizes(S, w, v)
  PROVE  g[S] = h[S]
<1> DEFINE Bad == {s \in FiniteSubsetsOf(S) : g[s] # h[s]}
<1>1. SUFFICES Bad = {}
  BY DEF FiniteSubsetsOf
<1>2. SUFFICES ASSUME Bad # {} PROVE FALSE
  OBVIOUS
<1>3. Bad \in SUBSET FiniteSubsetsOf(S)
  OBVIOUS
<1>4. PICK s \in Bad : \A x \in s : s \ {x} \notin Bad
  <2> HIDE DEF Bad
  <2> QED BY <1>2, <1>3, LeastSet
<1>5. s \in SUBSET S /\ IsFiniteSet(s) /\ g[s] # h[s] /\ s \in SUBSET D /\ s \in SUBSET E
  BY DEF FiniteSubsetsOf
<1>6. s # {}
  BY <1>5, AddsAt
<1>7. /\ Pick(s) \in s
      /\ g[s] = w[Pick(s)].size + g[s \ {Pick(s)}]
      /\ h[s] = v[Pick(s)].size + h[s \ {Pick(s)}]
  BY <1>5, <1>6, AddsAt
<1>8. g[s \ {Pick(s)}] = h[s \ {Pick(s)}]
  <2>1. s \ {Pick(s)} \in FiniteSubsetsOf(S)
    BY <1>5, FS_RemoveElement DEF FiniteSubsetsOf
  <2> QED BY <1>4, <1>7, <2>1
<1>9. w[Pick(s)].size = v[Pick(s)].size
  BY <1>5, <1>7 DEF SameSizes
<1> QED BY <1>5, <1>7, <1>8, <1>9

LEMMA AddsNat ==
  ASSUME NEW D, NEW w, NEW g, Adds(g, D, w), NEW S, IsFiniteSet(S), S \in SUBSET D, Sized(S, w)
  PROVE  g[S] \in Nat
<1> DEFINE Bad == {s \in FiniteSubsetsOf(S) : g[s] \notin Nat}
<1>1. SUFFICES Bad = {}
  BY DEF FiniteSubsetsOf
<1>2. SUFFICES ASSUME Bad # {} PROVE FALSE
  OBVIOUS
<1>3. Bad \in SUBSET FiniteSubsetsOf(S)
  OBVIOUS
<1>4. PICK s \in Bad : \A x \in s : s \ {x} \notin Bad
  <2> HIDE DEF Bad
  <2> QED BY <1>2, <1>3, LeastSet
<1>5. s \in SUBSET S /\ IsFiniteSet(s) /\ g[s] \notin Nat /\ s \in SUBSET D
  BY DEF FiniteSubsetsOf
<1>6. s # {}
  <2>1. s = {} => g[s] = 0
    BY <1>5, AddsAt
  <2> QED BY <1>5, <2>1
<1>7. Pick(s) \in s /\ g[s] = w[Pick(s)].size + g[s \ {Pick(s)}]
  BY <1>5, <1>6, AddsAt
<1>8. g[s \ {Pick(s)}] \in Nat
  <2>1. s \ {Pick(s)} \in FiniteSubsetsOf(S)
    BY <1>5, FS_RemoveElement DEF FiniteSubsetsOf
  <2> QED BY <1>4, <1>7, <2>1
<1>9. w[Pick(s)].size \in Nat
  BY <1>5, <1>7 DEF Sized
<1> QED BY <1>5, <1>7, <1>8, <1>9

\* Total is the sum of the sizes that w has over s, wherever it is worked out.
IsTotal(w, s, y) == \E g, D : Adds(g, D, w) /\ s \in SUBSET D /\ y = g[s]

Total(w, s) == CHOOSE y : IsTotal(w, s, y)

LEMMA TotalIs ==
  ASSUME NEW D, NEW w, NEW g, Adds(g, D, w), NEW s \in SUBSET D, IsFiniteSet(s)
  PROVE  g[s] = Total(w, s)
<1>1. IsTotal(w, s, g[s])
  BY DEF IsTotal
<1>2. IsTotal(w, s, Total(w, s))
  BY <1>1, Zenon DEF Total
<1>3. PICK h, E : Adds(h, E, w) /\ s \in SUBSET E /\ Total(w, s) = h[s]
  BY <1>2 DEF IsTotal
<1>4. SameSizes(s, w, w)
  BY DEF SameSizes
<1>5. g[s] = h[s]
  BY <1>3, <1>4, AddsUnique
<1> QED BY <1>3, <1>5

LEMMA AddsMore ==
  ASSUME NEW w, NEW S, IsFiniteSet(S), \A x \in S : \E g : Adds(g, S \ {x}, w)
  PROVE  \E g : Adds(g, S, w)
<1> DEFINE top == IF S = {} THEN 0 ELSE w[Pick(S)].size + Total(w, S \ {Pick(S)})
           g == [s \in SUBSET S |-> IF s = S THEN top ELSE Total(w, s)]
           body(s) == IF s = {} THEN 0 ELSE w[Pick(s)].size + g[s \ {Pick(s)}]
<1>1. ASSUME NEW s \in SUBSET S PROVE g[s] = body(s)
  <2>1. CASE s = S /\ S = {}
    BY <2>1
  <2>2. CASE s = S /\ S # {}
    <3>1. Pick(S) \in S
      BY <2>2, Picked
    <3>2. S \ {Pick(S)} \in SUBSET S /\ S \ {Pick(S)} # S
      BY <3>1
    <3>3. g[S \ {Pick(S)}] = Total(w, S \ {Pick(S)})
      BY <3>2
    <3>4. g[S] = w[Pick(S)].size + Total(w, S \ {Pick(S)})
      BY <2>2
    <3> QED BY <2>2, <3>3, <3>4
  <2>3. CASE s # S
    <3>1. PICK x \in S : x \notin s
      BY <2>3
    <3>2. PICK h : Adds(h, S \ {x}, w)
      BY <3>1
    <3>3. /\ s \in SUBSET (S \ {x}) /\ IsFiniteSet(s)
          /\ s \ {Pick(s)} \in SUBSET (S \ {x}) /\ IsFiniteSet(s \ {Pick(s)})
          /\ s \ {Pick(s)} # S
      BY <3>1, FS_Subset, FS_RemoveElement
    <3>4. h[s] = Total(w, s) /\ h[s \ {Pick(s)}] = Total(w, s \ {Pick(s)})
      BY <3>2, <3>3, TotalIs
    <3>5. g[s] = h[s] /\ g[s \ {Pick(s)}] = h[s \ {Pick(s)}]
      BY <2>3, <3>3, <3>4
    <3>6. h[s] = IF s = {} THEN 0 ELSE w[Pick(s)].size + h[s \ {Pick(s)}]
      <4> HIDE DEF g, top
      <4> QED BY <3>2, <3>3, AddsAt
    <3> HIDE DEF g, top
    <3> QED BY <3>5, <3>6
  <2> QED BY <2>1, <2>2, <2>3
<1>2. g = [s \in SUBSET S |-> body(s)]
  BY <1>1
<1>3. Adds(g, S, w)
  BY <1>2 DEF Adds
<1> QED BY <1>3

LEMMA AddsExists ==
  ASSUME NEW w, NEW S, IsFiniteSet(S)
  PROVE  \E g : Adds(g, S, w)
<1> DEFINE Bad == {s \in FiniteSubsetsOf(S) : ~\E g : Adds(g, s, w)}
<1>1. SUFFICES Bad = {}
  BY DEF FiniteSubsetsOf
<1>2. SUFFICES ASSUME Bad # {} PROVE FALSE
  OBVIOUS
<1>3. Bad \in SUBSET FiniteSubsetsOf(S)
  OBVIOUS
<1>4. PICK s \in Bad : \A x \in s : s \ {x} \notin Bad
  <2> HIDE DEF Bad
  <2> QED BY <1>2, <1>3, LeastSet
<1>5. s \in SUBSET S /\ IsFiniteSet(s) /\ ~\E g : Adds(g, s, w)
  BY DEF FiniteSubsetsOf
<1>6. ASSUME NEW x \in s PROVE \E g : Adds(g, s \ {x}, w)
  <2>1. s \ {x} \in FiniteSubsetsOf(S)
    BY <1>5, FS_RemoveElement DEF FiniteSubsetsOf
  <2> QED BY <1>4, <2>1
<1> QED BY <1>5, <1>6, AddsMore

\* What the records in S hold.
HeldBytes(w, S) == MapThenSumSet(LAMBDA p : w[p].size, S)

LEMMA HeldIsTotal ==
  ASSUME NEW w, NEW S, IsFiniteSet(S)
  PROVE  HeldBytes(w, S) = Total(w, S)
<1>1. PICK g : Adds(g, S, w)
  BY AddsExists
<1> DEFINE it == CHOOSE h : Adds(h, S, w)
<1>2. Adds(it, S, w)
  BY <1>1
<1>3. HeldBytes(w, S) = it[S]
  BY Zenon DEF HeldBytes, MapThenSumSet, MapThenFoldSet, Adds, Pick
<1> HIDE DEF it
<1>4. it[S] = Total(w, S)
  BY <1>2, TotalIs
<1> QED BY <1>3, <1>4

LEMMA HeldIsNat ==
  ASSUME NEW w, NEW S, IsFiniteSet(S), Sized(S, w)
  PROVE  HeldBytes(w, S) \in Nat
<1>1. PICK g : Adds(g, S, w)
  BY AddsExists
<1>2. g[S] \in Nat /\ g[S] = Total(w, S)
  BY <1>1, AddsNat, TotalIs
<1> QED BY <1>2, HeldIsTotal

LEMMA HeldSame ==
  ASSUME NEW w, NEW v, NEW S, IsFiniteSet(S), SameSizes(S, w, v)
  PROVE  HeldBytes(w, S) = HeldBytes(v, S)
<1>1. PICK g : Adds(g, S, w)
  BY AddsExists
<1>2. PICK h : Adds(h, S, v)
  BY AddsExists
<1>3. g[S] = h[S]
  BY <1>1, <1>2, AddsUnique
<1>4. g[S] = Total(w, S) /\ h[S] = Total(v, S)
  BY <1>1, <1>2, TotalIs
<1> QED BY <1>3, <1>4, HeldIsTotal

LEMMA HeldNothing ==
  ASSUME NEW w
  PROVE  HeldBytes(w, {}) = 0
<1>1. IsFiniteSet({})
  BY FS_EmptySet
<1>2. PICK g : Adds(g, {}, w)
  BY <1>1, AddsExists
<1>3. g[{}] = 0
  BY <1>2, AddsAt
<1>4. g[{}] = Total(w, {})
  BY <1>1, <1>2, TotalIs
<1> QED BY <1>1, <1>3, <1>4, HeldIsTotal

\* The order in which the sizes are added does not matter.
LEMMA AddsAny ==
  ASSUME NEW w, NEW S, IsFiniteSet(S), Sized(S, w), NEW g, Adds(g, S, w), NEW z \in S
  PROVE  g[S] = w[z].size + g[S \ {z}]
<1> DEFINE Bad == {s \in FiniteSubsetsOf(S) : \E x \in s : g[s] # w[x].size + g[s \ {x}]}
<1>1. SUFFICES Bad = {}
  BY DEF FiniteSubsetsOf
<1>2. SUFFICES ASSUME Bad # {} PROVE FALSE
  OBVIOUS
<1>3. Bad \in SUBSET FiniteSubsetsOf(S)
  OBVIOUS
<1>4. PICK s \in Bad : \A x \in s : s \ {x} \notin Bad
  <2> HIDE DEF Bad
  <2> QED BY <1>2, <1>3, LeastSet
<1>5. s \in SUBSET S /\ IsFiniteSet(s)
  BY DEF FiniteSubsetsOf
<1>6. PICK x \in s : g[s] # w[x].size + g[s \ {x}]
  OBVIOUS
<1> DEFINE y == Pick(s)
<1>7. y \in s /\ g[s] = w[y].size + g[s \ {y}]
  <2>1. s # {}
    OBVIOUS
  <2> HIDE DEF Bad
  <2> QED BY <1>5, <2>1, AddsAt
<1>8. y # x
  BY <1>6, <1>7
<1>9. ASSUME NEW a \in s, NEW b \in s, a # b
      PROVE  g[s \ {a}] = w[b].size + g[(s \ {a}) \ {b}]
  <2>1. s \ {a} \in FiniteSubsetsOf(S) /\ s \ {a} \notin Bad /\ b \in s \ {a}
    BY <1>4, <1>5, <1>9, FS_RemoveElement DEF FiniteSubsetsOf
  <2> HIDE DEF y
  <2> QED BY <2>1
<1> DEFINE rest == (s \ {x}) \ {y}
<1>10. rest = (s \ {y}) \ {x}
  OBVIOUS
<1>11. g[s \ {x}] = w[y].size + g[rest] /\ g[s \ {y}] = w[x].size + g[rest]
  BY <1>7, <1>8, <1>9, <1>10
<1>12. w[x].size \in Nat /\ w[y].size \in Nat
  BY <1>5, <1>7 DEF Sized
<1>13. g[rest] \in Nat
  <2>1. IsFiniteSet(rest) /\ rest \in SUBSET S /\ Sized(rest, w)
    BY <1>5, FS_RemoveElement DEF Sized
  <2> HIDE DEF rest
  <2> QED BY <2>1, AddsNat
<1> HIDE DEF rest, y, Bad
<1> QED BY <1>6, <1>7, <1>11, <1>12, <1>13

\* One more record adds its size.
LEMMA HeldOneMore ==
  ASSUME NEW w, NEW S, IsFiniteSet(S), Sized(S, w), NEW z \in S
  PROVE  HeldBytes(w, S) = w[z].size + HeldBytes(w, S \ {z})
<1>1. PICK g : Adds(g, S, w)
  BY AddsExists
<1>2. g[S] = w[z].size + g[S \ {z}]
  BY <1>1, AddsAny
<1>3. IsFiniteSet(S \ {z})
  BY FS_RemoveElement
<1>4. g[S] = Total(w, S) /\ g[S \ {z}] = Total(w, S \ {z})
  BY <1>1, <1>3, TotalIs
<1>5. HeldBytes(w, S) = Total(w, S) /\ HeldBytes(w, S \ {z}) = Total(w, S \ {z})
  BY <1>3, HeldIsTotal
<1> QED BY <1>2, <1>4, <1>5

-----------------------------------------------------------------------------
(* The counters.                                                           *)

Counters == {"reservedBytes", "reservedCount", "committedBytes", "committedCount"}

Reserved(w) == {p \in Paths : w[p].status \in {"reserved"}}
Committed(w) == {p \in Paths : w[p].status \in {"committed", "cleanup-claimed"}}

\* u counts what the records of w hold.
Accounted(w, u) ==
  /\ IsFiniteSet(Reserved(w)) /\ IsFiniteSet(Committed(w))
  /\ u = [field \in Counters |-> u[field]]
  /\ u.reservedCount = Cardinality(Reserved(w))
  /\ u.reservedBytes = ReservationBytes * Cardinality(Reserved(w))
  /\ u.committedCount = Cardinality(Committed(w))
  /\ u.committedBytes = HeldBytes(w, Committed(w))

Within(u) == u.reservedBytes + u.committedBytes <= Limits.bytes

CapacityInv ==
  /\ BlobInv
  /\ Accounted(records, usage) /\ Within(usage)
  /\ caps \subseteq Paths /\ unproven \subseteq Paths

\* A set that changes at p only.
LEMMA Tally ==
  ASSUME NEW S, NEW T, NEW p, IsFiniteSet(S), S \ {p} = T \ {p}
  PROVE  /\ IsFiniteSet(T) /\ Cardinality(S) \in Nat /\ Cardinality(T) \in Nat
         /\ Cardinality(T) = Cardinality(S) - (IF p \in S THEN 1 ELSE 0) + (IF p \in T THEN 1 ELSE 0)
<1> DEFINE rest == S \ {p}
<1>1. /\ IsFiniteSet(rest) /\ Cardinality(S) \in Nat
      /\ Cardinality(rest) = IF p \in S THEN Cardinality(S) - 1 ELSE Cardinality(S)
  BY FS_RemoveElement, FS_CardinalityType
<1>2. T = IF p \in T THEN rest \cup {p} ELSE rest
  OBVIOUS
<1>3. p \notin rest
  OBVIOUS
<1> HIDE DEF rest
<1>4. CASE p \in T
  <2>1. IsFiniteSet(rest \cup {p}) /\ Cardinality(rest \cup {p}) = Cardinality(rest) + 1
    BY <1>1, <1>3, FS_AddElement
  <2>2. T = rest \cup {p}
    BY <1>2, <1>4
  <2> QED BY <1>1, <1>4, <2>1, <2>2, FS_CardinalityType
<1>5. CASE p \notin T
  BY <1>1, <1>2, <1>5, FS_CardinalityType
<1> QED BY <1>4, <1>5

\* The bytes of T in v are those of S in w but for what p holds.
DiffersBy(p, w, S, v, T) ==
  /\ HeldBytes(w, S) \in Nat /\ HeldBytes(v, T) \in Nat
  /\ HeldBytes(v, T) = HeldBytes(w, S) - (IF p \in S THEN w[p].size ELSE 0)
                         + (IF p \in T THEN v[p].size ELSE 0)

LEMMA TallyBytes ==
  ASSUME NEW S, NEW T, NEW p, NEW w, NEW v, IsFiniteSet(S), S \ {p} = T \ {p},
         Sized(S, w), Sized(T, v), SameSizes(S \ {p}, w, v)
  PROVE  DiffersBy(p, w, S, v, T)
<1> DEFINE rest == S \ {p}
<1>1. IsFiniteSet(T) /\ IsFiniteSet(rest) /\ rest = T \ {p}
  BY Tally, FS_RemoveElement
<1>2. HeldBytes(w, S) \in Nat /\ HeldBytes(v, T) \in Nat
  BY <1>1, HeldIsNat
<1>3. HeldBytes(w, rest) = HeldBytes(v, rest) /\ HeldBytes(w, rest) \in Nat
  <2>1. Sized(rest, w)
    BY DEF Sized
  <2> QED BY <1>1, <2>1, HeldSame, HeldIsNat
<1>4. HeldBytes(w, S) = (IF p \in S THEN w[p].size ELSE 0) + HeldBytes(w, rest)
  <2>1. CASE p \in S
    BY <2>1, HeldOneMore
  <2>2. CASE p \notin S
    <3>1. rest = S
      BY <2>2
    <3> QED BY <1>3, <2>2, <3>1
  <2> QED BY <2>1, <2>2
<1>5. HeldBytes(v, T) = (IF p \in T THEN v[p].size ELSE 0) + HeldBytes(v, rest)
  <2>1. CASE p \in T
    BY <1>1, <2>1, HeldOneMore
  <2>2. CASE p \notin T
    <3>1. rest = T
      BY <1>1, <2>2
    <3>2. HeldBytes(v, T) = HeldBytes(v, rest) /\ HeldBytes(v, rest) \in Nat
      BY <1>3, <3>1
    <3> HIDE DEF rest
    <3> QED BY <2>2, <3>2
  <2> QED BY <2>1, <2>2
<1>6. (p \in S => w[p].size \in Nat) /\ (p \in T => v[p].size \in Nat)
  BY DEF Sized
<1> HIDE DEF rest
<1> QED BY <1>2, <1>3, <1>4, <1>5, <1>6 DEF DiffersBy

\* What one record adds to each counter.
LEMMA Shares ==
  ASSUME NEW r \in Records
  PROVE  /\ DOMAIN NoUsage = Counters
         /\ ReservationBytes \in Nat /\ r.size \in Nat
         /\ Share(r).reservedCount = IF r.status = "reserved" THEN 1 ELSE 0
         /\ Share(r).reservedBytes = IF r.status = "reserved" THEN ReservationBytes ELSE 0
         /\ Share(r).committedCount = IF isCommitted(r) THEN 1 ELSE 0
         /\ Share(r).committedBytes = IF isCommitted(r) THEN r.size ELSE 0
<1>1. DOMAIN NoUsage = Counters
  BY DEF NoUsage, Counters
<1>2. r.status \in {"none", "reserved", "committed", "cleanup-claimed"} /\ r.size \in Nat
  BY DEF Records
<1>0. DOMAIN NoUsage = Counters /\ ReservationBytes \in Nat /\ r.size \in Nat
  BY <1>1, <1>2, RegistryAssumption
<1>3. CASE r.status = "none"
  <2>1. Share(r) = NoUsage
    BY <1>3 DEF Share
  <2> QED BY <1>0, <1>3, <2>1 DEF NoUsage, isCommitted
<1>4. CASE r.status = "reserved"
  <2>1. Share(r) = [NoUsage EXCEPT !.reservedBytes = ReservationBytes, !.reservedCount = 1]
    BY <1>4 DEF Share
  <2> QED BY <1>0, <1>4, <2>1 DEF NoUsage, isCommitted
<1>5. CASE isCommitted(r)
  <2>1. Share(r) = [NoUsage EXCEPT !.committedBytes = r.size, !.committedCount = 1]
    BY <1>5, Zenon DEF Share, isCommitted
  <2> QED BY <1>0, <1>5, <2>1 DEF NoUsage, isCommitted
<1> QED BY <1>2, <1>3, <1>4, <1>5 DEF isCommitted

\* The script that writes a record counts it.
LEMMA WriteCounts ==
  ASSUME NEW w \in [Paths -> Records], NEW u, Accounted(w, u), NEW p \in Paths, NEW r \in Records
  PROVE  Accounted([w EXCEPT ![p] = r], Recounted(u, w[p], r))
<1> DEFINE v == [w EXCEPT ![p] = r]
           t == Recounted(u, w[p], r)
<1>1. v \in [Paths -> Records] /\ v[p] = r /\ \A q \in Paths \ {p} : v[q] = w[q]
  OBVIOUS
<1>2. w[p] \in Records
  OBVIOUS
<1> HIDE DEF v
<1>3. Reserved(w) \ {p} = Reserved(v) \ {p} /\ Committed(w) \ {p} = Committed(v) \ {p}
  BY <1>1 DEF Reserved, Committed
<1>4. /\ p \in Reserved(w) <=> w[p].status = "reserved"
      /\ p \in Reserved(v) <=> r.status = "reserved"
      /\ p \in Committed(w) <=> isCommitted(w[p])
      /\ p \in Committed(v) <=> isCommitted(r)
  BY <1>1 DEF Reserved, Committed, isCommitted
<1>5. Sized(Committed(w), w) /\ Sized(Committed(v), v)
  <2>1. \A q \in Paths : w[q].size \in Nat /\ v[q].size \in Nat
    BY <1>1 DEF Records
  <2> QED BY <2>1 DEF Sized, Committed
<1>6. SameSizes(Committed(w) \ {p}, w, v)
  BY <1>1 DEF SameSizes, Committed
<1>7. /\ t = [field \in Counters |-> t[field]]
      /\ t.reservedCount = u.reservedCount - Share(w[p]).reservedCount + Share(r).reservedCount
      /\ t.reservedBytes = u.reservedBytes - Share(w[p]).reservedBytes + Share(r).reservedBytes
      /\ t.committedCount = u.committedCount - Share(w[p]).committedCount + Share(r).committedCount
      /\ t.committedBytes = u.committedBytes - Share(w[p]).committedBytes + Share(r).committedBytes
  <2>1. DOMAIN u = Counters
    BY DEF Accounted
  <2>2. t = [field \in Counters |-> u[field] - Share(w[p])[field] + Share(r)[field]]
    BY <2>1, Zenon DEF Recounted
  <2> HIDE DEF t
  <2> QED BY <2>2 DEF Counters
<1> HIDE DEF t
<1>8. /\ IsFiniteSet(Reserved(v)) /\ IsFiniteSet(Committed(v))
      /\ Cardinality(Reserved(w)) \in Nat /\ Cardinality(Reserved(v)) \in Nat
      /\ Cardinality(Committed(w)) \in Nat /\ Cardinality(Committed(v)) \in Nat
      /\ Cardinality(Reserved(v)) = Cardinality(Reserved(w)) - (IF w[p].status = "reserved" THEN 1 ELSE 0)
                                      + (IF r.status = "reserved" THEN 1 ELSE 0)
      /\ Cardinality(Committed(v)) = Cardinality(Committed(w)) - (IF isCommitted(w[p]) THEN 1 ELSE 0)
                                       + (IF isCommitted(r) THEN 1 ELSE 0)
  BY <1>3, <1>4, Tally DEF Accounted
<1>9. /\ HeldBytes(w, Committed(w)) \in Nat
      /\ HeldBytes(v, Committed(v)) =
           HeldBytes(w, Committed(w)) - (IF isCommitted(w[p]) THEN w[p].size ELSE 0)
             + (IF isCommitted(r) THEN r.size ELSE 0)
  <2> DEFINE S == Committed(w)
             T == Committed(v)
  <2>1. IsFiniteSet(S) /\ S \ {p} = T \ {p} /\ Sized(S, w) /\ Sized(T, v)
        /\ SameSizes(S \ {p}, w, v)
    BY <1>3, <1>5, <1>6 DEF Accounted
  <2>2. /\ p \in S <=> isCommitted(w[p])
        /\ p \in T <=> isCommitted(r)
        /\ v[p] = r
    BY <1>1, <1>4
  <2> HIDE DEF S, T
  <2>3. DiffersBy(p, w, S, v, T)
    BY <2>1, TallyBytes
  <2>4. /\ HeldBytes(w, S) \in Nat
        /\ HeldBytes(v, T) = HeldBytes(w, S) - (IF isCommitted(w[p]) THEN w[p].size ELSE 0)
                               + (IF isCommitted(r) THEN r.size ELSE 0)
    BY <2>2, <2>3, Zenon DEF DiffersBy
  <2> QED BY <2>4 DEF S, T
<1>10. t.reservedCount = Cardinality(Reserved(v)) /\ t.committedCount = Cardinality(Committed(v))
  <2>1. ~(w[p].status = "reserved" /\ isCommitted(w[p])) /\ ~(r.status = "reserved" /\ isCommitted(r))
    BY DEF isCommitted
  <2> QED BY <1>2, <1>7, <1>8, <2>1, Shares DEF Accounted
<1>11. t.committedBytes = HeldBytes(v, Committed(v))
  BY <1>2, <1>7, <1>9, Shares DEF Accounted
<1>12. t.reservedBytes = ReservationBytes * Cardinality(Reserved(v))
  <2> DEFINE n == Cardinality(Reserved(w))
             m == Cardinality(Reserved(v))
             B == ReservationBytes
  <2>1. n \in Nat /\ m \in Nat /\ B \in Nat /\ u.reservedBytes = B * n
    BY <1>2, <1>8, Shares DEF Accounted
  <2>2. B * (n - 1) = B * n - B /\ B * (n + 1) = B * n + B /\ B * n \in Nat
    <3> HIDE DEF B, n
    <3> QED BY <2>1
  <2>3. m = n - (IF w[p].status = "reserved" THEN 1 ELSE 0) + (IF r.status = "reserved" THEN 1 ELSE 0)
    BY <1>8
  <2>4. t.reservedBytes = B * n - (IF w[p].status = "reserved" THEN B ELSE 0)
                            + (IF r.status = "reserved" THEN B ELSE 0)
    BY <1>2, <1>7, <2>1, Shares
  <2> SUFFICES t.reservedBytes = B * m
    OBVIOUS
  <2> HIDE DEF B, n, m
  <2> QED BY <2>1, <2>2, <2>3, <2>4
<1>13. Accounted(v, t)
  BY <1>7, <1>8, <1>10, <1>11, <1>12 DEF Accounted
<1> QED BY <1>13 DEF v, t

\* Who claims a record does not matter.
LEMMA SameCounts ==
  ASSUME NEW w, NEW v, NEW u, Accounted(w, u),
         \A p \in Paths : v[p].status = w[p].status /\ v[p].size = w[p].size
  PROVE  Accounted(v, u)
<1>1. Reserved(v) = Reserved(w) /\ Committed(v) = Committed(w)
  BY DEF Reserved, Committed
<1>2. SameSizes(Committed(w), w, v)
  BY DEF SameSizes, Committed
<1>3. HeldBytes(w, Committed(w)) = HeldBytes(v, Committed(w))
  BY <1>2, HeldSame DEF Accounted
<1> QED BY <1>1, <1>3 DEF Accounted

\* What the scripts make of a record: it is reserved in the limits, committed
\* with at most the bytes reserved, claimed, released or deleted.
Fits(p, r) ==
  \/ r = Absent
  \/ /\ records[p].status = "none" /\ r.status = "reserved"
     /\ canReserve(usage, records, p)
  \/ /\ records[p].status = "reserved" /\ r.status = "committed" /\ r.size \in 1..ReservationBytes
  \/ isCommitted(records[p]) /\ isCommitted(r) /\ r.size = records[p].size

Counted ==
  \/ UNCHANGED <<records, usage>>
  \/ \E p \in Paths, r \in Records : Write(p, r) /\ Fits(p, r)
  \/ /\ UNCHANGED usage
     /\ \A p \in Paths : records'[p].status = records[p].status /\ records'[p].size = records[p].size

\* The counters are natural numbers.
LEMMA CountersAreNat ==
  ASSUME NEW w \in [Paths -> Records], NEW u, Accounted(w, u)
  PROVE  /\ u.reservedBytes \in Nat /\ u.reservedCount \in Nat
         /\ u.committedBytes \in Nat /\ u.committedCount \in Nat
<1>1. Cardinality(Reserved(w)) \in Nat /\ Cardinality(Committed(w)) \in Nat
  BY FS_CardinalityType DEF Accounted
<1>2. Sized(Committed(w), w)
  BY DEF Sized, Committed, Records
<1>3. HeldBytes(w, Committed(w)) \in Nat
  BY <1>2, HeldIsNat DEF Accounted
<1>4. ReservationBytes \in Nat
  BY RegistryAssumption
<1>5. ReservationBytes * Cardinality(Reserved(w)) \in Nat
  BY <1>1, <1>4
<1> QED BY <1>1, <1>3, <1>5 DEF Accounted

LEMMA CountedStays ==
  ASSUME CapacityInv, BlobInv', Counted
  PROVE  Accounted(records, usage)' /\ Within(usage)'
<1>1. records \in [Paths -> Records] /\ records' \in [Paths -> Records]
  BY DEF CapacityInv, BlobInv, StoresOK
<1>2. Accounted(records, usage) /\ Within(usage)
  BY DEF CapacityInv
<1>3. CASE UNCHANGED <<records, usage>>
  BY <1>2, <1>3
<1>4. CASE UNCHANGED usage /\ \A p \in Paths : /\ records'[p].status = records[p].status
                                               /\ records'[p].size = records[p].size
  BY <1>2, <1>4, SameCounts
<1>5. ASSUME NEW p \in Paths, NEW r \in Records, Write(p, r), Fits(p, r)
      PROVE  Accounted(records', usage') /\ Within(usage')
  <2>1. records' = [records EXCEPT ![p] = r] /\ usage' = Recounted(usage, records[p], r)
    BY <1>5 DEF Write
  <2>2. Accounted(records', usage')
    BY <1>1, <1>2, <2>1, WriteCounts
  <2>3. records[p] \in Records
    BY <1>1
  <2>4. DOMAIN usage = Counters
    BY <1>2 DEF Accounted
  <2>5. /\ usage'.reservedBytes = usage.reservedBytes - Share(records[p]).reservedBytes
                                    + Share(r).reservedBytes
        /\ usage'.committedBytes = usage.committedBytes - Share(records[p]).committedBytes
                                     + Share(r).committedBytes
    BY <2>1, <2>4 DEF Recounted, Counters
  <2>6. usage.reservedBytes \in Nat /\ usage.committedBytes \in Nat
    BY <1>1, <1>2, CountersAreNat
  <2>7. Limits.bytes \in Nat /\ ReservationBytes \in Nat /\ r.size \in Nat /\ records[p].size \in Nat
    BY <2>3, Shares, RegistryAssumption
  <2> DEFINE old == Share(records[p]).reservedBytes + Share(records[p]).committedBytes
             new == Share(r).reservedBytes + Share(r).committedBytes
             was == usage.reservedBytes + usage.committedBytes
  <2>8. /\ old = (IF records[p].status = "reserved" THEN ReservationBytes
                  ELSE IF isCommitted(records[p]) THEN records[p].size ELSE 0)
        /\ new = (IF r.status = "reserved" THEN ReservationBytes
                  ELSE IF isCommitted(r) THEN r.size ELSE 0)
    BY <2>3, <2>7, Shares DEF isCommitted
  <2>9. was <= Limits.bytes /\ usage'.reservedBytes + usage'.committedBytes = was - old + new
    BY <1>2, <2>3, <2>5, <2>6, <2>7, Shares DEF Within
  <2>10. was \in Nat /\ old \in Nat /\ new \in Nat
    BY <2>6, <2>7, <2>8
  <2>11. new <= old \/ (old = 0 /\ was + new <= Limits.bytes)
    <3>1. CASE r = Absent
      <4>1. r.status = "none"
        BY <3>1 DEF Absent
      <4>2. new = 0
        BY <2>8, <4>1 DEF isCommitted
      <4> HIDE DEF old, new
      <4> QED BY <2>10, <4>2
    <3>2. CASE records[p].status = "none" /\ r.status = "reserved" /\ canReserve(usage, records, p)
      <4>1. old = 0 /\ new = ReservationBytes
        BY <2>8, <3>2 DEF isCommitted
      <4>2. was + ReservationBytes <= Limits.bytes
        BY <3>2 DEF canReserve
      <4> HIDE DEF old, new, was
      <4> QED BY <4>1, <4>2
    <3>3. CASE records[p].status = "reserved" /\ r.status = "committed" /\ r.size \in 1..ReservationBytes
      <4>1. old = ReservationBytes /\ new = r.size
        BY <2>8, <3>3 DEF isCommitted
      <4> HIDE DEF old, new
      <4> QED BY <2>7, <3>3, <4>1
    <3>4. CASE isCommitted(records[p]) /\ isCommitted(r) /\ r.size = records[p].size
      <4>1. old = r.size /\ new = r.size
        BY <2>8, <3>4 DEF isCommitted
      <4> HIDE DEF old, new
      <4> QED BY <2>7, <4>1
    <3> QED BY <1>5, <3>1, <3>2, <3>3, <3>4 DEF Fits
  <2>12. Within(usage')
    <3> HIDE DEF old, new, was
    <3> QED BY <2>7, <2>9, <2>10, <2>11 DEF Within
  <2> QED BY <2>2, <2>12
<1> QED BY <1>3, <1>4, <1>5 DEF Counted

-----------------------------------------------------------------------------
(* The scripts.                                                            *)

LEMMA KeepCounts == Keep => Counted
BY DEF Keep, Counted

LEMMA DeleteCounts ==
  ASSUME NEW p \in Paths, DeleteRegistration(p)
  PROVE  Counted
<1>1. Absent \in Records
  BY DEF Absent, Records, Holders
<1> QED BY <1>1 DEF DeleteRegistration, Fits, Counted

LEMMA FinalizeCounts ==
  ASSUME BlobInv, NEW p \in Paths, NEW b \in Stamped, FinalizeRegistration(p, b)
  PROVE  Counted
<1>1. CASE Keep
  BY <1>1, KeepCounts
<1> DEFINE r == finalized(records[p], b)
<1>2. CASE canFinalize(records[p], b) /\ Write(p, r)
  <2>1. records[p] \in Records
    BY DEF BlobInv, StoresOK
  <2>2. r \in Records
    BY <2>1 DEF finalized, Records, Stamped
  <2>3. r.status = "committed" /\ r.size = b.size
    BY <2>1 DEF finalized, Records
  <2>4. Fits(p, r)
    BY <1>2, <2>3 DEF canFinalize, Fits
  <2> HIDE DEF r
  <2> QED BY <1>2, <2>2, <2>4 DEF Counted
<1> QED BY <1>1, <1>2 DEF FinalizeRegistration

LEMMA ClaimCounts ==
  ASSUME BlobInv, NEW p \in Paths, NEW c \in Cleaners, NEW e,
         canClaim(records[p], e, c), Write(p, claimed(records[p], c))
  PROVE  Counted
<1> DEFINE r == claimed(records[p], c)
<1>1. records[p] \in Records /\ isCommitted(records[p])
  BY DEF BlobInv, StoresOK, canClaim
<1>2. r \in Records /\ r.status = "cleanup-claimed" /\ r.size = records[p].size
  BY <1>1 DEF claimed, Records, Holders
<1>3. Fits(p, r)
  BY <1>1, <1>2 DEF Fits, isCommitted
<1>4. Write(p, r)
  OBVIOUS
<1> HIDE DEF r
<1> QED BY <1>2, <1>3, <1>4 DEF Counted

LEMMA ReleaseCounts ==
  ASSUME BlobInv, NEW p \in Paths, NEW c, holdsClaim(records[p], c), Write(p, released(records[p]))
  PROVE  Counted
<1> DEFINE r == released(records[p])
<1>1. records[p] \in Records /\ isCommitted(records[p])
  BY DEF BlobInv, StoresOK, holdsClaim, isCommitted
<1>2. r \in Records /\ r.status = "committed" /\ r.size = records[p].size
  BY <1>1 DEF released, Records, Holders
<1>3. Fits(p, r)
  BY <1>1, <1>2 DEF Fits, isCommitted
<1>4. Write(p, r)
  OBVIOUS
<1> HIDE DEF r
<1> QED BY <1>2, <1>3, <1>4 DEF Counted

LEMMA ReserveCounts ==
  ASSUME NEW p \in Paths, NEW n \in Nat, records[p].status = "none", canReserve(usage, records, p),
         Write(p, reserved(n))
  PROVE  Counted
<1>1. reserved(n) \in Records /\ reserved(n).status = "reserved"
  BY DEF reserved, Absent, Records, Holders
<1>2. Fits(p, reserved(n))
  BY <1>1 DEF Fits
<1> QED BY <1>1, <1>2 DEF Counted

LEMMA AbandonCounts ==
  ASSUME NEW c, Abandons(c), BlobInv
  PROVE  Counted
<1> SUFFICES ASSUME NEW p \in Paths
             PROVE  records'[p].status = records[p].status /\ records'[p].size = records[p].size
  BY DEF Abandons, Counted
<1>1. records[p] \in Records
  BY DEF BlobInv, StoresOK
<1>2. records'[p] = records[p] \/ records'[p] = [records[p] EXCEPT !.claim = Gone]
  BY DEF Abandons
<1> QED BY <1>1, <1>2 DEF Records

-----------------------------------------------------------------------------
(* The steps.                                                              *)

LEMMA UploadCounts ==
  ASSUME BlobInv, Upload
  PROVE  Counted
<1>1. ASSUME NEW p \in Paths, AskUpload(p) \/ PutBlob(p) \/ HeadForFinalize(p) PROVE Counted
  BY <1>1 DEF AskUpload, PutBlob, HeadForFinalize, Counted
<1>2. ASSUME NEW a \in asks, ReclaimExpired(a) \/ Reserve(a) \/ Issue(a) \/ IssueFails(a)
      PROVE  Counted
  <2>1. a.path \in Paths /\ \A s \in a.stale : s[1] \in Paths
    BY DEF BlobInv, RequestsOK
  <2>2. stamp \in [Paths -> Nat]
    BY DEF BlobInv, StoresOK
  <2>3. CASE ReclaimExpired(a)
    <3>1. PICK s \in a.stale : Keep \/ DeleteRegistration(s[1])
      BY <2>3 DEF ReclaimExpired
    <3> QED BY <2>1, <3>1, KeepCounts, DeleteCounts
  <2>4. CASE Reserve(a)
    <3>1. CASE Keep
      BY <3>1, KeepCounts
    <3>2. CASE ~Keep
      <4>1. /\ records[a.path].status = "none" /\ canReserve(usage, records, a.path)
            /\ stamp' = [stamp EXCEPT ![a.path] = @ + 1]
            /\ Write(a.path, reserved(stamp'[a.path]))
        BY <2>4, <3>2 DEF Reserve
      <4>2. stamp'[a.path] \in Nat
        BY <2>1, <2>2, <4>1
      <4> QED BY <2>1, <4>1, <4>2, ReserveCounts
    <3> QED BY <3>1, <3>2
  <2>5. CASE Issue(a)
    BY <2>5 DEF Issue, Counted
  <2>6. CASE IssueFails(a)
    BY <2>1, <2>6, KeepCounts, DeleteCounts DEF IssueFails
  <2> QED BY <1>2, <2>3, <2>4, <2>5, <2>6
<1>3. ASSUME NEW f \in finals, Finalize(f) PROVE Counted
  <2>1. f.path \in Paths /\ f.blob \in Stamped
    BY DEF BlobInv, RequestsOK
  <2> QED BY <1>3, <2>1, FinalizeCounts DEF Finalize
<1> QED BY <1>1, <1>2, <1>3 DEF Upload

LEMMA CleanupCounts ==
  ASSUME BlobInv, NEW c \in Cleaners, Cleanup(c) \/ Trouble(c)
  PROVE  Counted
<1>1. /\ \A k \in run[c].work \cup run[c].claims : k.path \in Paths
      /\ run[c].at \in Busy => run[c].item.path \in Paths
      /\ run[c].meta \in Stamped
  BY RunTypes
<1>2. CASE ListCandidates(c) \/ ConsiderReservation(c) \/ HeadReservation(c) \/ PurgeReservation(c)
           \/ ReadRoom(c) \/ Examine(c) \/ DeleteClaimed(c) \/ ListBlobs(c) \/ GetRegistrations(c)
           \/ SweepBlob(c) \/ RoomUnreadable(c) \/ CallFails(c) \/ DeleteAnswerLost(c)
  <2>1. Keep
    BY <1>2, Zenon DEF ListCandidates, ConsiderReservation, HeadReservation, PurgeReservation, ReadRoom,
       Examine, DeleteClaimed, ListBlobs, GetRegistrations, SweepBlob, RoomUnreadable, CallFails,
       DeleteAnswerLost
  <2> QED BY <2>1, KeepCounts
<1>3. CASE SettleReservation(c)
  <2>1. run[c].item.path \in Paths
    BY <1>1, <1>3 DEF SettleReservation, Busy
  <2>2. \/ Keep \/ DeleteRegistration(run[c].item.path)
        \/ FinalizeRegistration(run[c].item.path, run[c].meta)
    BY <1>3, Zenon DEF SettleReservation
  <2> QED BY <1>1, <2>1, <2>2, KeepCounts, DeleteCounts, FinalizeCounts
<1>4. CASE Claim(c) \/ ClaimAnswerLost(c)
  <2>1. \/ Keep
        \/ \E i \in run[c].work : /\ canClaim(records[i.path], i.etag, c)
                                  /\ Write(i.path, claimed(records[i.path], c))
    BY <1>4, Zenon DEF Claim, ClaimAnswerLost
  <2> QED BY <1>1, <2>1, KeepCounts, ClaimCounts
<1>5. CASE ReleaseUnread(c)
  <2>1. \/ Keep
        \/ \E k \in run[c].claims : /\ holdsClaim(records[k.path], c)
                                    /\ Write(k.path, released(records[k.path]))
    BY <1>5, Zenon DEF ReleaseUnread
  <2> QED BY <1>1, <2>1, KeepCounts, ReleaseCounts
<1>6. CASE Decide(c)
  <2> DEFINE p == run[c].item.path
  <2>1. p \in Paths
    BY <1>1, <1>6 DEF Decide, Busy, Deciding
  <2>2. \/ Keep \/ DeleteRegistration(p)
        \/ holdsClaim(records[p], c) /\ Write(p, released(records[p]))
        \/ canClaim(records[p], run[c].item.etag, c) /\ Write(p, claimed(records[p], c))
    BY <1>6, Zenon DEF Decide
  <2> HIDE DEF p
  <2> QED BY <2>1, <2>2, KeepCounts, DeleteCounts, ReleaseCounts, ClaimCounts
<1>7. CASE Forget(c)
  <2>1. run[c].item.path \in Paths
    BY <1>1, <1>7 DEF Forget, Busy, Deciding
  <2>2. Keep \/ DeleteRegistration(run[c].item.path)
    BY <1>7, Zenon DEF Forget
  <2> QED BY <2>1, <2>2, KeepCounts, DeleteCounts
<1>8. CASE EndRun(c) \/ Stopped(c)
  BY <1>8, AbandonCounts DEF EndRun, Stopped
<1> QED
  BY <1>2, <1>3, <1>4, <1>5, <1>6, <1>7, <1>8 DEF Cleanup, Trouble

LEMMA NextCounts ==
  ASSUME BlobInv, [Next]_vars
  PROVE  Counted
<1>1. CASE Canvas
  <2>1. UNCHANGED <<records, usage>>
    BY <1>1 DEF Canvas, ReadGuard, RemoveReference, CommitReference
  <2> QED BY <2>1 DEF Counted
<1>2. ASSUME NEW p \in Paths, Ages(p) PROVE Counted
  BY <1>2 DEF Ages, RecordAges, BlobAges, Counted
<1>3. CASE UNCHANGED vars
  BY <1>3 DEF vars, Counted
<1> QED BY <1>1, <1>2, <1>3, UploadCounts, CleanupCounts DEF Next

\* A capability is issued, and a claim released unproven, for a pathname.
LEMMA NextPathnames ==
  ASSUME BlobInv, [Next]_vars, caps \subseteq Paths, unproven \subseteq Paths
  PROVE  caps' \subseteq Paths /\ unproven' \subseteq Paths
<1>1. CASE Upload
  <2>1. ASSUME NEW a \in asks, ReclaimExpired(a) \/ Reserve(a) \/ Issue(a) \/ IssueFails(a)
        PROVE  caps' \subseteq caps \cup {a.path} /\ unproven' \subseteq unproven
    <3>1. CASE ReclaimExpired(a)
      BY <3>1 DEF ReclaimExpired, Keep, DeleteRegistration
    <3>2. CASE Reserve(a)
      BY <3>2, Zenon DEF Reserve, Keep
    <3>3. CASE Issue(a)
      BY <3>3 DEF Issue
    <3>4. CASE IssueFails(a)
      BY <3>4 DEF IssueFails, Keep, DeleteRegistration
    <3> QED BY <2>1, <3>1, <3>2, <3>3, <3>4
  <2>2. \A a \in asks : a.path \in Paths
    BY DEF BlobInv, RequestsOK
  <2>3. ASSUME NEW p \in Paths, AskUpload(p) \/ PutBlob(p) \/ HeadForFinalize(p)
        PROVE  UNCHANGED <<caps, unproven>>
    BY <2>3 DEF AskUpload, PutBlob, HeadForFinalize
  <2>4. ASSUME NEW f \in finals, Finalize(f) PROVE UNCHANGED <<caps, unproven>>
    BY <2>4 DEF Finalize, FinalizeRegistration, Keep
  <2> QED BY <1>1, <2>1, <2>2, <2>3, <2>4 DEF Upload
<1>2. CASE Canvas
  BY <1>2 DEF Canvas, ReadGuard, RemoveReference, CommitReference
<1>3. ASSUME NEW c \in Cleaners, Cleanup(c) \/ Trouble(c)
      PROVE  caps' = caps /\ unproven' \subseteq Paths
  <2>1. caps' = caps
    BY <1>3, Zenon DEF Cleanup, Trouble, ListCandidates, ConsiderReservation, HeadReservation,
       SettleReservation, PurgeReservation, Claim, ReadRoom, ReleaseUnread, Examine, Decide,
       DeleteClaimed, Forget, ListBlobs, GetRegistrations, SweepBlob, EndRun, RoomUnreadable,
       Stopped, CallFails, ClaimAnswerLost, DeleteAnswerLost, Abandons, others
  <2>2. CASE ReleaseUnread(c)
    <3>1. \A k \in run[c].claims : k.path \in Paths
      BY RunTypes
    <3>2. \E k \in run[c].claims : unproven' \subseteq unproven \cup {k.path}
      BY <2>2 DEF ReleaseUnread, Keep
    <3> QED BY <2>1, <3>1, <3>2
  <2>3. CASE SettleReservation(c) \/ Decide(c) \/ Forget(c)
    BY <2>1, <2>3 DEF SettleReservation, Decide, Forget, FinalizeRegistration, DeleteRegistration, Keep
  <2>4. CASE Claim(c) \/ ClaimAnswerLost(c) \/ EndRun(c) \/ Stopped(c)
    BY <2>1, <2>4 DEF Claim, ClaimAnswerLost, EndRun, Stopped, Abandons, Keep
  <2>5. CASE ListCandidates(c) \/ ConsiderReservation(c) \/ HeadReservation(c) \/ PurgeReservation(c)
           \/ ReadRoom(c) \/ Examine(c) \/ DeleteClaimed(c) \/ ListBlobs(c) \/ GetRegistrations(c)
           \/ SweepBlob(c) \/ RoomUnreadable(c) \/ CallFails(c) \/ DeleteAnswerLost(c)
    <3>1. Keep
      BY <2>5, Zenon DEF ListCandidates, ConsiderReservation, HeadReservation, PurgeReservation, ReadRoom,
         Examine, DeleteClaimed, ListBlobs, GetRegistrations, SweepBlob, RoomUnreadable, CallFails,
         DeleteAnswerLost
    <3> QED BY <2>1, <3>1 DEF Keep
  <2> QED BY <1>3, <2>1, <2>2, <2>3, <2>4, <2>5, Zenon DEF Cleanup, Trouble
<1>4. ASSUME NEW p \in Paths, Ages(p) PROVE UNCHANGED <<caps, unproven>>
  BY <1>4 DEF Ages, RecordAges, BlobAges
<1>5. CASE UNCHANGED vars
  BY <1>5 DEF vars
<1> QED BY <1>1, <1>2, <1>3, <1>4, <1>5 DEF Next

LEMMA CapacityInitially == Init => CapacityInv
<1> SUFFICES ASSUME Init PROVE CapacityInv
  OBVIOUS
<1>1. Reserved(records) = {} /\ Committed(records) = {}
  BY DEF Init, Reserved, Committed, Absent
<1>2. IsFiniteSet({}) /\ Cardinality({}) = 0 /\ HeldBytes(records, {}) = 0
  BY FS_EmptySet, HeldNothing
<1>3. /\ usage = [field \in Counters |-> usage[field]]
      /\ usage.reservedCount = 0 /\ usage.reservedBytes = 0
      /\ usage.committedCount = 0 /\ usage.committedBytes = 0
  BY DEF Init, NoUsage, Counters
<1>4. ReservationBytes * 0 = 0 /\ 0 <= Limits.bytes
  BY RegistryAssumption
<1>5. Accounted(records, usage) /\ Within(usage)
  BY <1>1, <1>2, <1>3, <1>4 DEF Accounted, Within
<1> QED BY <1>5, InitInv DEF CapacityInv, Init

LEMMA CapacityInvariant == Spec => []CapacityInv
<1>1. CapacityInv /\ [Next]_vars => CapacityInv'
  <2> SUFFICES ASSUME CapacityInv, [Next]_vars PROVE CapacityInv'
    OBVIOUS
  <2>1. BlobInv /\ BlobInv'
    BY NextInv DEF CapacityInv
  <2>2. Counted /\ caps' \subseteq Paths /\ unproven' \subseteq Paths
    BY <2>1, NextCounts, NextPathnames DEF CapacityInv
  <2> QED BY <2>1, <2>2, CountedStays DEF CapacityInv
<1> QED BY <1>1, CapacityInitially, PTL DEF Spec

\* What the counters say of the room's capacity is what its records hold, and is
\* within the limit, however uploads, commits and overlapping cleanups cross.
THEOREM CapacityAccounted == Spec => []CapacityIsAccounted
<1>1. ASSUME CapacityInv PROVE CapacityIsAccounted
  <2>1. Accounted(records, usage) /\ Within(usage)
    BY <1>1 DEF CapacityInv
  <2>2. usage.reservedBytes = ReservationBytes * usage.reservedCount
    BY <2>1 DEF Accounted
  <2>3. usage.committedBytes = MapThenSumSet(LAMBDA p : records[p].size, Committed(records))
    BY <2>1, Zenon DEF Accounted, HeldBytes
  <2> QED BY <2>1, <2>2, <2>3, Zenon DEF Accounted, Within, CapacityIsAccounted, Reserved, Committed
<1> QED BY <1>1, CapacityInvariant, PTL

\* The registry keeps its types, and no counter is ever negative.
THEOREM AssetTypes == Spec => []AssetsTypeOK
<1>1. ASSUME CapacityInv PROVE AssetsTypeOK
  <2>1. StoresOK /\ caps \subseteq Paths /\ unproven \subseteq Paths /\ Accounted(records, usage)
    BY <1>1 DEF CapacityInv, BlobInv
  <2>2. /\ usage.reservedBytes \in Nat /\ usage.reservedCount \in Nat
        /\ usage.committedBytes \in Nat /\ usage.committedCount \in Nat
    BY <2>1, CountersAreNat DEF StoresOK
  <2>3. usage \in [DOMAIN NoUsage -> Nat]
    <3>1. DOMAIN NoUsage = Counters /\ usage = [field \in Counters |-> usage[field]]
      BY <2>1 DEF Accounted, NoUsage, Counters
    <3> QED BY <2>2, <3>1 DEF Counters
  <2> QED BY <2>1, <2>3 DEF StoresOK, AssetsTypeOK, Stamped
<1> QED BY <1>1, CapacityInvariant, PTL

=============================================================================
