----------------------------- MODULE MCBlobAssets -----------------------------
(***************************************************************************)
(* BlobAssets for TLC.  Paths of one participant; reservations of two      *)
(* units, uploads of one.                                                  *)
(***************************************************************************)
EXTENDS BlobAssets

CONSTANTS Client, p1, p2

MCOwnerOf == [p \in Paths |-> Client]
MCLimits == [bytes |-> 3, assets |-> 2, pending |-> 1]
MCMaxStamp == [p \in Paths |-> IF p = p1 THEN 4 ELSE 1]
===============================================================================
