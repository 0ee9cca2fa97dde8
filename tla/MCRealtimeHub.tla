---------------------------- MODULE MCRealtimeHub ----------------------------
(***************************************************************************)
(* RealtimeHub for TLC: one room and one hub, with the browsers            *)
(* interchangeable.                                                        *)
(***************************************************************************)
EXTENDS RealtimeHub, TLC

Symmetry == Permutations(Clients)
==============================================================================
