-------------------------- MODULE MCReconciliation --------------------------
(***************************************************************************)
(* Instances of Reconciliation for TLC: deliveries of one request and two  *)
(* reconcilers, each its own correlation id, so that permuting either set  *)
(* leaves a specification unchanged.                                       *)
(***************************************************************************)
EXTENDS Reconciliation, TLC

CONSTANTS d1, d2, w1, w2, c1

MCOwners == Deliveries \cup Workers
MCOwnerOf == [d \in Deliveries |-> d]
MCWorkerOwner == [w \in Workers |-> w]
MCContentOf == [d \in Deliveries |-> c1]
MCRoutingsOf ==
    [d \in Deliveries |-> {[intent |-> "API_TOOL_CALL", confident |-> TRUE]}]
MCNobody == {}

MCSymmetry == Permutations(Deliveries) \cup Permutations(Workers)
=============================================================================
