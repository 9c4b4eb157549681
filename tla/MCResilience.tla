---------------------------- MODULE MCResilience ----------------------------
(***************************************************************************)
(* Instances of Resilience for TLC.  A token is two units, a call earns    *)
(* one, and the circuit opens on the second consecutive failure.           *)
(***************************************************************************)
EXTENDS Resilience, TLC

CONSTANTS c1, c2, c3

\* Clients differ only in idempotence
MCSymmetry == Permutations(Idempotent) \cup Permutations(Clients \ Idempotent)
=============================================================================
