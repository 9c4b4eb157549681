-------------------------- MODULE MCOutboxSweeper --------------------------
(***************************************************************************)
(* An instance of OutboxSweeper for TLC: a sweeper that never stalls and   *)
(* one that may stall anywhere, for as long as the clock runs.             *)
(***************************************************************************)
EXTENDS OutboxSweeper, TLC

CONSTANTS s1, s2, r1, r2
=============================================================================
