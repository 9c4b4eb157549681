------------------------- MODULE MCIdempotencyStore -------------------------
(***************************************************************************)
(* Instances of the idempotency store for TLC: two live requests and a     *)
(* reconciler.  Each caller has a correlation id of its own.               *)
(***************************************************************************)
EXTENDS IdempotencyStore, TLC

CONSTANTS w1, w2, rc, oa, ob, oc

MCCallers == {w1, w2, rc}
MCReconcilers == {rc}
MCOwners == {oa, ob, oc}
MCOwnerDistinct == (w1 :> oa) @@ (w2 :> ob) @@ (rc :> oc)
=============================================================================
