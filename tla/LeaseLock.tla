----------------------------- MODULE LeaseLock -----------------------------
(***************************************************************************)
(* One lease of the reference lock adapter: acquire(), renew() and         *)
(* release() as functions of the lease held (Null for none), the fencing   *)
(* counter and the clock.  A handle's owner token is fresh at each         *)
(* acquire(), as its fencing token is, so the latter stands for both.      *)
(***************************************************************************)
EXTENDS Integers

CONSTANT Null

Leases == [token : Nat, expires : Nat]

ASSUME NullLeaseAssumption == Null \notin Leases

\* variants: no lease is looked at; a lease never expires
AcquirableAlways(h, t) == TRUE

AcquirableWhenFree(h, t) == h = Null

\* An expired lease is anybody's
Acquirable(h, t) == h # Null => t >= h.expires

\* The lease acquire() grants when the key's fencing counter stands at n
Acquired(n, ttl, t) == [token |-> n + 1, expires |-> t + ttl]

Holds(h, token) == h # Null /\ h.token = token

\* variant: renewal does not look at the owner token
RenewableByAnyone(h, token, t) == h # Null /\ t < h.expires

\* renew() succeeds for the holder while the lease has not expired
Renewable(h, token, t) == Holds(h, token) /\ t < h.expires

Renewed(h, ttl, t) == [h EXCEPT !.expires = t + ttl]

\* variant: release drops whatever lease there is
ReleasedBlindly(h, token) == Null

\* release() by anyone but the holder is a no-op
Released(h, token) == IF Holds(h, token) THEN Null ELSE h
=============================================================================
