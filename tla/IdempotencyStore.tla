-------------------------- MODULE IdempotencyStore --------------------------
(***************************************************************************)
(* The idempotency store under arbitrary callers: live requests and        *)
(* reconcilers that claim keys, work for as long as they like, settle      *)
(* late, or crash and never settle.  A caller's own view of its claim is   *)
(* kept beside the store's record, because the hazards of this component   *)
(* are the ways the two can disagree.                                      *)
(***************************************************************************)
EXTENDS ClaimRecord

CONSTANTS
    Keys, Callers, Reconcilers,
    OwnerOf,       \* the correlation id each caller claims under
    Lease,         \* idempotency_lease_seconds
    Ttl,           \* idempotency_ttl_seconds of live requests, 0 for none
    MaxTime        \* bound on the clock

ASSUME StoreAssumption ==
    /\ Reconcilers \subseteq Callers
    /\ OwnerOf \in [Callers -> Owners]
    /\ Lease \in Nat \ {0}
    /\ Ttl \in Nat
    /\ MaxTime \in Nat
    /\ Null \notin Callers

VARIABLES
    rec,           \* the record of each key
    now,           \* the store's monotonic clock
    work,          \* each caller's unsettled grant
    claimant       \* history: the caller each key was last granted to

vars == <<rec, now, work, claimant>>

Grants == [key : Keys, until : Nat, expires : Nat]

ASSUME NullGrantAssumption == Null \notin Grants

TypeOK ==
    /\ rec \in [Keys -> ClaimRecords \cup {Null}]
    /\ now \in Nat
    /\ work \in [Callers -> Grants \cup {Null}]
    /\ claimant \in [Keys -> Callers \cup {Null}]

Init ==
    /\ rec = [k \in Keys |-> Null]
    /\ now = 0
    /\ work = [p \in Callers |-> Null]
    /\ claimant = [k \in Keys |-> Null]

\* variant: every caller passes recover=True
RequestOfRecovering(p, fp) ==
    [owner |-> OwnerOf[p], fp |-> fp, lease |-> Lease,
     ttl |-> IF p \in Reconcilers THEN 0 ELSE Ttl, recover |-> TRUE]

\* The reconciler passes recover=True and no ttl_seconds
RequestOf(p, fp) ==
    [owner |-> OwnerOf[p], fp |-> fp, lease |-> Lease,
     ttl |-> IF p \in Reconcilers THEN 0 ELSE Ttl,
     recover |-> p \in Reconcilers]

\* Only a granted claim changes anything; every other answer leaves the store
\* and the caller as they are
Grant(p, k, c) ==
    LET r == AfterClaim(rec[k], c, now)
    IN  /\ ClaimStatus(rec[k], c, now) = "CLAIMED"
        /\ rec' = [rec EXCEPT ![k] = r]
        /\ work' = [work EXCEPT ![p] = [key |-> k, until |-> r.lease_until,
                                        expires |-> r.expires_at]]
        /\ claimant' = [claimant EXCEPT ![k] = p]
        /\ UNCHANGED now

Refuse(k, c) ==
    /\ ClaimStatus(rec[k], c, now) # "CLAIMED"
    /\ UNCHANGED vars

Claim(p, k, fp) ==
    /\ work[p] = Null
    /\ Grant(p, k, RequestOf(p, fp)) \/ Refuse(k, RequestOf(p, fp))

Complete(p, res) ==
    /\ work[p] # Null
    /\ rec' = [rec EXCEPT ![work[p].key] = AfterComplete(@, OwnerOf[p], res)]
    /\ work' = [work EXCEPT ![p] = Null]
    /\ UNCHANGED <<now, claimant>>

Fail(p, retryable, unknown) ==
    /\ work[p] # Null
    /\ rec' = [rec EXCEPT ![work[p].key] =
                  AfterFail(@, OwnerOf[p], retryable, unknown)]
    /\ work' = [work EXCEPT ![p] = Null]
    /\ UNCHANGED <<now, claimant>>

\* The caller's process dies: its record stays as the claim left it
Crash(p) ==
    /\ work[p] # Null
    /\ work' = [work EXCEPT ![p] = Null]
    /\ UNCHANGED <<rec, now, claimant>>

Tick ==
    /\ now < MaxTime
    /\ now' = now + 1
    /\ UNCHANGED <<rec, work, claimant>>

CallerStep(p) ==
    \/ \E k \in Keys, fp \in Fingerprints \cup {Null} : Claim(p, k, fp)
    \/ \E res \in Results : Complete(p, res)
    \/ \E retryable \in BOOLEAN : Fail(p, retryable, FALSE)
    \/ Fail(p, FALSE, TRUE)
    \/ Crash(p)

Next == Tick \/ \E p \in Callers : CallerStep(p)

Spec == Init /\ [][Next]_vars

-----------------------------------------------------------------------------
(* Properties *)

\* A caller may still act on its grant: its lease and the record's life run on
GrantLive(p) ==
    /\ work[p] # Null
    /\ now < work[p].until
    /\ work[p].expires # 0 => now < work[p].expires

\* Two callers never both hold a live grant of one key, whatever the
\* interleaving of lapses, takeovers, late settlements and crashes: the claim
\* is the exclusion every executor relies on.
LiveGrantExclusive ==
    \A p, q \in Callers :
        p # q /\ GrantLive(p) /\ GrantLive(q) => work[p].key # work[q].key

\* Each record in progress names its claimant as owner, and each live grant is
\* exactly what the record of its key says: why live grants exclude each other.
ClaimantOwns ==
    \A k \in Keys :
        rec[k] # Null /\ rec[k].state = "IN_PROGRESS"
            => claimant[k] # Null /\ rec[k].owner = OwnerOf[claimant[k]]

GrantRecorded(p) ==
    LET r == rec[work[p].key]
    IN  /\ claimant[work[p].key] = p
        /\ r # Null
        /\ r.state = "IN_PROGRESS"
        /\ r.lease_until = work[p].until
        /\ r.expires_at = work[p].expires

StoreInv ==
    /\ TypeOK
    /\ ClaimantOwns
    /\ \A p \in Callers : GrantLive(p) => GrantRecorded(p)

\* complete() and fail() take effect only when the caller settling is the one
\* the key was last granted to: "a stale owner whose claim was taken over
\* gets False".
OnlyClaimantSettles ==
    [][\A p \in Callers :
          work[p] # Null /\ work'[p] = Null /\ rec'[work[p].key] # rec[work[p].key]
             => claimant[work[p].key] = p]_vars

\* An outcome, once stored, is never replaced before the record's expiry: a
\* result handed out by REPLAY stays the only answer to that key.
OutcomeFinal ==
    [][\A k \in Keys :
          rec[k] # Null /\ rec[k].state \in {"SUCCEEDED", "FAILED_FINAL"}
             => rec'[k] = rec[k] \/ Forgotten(rec[k], now)]_vars

\* A key whose outcome is unknown, or whose owner let its lease lapse, is
\* granted next to a reconciler, until the record expires: no live request may
\* re-execute it blindly.
RecoveryIsReconcilers ==
    [][\A k \in Keys :
          /\ rec[k] # Null /\ Unresolved(rec[k], now) /\ ~Forgotten(rec[k], now)
          /\ claimant'[k] # claimant[k]
          => claimant'[k] \in Reconcilers]_vars

\* The contract phase a record shows at time t
RecordPhase(r, t) ==
    CASE Vacant(r, t)                                             -> "open"
      [] ~Vacant(r, t) /\ LeaseLapsed(r, t)                       -> "lapsed"
      [] ~Vacant(r, t) /\ r.state = "IN_PROGRESS" /\ t < r.lease_until -> "held"
      [] ~Vacant(r, t) /\ r.state = "UNKNOWN"                     -> "parked"
      [] ~Vacant(r, t) /\ r.state = "SUCCEEDED"                   -> "succeeded"
      [] ~Vacant(r, t) /\ r.state = "FAILED_FINAL"                -> "refused"

Contract ==
    INSTANCE ClaimContract
    WITH phase <- [k \in Keys |-> RecordPhase(rec[k], now)],
         worker <- claimant,
         Forgetful <- (Ttl # 0)

\* The store implements the claim contract: grants, takeovers, settlements and
\* the passing of time all map to steps of it or to none.
ImplementsContract == Contract!Spec
=============================================================================
