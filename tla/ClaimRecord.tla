---------------------------- MODULE ClaimRecord ----------------------------
(***************************************************************************)
(* One idempotency record and the three atomic steps a store takes on it:  *)
(* claim(), complete() and fail() of the reference store adapter, as       *)
(* functions of the record, the call's arguments and the store's clock.    *)
(* The record of a key nobody has claimed is Null.                         *)
(***************************************************************************)
EXTENDS Integers

CONSTANTS
    Owners,        \* correlation ids: the owner a caller claims under
    Fingerprints,  \* hashes of a request's business content
    Results,       \* replayable results
    Null

ASSUME NullAssumption ==
    /\ Null \notin Owners
    /\ Null \notin Fingerprints
    /\ Null \notin Results

ClaimStates ==
    {"IN_PROGRESS", "SUCCEEDED", "FAILED_RETRYABLE", "FAILED_FINAL", "UNKNOWN"}

\* expires_at = 0 stands for "never": the code tests the field's truth value
ClaimRecords ==
    [state : ClaimStates, owner : Owners, lease_until : Nat,
     fp : Fingerprints \cup {Null}, result : Results \cup {Null},
     expires_at : Nat]

\* Null is no record either
ASSUME NullRecordAssumption == Null \notin ClaimRecords

\* The arguments of a claim; ttl = 0 is a claim without ttl_seconds
ClaimRequests ==
    [owner : Owners, fp : Fingerprints \cup {Null},
     lease : Nat \ {0}, ttl : Nat, recover : BOOLEAN]

-----------------------------------------------------------------------------
(* The conditions claim() tests, in its order *)

Forgotten(r, t) ==
    r # Null /\ r.expires_at # 0 /\ t >= r.expires_at

\* variants: what else a faulty store might hand out
VacantWhenFinal(r, t) ==
    r = Null \/ Forgotten(r, t) \/ r.state \in {"FAILED_RETRYABLE", "FAILED_FINAL"}

VacantWhenUnknown(r, t) ==
    r = Null \/ Forgotten(r, t) \/ r.state \in {"FAILED_RETRYABLE", "UNKNOWN"}

VacantWhenDone(r, t) ==
    r = Null \/ Forgotten(r, t) \/ r.state \in {"FAILED_RETRYABLE", "SUCCEEDED"}

\* No record, a forgotten one, or one left claimable by a retryable failure
Vacant(r, t) ==
    r = Null \/ Forgotten(r, t) \/ r.state = "FAILED_RETRYABLE"

OtherContent(r, c) ==
    c.fp # Null /\ r.fp # Null /\ c.fp # r.fp

\* variant: any claim in progress counts as lapsed
LeaseLapsedAlways(r, t) ==
    r.state = "IN_PROGRESS"

LeaseLapsed(r, t) ==
    r.state = "IN_PROGRESS" /\ t >= r.lease_until

\* variant: only a recorded UNKNOWN may be taken over
UnresolvedWhenParked(r, t) ==
    r.state = "UNKNOWN"

Unresolved(r, t) ==
    r.state = "UNKNOWN" \/ LeaseLapsed(r, t)

ClaimStatus(r, c, t) ==
    IF Vacant(r, t) THEN "CLAIMED"
    ELSE IF OtherContent(r, c) THEN "CONFLICT"
    ELSE IF r.state = "SUCCEEDED" THEN "REPLAY"
    ELSE IF r.state = "FAILED_FINAL" THEN "FAILED_FINAL"
    ELSE IF ~Unresolved(r, t) THEN "IN_PROGRESS"
    ELSE IF c.recover THEN "CLAIMED" ELSE "RECOVERY_REQUIRED"

FreshRecord(c, t) ==
    [state |-> "IN_PROGRESS", owner |-> c.owner, lease_until |-> t + c.lease,
     fp |-> c.fp, result |-> Null,
     expires_at |-> IF c.ttl = 0 THEN 0 ELSE t + c.ttl]

\* variant: a takeover forgets to become the owner
TakenOverUnowned(r, c, t) ==
    [r EXCEPT !.state = "IN_PROGRESS", !.lease_until = t + c.lease]

\* A takeover keeps the fingerprint and the expiry of the first claim
TakenOver(r, c, t) ==
    [r EXCEPT !.state = "IN_PROGRESS", !.owner = c.owner,
              !.lease_until = t + c.lease]

\* The record after a claim: only a granted claim changes it
AfterClaim(r, c, t) ==
    IF ClaimStatus(r, c, t) # "CLAIMED" THEN r
    ELSE IF Vacant(r, t) THEN FreshRecord(c, t)
    ELSE TakenOver(r, c, t)

-----------------------------------------------------------------------------
(* Settling: accepted from the record's owner while it is in progress,     *)
(* whether or not its lease has lapsed; no effect otherwise.               *)

\* variant: the owner is not compared
OwnedByAnyone(r, o) ==
    r # Null /\ r.state = "IN_PROGRESS"

OwnedBy(r, o) ==
    r # Null /\ r.state = "IN_PROGRESS" /\ r.owner = o

AfterComplete(r, o, res) ==
    IF OwnedBy(r, o)
    THEN [r EXCEPT !.state = "SUCCEEDED", !.result = res]
    ELSE r

FailureState(retryable, unknown) ==
    IF unknown THEN "UNKNOWN"
    ELSE IF retryable THEN "FAILED_RETRYABLE" ELSE "FAILED_FINAL"

AfterFail(r, o, retryable, unknown) ==
    IF OwnedBy(r, o)
    THEN [r EXCEPT !.state = FailureState(retryable, unknown)]
    ELSE r
=============================================================================
