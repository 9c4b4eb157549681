----------------------- MODULE IdempotencyStoreProofs -----------------------
(***************************************************************************)
(* Theorems about the idempotency store, for any callers, keys, lease, ttl *)
(* and clock bound.                                                        *)
(***************************************************************************)
EXTENDS IdempotencyStore, TLAPS

\* Callers do not share a correlation id
OwnersDistinct ==
    \A p, q \in Callers : OwnerOf[p] = OwnerOf[q] => p = q

-----------------------------------------------------------------------------
(* The operators of ClaimRecord *)

\* A granted claim leaves a record in progress, owned by the claimer, with a
\* full lease ahead of it.
LEMMA ClaimedRecord ==
    ASSUME NEW r \in ClaimRecords \cup {Null}, NEW c \in ClaimRequests, NEW t \in Nat,
           ClaimStatus(r, c, t) = "CLAIMED"
    PROVE  /\ AfterClaim(r, c, t) \in ClaimRecords
           /\ AfterClaim(r, c, t) # Null
           /\ AfterClaim(r, c, t).state = "IN_PROGRESS"
           /\ AfterClaim(r, c, t).owner = c.owner
           /\ AfterClaim(r, c, t).lease_until = t + c.lease
<1>1. CASE Vacant(r, t)
  <2>1. AfterClaim(r, c, t) = FreshRecord(c, t)
    BY <1>1 DEF AfterClaim
  <2>2. FreshRecord(c, t) \in ClaimRecords
    BY DEF FreshRecord, ClaimRecords, ClaimRequests, ClaimStates
  <2> QED
    BY <2>1, <2>2, NullRecordAssumption DEF FreshRecord
<1>2. CASE ~Vacant(r, t)
  <2>1. AfterClaim(r, c, t) = TakenOver(r, c, t) /\ r \in ClaimRecords
    BY <1>2 DEF AfterClaim, Vacant
  <2>2. c.owner \in Owners /\ t + c.lease \in Nat
    BY DEF ClaimRequests
  <2>3. [r EXCEPT !.state = "IN_PROGRESS", !.owner = c.owner,
                  !.lease_until = t + c.lease] \in ClaimRecords
    BY <2>1, <2>2 DEF ClaimRecords, ClaimStates
  <2>4. TakenOver(r, c, t) \in ClaimRecords
    BY <2>3 DEF TakenOver
  <2> QED
    BY <2>1, <2>2, <2>4, NullRecordAssumption DEF TakenOver, ClaimRecords
<1> QED
  BY <1>1, <1>2

\* A claim is granted only on a vacant record or one with no live owner.
LEMMA GrantedOn ==
    ASSUME NEW r \in ClaimRecords \cup {Null}, NEW c \in ClaimRequests, NEW t \in Nat,
           ClaimStatus(r, c, t) = "CLAIMED", ~Vacant(r, t)
    PROVE  /\ Unresolved(r, t)
           /\ c.recover
           /\ r.state \notin {"SUCCEEDED", "FAILED_FINAL"}
  BY DEF ClaimStatus, Unresolved, LeaseLapsed

\* Settling keeps a record a record, and changes it only for its owner, whose
\* claim it ends.
LEMMA CompletedRecord ==
    ASSUME NEW r \in ClaimRecords \cup {Null}, NEW o \in Owners, NEW res \in Results
    PROVE  /\ AfterComplete(r, o, res) \in ClaimRecords \cup {Null}
           /\ AfterComplete(r, o, res) # r =>
                 r # Null /\ r.state = "IN_PROGRESS" /\ r.owner = o
           /\ OwnedBy(r, o) => AfterComplete(r, o, res) \in ClaimRecords
           /\ ~OwnedBy(r, o) => AfterComplete(r, o, res) = r
<1>1. OwnedBy(r, o) => [r EXCEPT !.state = "SUCCEEDED", !.result = res] \in ClaimRecords
  BY DEF OwnedBy, ClaimRecords, ClaimStates
<1> QED
  BY <1>1 DEF AfterComplete, OwnedBy

\* The same of a failure, whichever state it leaves.
LEMMA FailedRecord ==
    ASSUME NEW r \in ClaimRecords \cup {Null}, NEW o \in Owners,
           NEW retryable \in BOOLEAN, NEW unknown \in BOOLEAN
    PROVE  /\ AfterFail(r, o, retryable, unknown) \in ClaimRecords \cup {Null}
           /\ AfterFail(r, o, retryable, unknown) # r =>
                 r # Null /\ r.state = "IN_PROGRESS" /\ r.owner = o
           /\ OwnedBy(r, o) => AfterFail(r, o, retryable, unknown) \in ClaimRecords
           /\ ~OwnedBy(r, o) => AfterFail(r, o, retryable, unknown) = r
<1>1. FailureState(retryable, unknown) \in {"UNKNOWN", "FAILED_RETRYABLE", "FAILED_FINAL"}
  BY DEF FailureState
<1>2. OwnedBy(r, o) =>
        [r EXCEPT !.state = FailureState(retryable, unknown)] \in ClaimRecords
  BY <1>1 DEF OwnedBy, ClaimRecords, ClaimStates
<1> QED
  BY <1>2 DEF AfterFail, OwnedBy

-----------------------------------------------------------------------------
(* Invariance *)

\* What a caller sends is a claim request.
LEMMA RequestType ==
    ASSUME NEW p \in Callers, NEW fp \in Fingerprints \cup {Null}
    PROVE  RequestOf(p, fp) \in ClaimRequests
  BY StoreAssumption DEF RequestOf, ClaimRequests

\* A settlement, by complete() or fail(), seen from the store: the record of
\* the settler's key changes only if it is in progress under its owner id, and
\* is then no longer in progress and expires as before.
SettlesWith(p, r) ==
    /\ work[p] # Null
    /\ r \in ClaimRecords \cup {Null}
    /\ r # rec[work[p].key] =>
          /\ rec[work[p].key] # Null
          /\ rec[work[p].key].state = "IN_PROGRESS"
          /\ rec[work[p].key].owner = OwnerOf[p]
          /\ r # Null
          /\ r.state # "IN_PROGRESS"
          /\ r.expires_at = rec[work[p].key].expires_at
    /\ rec' = [rec EXCEPT ![work[p].key] = r]
    /\ work' = [work EXCEPT ![p] = Null]
    /\ UNCHANGED <<now, claimant>>

\* complete() touches the one record its caller works on, and only as its owner.
LEMMA CompleteSettles ==
    ASSUME TypeOK, NEW p \in Callers, NEW res \in Results, Complete(p, res)
    PROVE  \E r \in ClaimRecords \cup {Null} : SettlesWith(p, r)
<1> DEFINE k == work[p].key
           r == AfterComplete(rec[k], OwnerOf[p], res)
<1>1. k \in Keys /\ rec[k] \in ClaimRecords \cup {Null} /\ OwnerOf[p] \in Owners
  BY StoreAssumption DEF TypeOK, Complete, Grants
<1>2. r \in ClaimRecords \cup {Null}
  BY <1>1, CompletedRecord
<1>3. r # rec[k] =>
        /\ rec[k] # Null
        /\ rec[k].state = "IN_PROGRESS"
        /\ rec[k].owner = OwnerOf[p]
  BY DEF AfterComplete, OwnedBy
<1>4. r # rec[k] =>
        r # Null /\ r.state # "IN_PROGRESS" /\ r.expires_at = rec[k].expires_at
  <2>1. SUFFICES ASSUME OwnedBy(rec[k], OwnerOf[p]) 
                 PROVE  r # Null /\ r.state # "IN_PROGRESS"
                        /\ r.expires_at = rec[k].expires_at
    BY DEF AfterComplete
  <2>2. rec[k] \in ClaimRecords
    BY <1>1, <2>1 DEF OwnedBy
  <2>3. r = [rec[k] EXCEPT !.state = "SUCCEEDED", !.result = res]
    BY <2>1 DEF AfterComplete
  <2>4. r.state = "SUCCEEDED" /\ r.expires_at = rec[k].expires_at
    BY <2>2, <2>3 DEF ClaimRecords
  <2>5. r # Null
    BY <1>1, <2>1, CompletedRecord, NullRecordAssumption
  <2> QED
    BY <2>4, <2>5
<1>5. rec' = [rec EXCEPT ![k] = r] /\ work' = [work EXCEPT ![p] = Null]
      /\ UNCHANGED <<now, claimant>> /\ work[p] # Null
  BY DEF Complete
<1> HIDE DEF r
<1> QED
  BY <1>2, <1>3, <1>4, <1>5 DEF SettlesWith

\* fail() does the same.
LEMMA FailSettles ==
    ASSUME TypeOK, NEW p \in Callers, NEW retryable \in BOOLEAN, NEW unknown \in BOOLEAN,
           Fail(p, retryable, unknown)
    PROVE  \E r \in ClaimRecords \cup {Null} : SettlesWith(p, r)
<1> DEFINE k == work[p].key
           r == AfterFail(rec[k], OwnerOf[p], retryable, unknown)
<1>1. k \in Keys /\ rec[k] \in ClaimRecords \cup {Null} /\ OwnerOf[p] \in Owners
  BY StoreAssumption DEF TypeOK, Fail, Grants
<1>2. r \in ClaimRecords \cup {Null}
  BY <1>1, FailedRecord
<1>3. r # rec[k] =>
        /\ rec[k] # Null
        /\ rec[k].state = "IN_PROGRESS"
        /\ rec[k].owner = OwnerOf[p]
  BY DEF AfterFail, OwnedBy
<1>4. r # rec[k] =>
        r # Null /\ r.state # "IN_PROGRESS" /\ r.expires_at = rec[k].expires_at
  <2>1. SUFFICES ASSUME OwnedBy(rec[k], OwnerOf[p]) 
                 PROVE  r # Null /\ r.state # "IN_PROGRESS"
                        /\ r.expires_at = rec[k].expires_at
    BY DEF AfterFail
  <2>2. rec[k] \in ClaimRecords
    BY <1>1, <2>1 DEF OwnedBy
  <2>3. r = [rec[k] EXCEPT !.state = FailureState(retryable, unknown)]
    BY <2>1 DEF AfterFail
  <2>4. r.state = FailureState(retryable, unknown) /\ r.expires_at = rec[k].expires_at
    BY <2>2, <2>3 DEF ClaimRecords
  <2>5. r # Null
    BY <1>1, <2>1, FailedRecord, NullRecordAssumption
  <2> QED
    BY <2>4, <2>5 DEF FailureState
<1>5. rec' = [rec EXCEPT ![k] = r] /\ work' = [work EXCEPT ![p] = Null]
      /\ UNCHANGED <<now, claimant>> /\ work[p] # Null
  BY DEF Fail
<1> HIDE DEF r
<1> QED
  BY <1>2, <1>3, <1>4, <1>5 DEF SettlesWith

\* Every step of a caller is a grant, a settlement, a crash or no change.
LEMMA CallerStepCases ==
    ASSUME TypeOK, NEW p \in Callers, CallerStep(p)
    PROVE  \/ \E k \in Keys, fp \in Fingerprints \cup {Null} :
                work[p] = Null /\ Grant(p, k, RequestOf(p, fp))
           \/ \E r \in ClaimRecords \cup {Null} : SettlesWith(p, r)
           \/ Crash(p)
           \/ UNCHANGED vars
<1>1. CASE \E k \in Keys, fp \in Fingerprints \cup {Null} : Claim(p, k, fp)
  BY <1>1 DEF Claim, Refuse
<1>2. CASE \E res \in Results : Complete(p, res)
  BY <1>2, CompleteSettles
<1>3. CASE \E retryable \in BOOLEAN : Fail(p, retryable, FALSE)
  BY <1>3, FailSettles
<1>4. CASE Fail(p, FALSE, TRUE)
  BY <1>4, FailSettles
<1> QED
  BY <1>1, <1>2, <1>3, <1>4 DEF CallerStep

\* Every step of the callers and of the clock keeps the types.
LEMMA TypeOKStep ==
    ASSUME TypeOK, [Next]_vars
    PROVE  TypeOK'
<1>1. ASSUME NEW p \in Callers, NEW k \in Keys, NEW fp \in Fingerprints \cup {Null},
             work[p] = Null, Grant(p, k, RequestOf(p, fp))
      PROVE  TypeOK'
  <2> DEFINE c == RequestOf(p, fp)
             r == AfterClaim(rec[k], c, now)
  <2>1. r \in ClaimRecords
    BY <1>1, RequestType, ClaimedRecord DEF TypeOK, Grant
  <2>2. [key |-> k, until |-> r.lease_until, expires |-> r.expires_at] \in Grants
    BY <2>1 DEF Grants, ClaimRecords
  <2>3. /\ rec' = [rec EXCEPT ![k] = r]
        /\ work' = [work EXCEPT ![p] = [key |-> k, until |-> r.lease_until,
                                        expires |-> r.expires_at]]
        /\ claimant' = [claimant EXCEPT ![k] = p]
        /\ now' = now
    BY <1>1 DEF Grant
  <2> HIDE DEF r
  <2> QED
    BY <2>1, <2>2, <2>3 DEF TypeOK
<1>2. ASSUME NEW p \in Callers, NEW r \in ClaimRecords \cup {Null}, SettlesWith(p, r)
      PROVE  TypeOK'
  BY <1>2 DEF TypeOK, SettlesWith
<1>3. ASSUME NEW p \in Callers, Crash(p)
      PROVE  TypeOK'
  BY <1>3 DEF TypeOK, Crash
<1>4. CASE Tick
  BY <1>4 DEF TypeOK, Tick
<1>5. CASE UNCHANGED vars
  BY <1>5 DEF TypeOK, vars
<1> QED
  BY <1>1, <1>2, <1>3, <1>4, <1>5, CallerStepCases DEF Next

\* The store's type invariant, for any callers and any clock bound.
THEOREM TypeCorrect == Spec => []TypeOK
<1>1. Init => TypeOK
  BY DEF Init, TypeOK
<1> QED
  BY <1>1, TypeOKStep, PTL DEF Spec

\* Nothing is granted at first.
LEMMA StoreInvInit == Init => StoreInv
  BY DEF Init, StoreInv, TypeOK, ClaimantOwns, GrantLive

\* StoreInv is inductive when no two callers share an owner id.
LEMMA StoreInvStep ==
    ASSUME OwnersDistinct, StoreInv, [Next]_vars
    PROVE  StoreInv'
<1> USE DEF StoreInv
<1>t. TypeOK /\ TypeOK'
  BY TypeOKStep
<1>1. ASSUME NEW p \in Callers, NEW k \in Keys, NEW fp \in Fingerprints \cup {Null},
             work[p] = Null, Grant(p, k, RequestOf(p, fp))
      PROVE  StoreInv'
  <2> DEFINE c == RequestOf(p, fp)
             r == AfterClaim(rec[k], c, now)
  <2>0. c \in ClaimRequests /\ rec[k] \in ClaimRecords \cup {Null} /\ now \in Nat
    BY <1>t, RequestType DEF TypeOK
  <2>1. r # Null /\ r.state = "IN_PROGRESS" /\ r.owner = OwnerOf[p] /\ r \in ClaimRecords
    BY <1>1, <2>0, ClaimedRecord DEF Grant, RequestOf
  <2>2. /\ rec' = [rec EXCEPT ![k] = r]
        /\ work' = [work EXCEPT ![p] = [key |-> k, until |-> r.lease_until,
                                        expires |-> r.expires_at]]
        /\ claimant' = [claimant EXCEPT ![k] = p]
        /\ now' = now
    BY <1>1 DEF Grant
  <2>3. ASSUME NEW q \in Callers, q # p, GrantLive(q)
        PROVE  work[q].key # k
    \* the record of a live grant is neither vacant nor unresolved
    <3>1. SUFFICES ASSUME work[q].key = k PROVE FALSE
      OBVIOUS
    <3>2. /\ rec[k] # Null
          /\ rec[k].state = "IN_PROGRESS"
          /\ rec[k].lease_until = work[q].until
          /\ rec[k].expires_at = work[q].expires
      BY <2>3, <3>1 DEF GrantRecorded
    <3>3. /\ now < work[q].until
          /\ work[q].expires # 0 => now < work[q].expires
          /\ work[q] \in Grants
      BY <2>3, <1>t DEF GrantLive, TypeOK
    <3>4. ~Vacant(rec[k], now)
      BY <3>2, <3>3, <2>0 DEF Vacant, Forgotten, Grants
    <3>5. ~Unresolved(rec[k], now)
      BY <3>2, <3>3, <2>0 DEF Unresolved, LeaseLapsed, Grants
    <3> QED
      BY <3>4, <3>5, <2>0, <1>1, GrantedOn DEF Grant
  <2> HIDE DEF r
  <2>4. ClaimantOwns'
    BY <1>t, <2>1, <2>2, StoreAssumption DEF ClaimantOwns, TypeOK
  <2>5. ASSUME NEW q \in Callers, GrantLive(q)'
        PROVE  GrantRecorded(q)'
    <3>1. CASE q = p
      BY <3>1, <2>1, <2>2, <1>t DEF GrantRecorded, TypeOK
    <3>2. CASE q # p
      <4>1. GrantLive(q)
        BY <3>2, <2>2, <2>5, <1>t DEF GrantLive, TypeOK
      <4>2. work[q].key # k /\ work'[q] = work[q]
        BY <3>2, <4>1, <2>2, <2>3, <1>t DEF TypeOK
      <4> QED
        BY <4>1, <4>2, <2>2, <1>t DEF GrantRecorded, TypeOK, GrantLive, Grants
    <3> QED
      BY <3>1, <3>2
  <2> QED
    BY <1>t, <2>4, <2>5
<1>2. ASSUME NEW p \in Callers, NEW r \in ClaimRecords \cup {Null}, SettlesWith(p, r)
      PROVE  StoreInv'
  <2> DEFINE k == work[p].key
  <2>0. k \in Keys
    BY <1>2, <1>t DEF SettlesWith, TypeOK, Grants
  <2>1. ClaimantOwns'
    BY <1>2, <1>t, <2>0 DEF SettlesWith, ClaimantOwns, TypeOK
  <2>2. ASSUME NEW q \in Callers, GrantLive(q)'
        PROVE  GrantRecorded(q)'
    <3>1. q # p /\ GrantLive(q) /\ work'[q] = work[q] /\ work[q].key \in Keys
      BY <1>2, <2>2, <1>t DEF SettlesWith, GrantLive, TypeOK, Grants
    <3>2. GrantRecorded(q)
      BY <3>1
    <3>3. CASE work[q].key # k
      BY <3>1, <3>2, <3>3, <1>2, <1>t DEF GrantRecorded, SettlesWith, TypeOK
    <3>4. CASE work[q].key = k
      \* the record names q's owner id, so p's settlement leaves it alone
      <4>1. rec[k].state = "IN_PROGRESS" /\ rec[k] # Null /\ claimant[k] = q
        BY <3>2, <3>4 DEF GrantRecorded
      <4>2. rec[k].owner = OwnerOf[q]
        BY <4>1, <2>0 DEF ClaimantOwns
      <4>3. r = rec[k]
        BY <4>2, <3>1, <1>2 DEF SettlesWith, OwnersDistinct
      <4>4. rec' = rec /\ claimant' = claimant
        BY <4>3, <1>2, <1>t, <2>0 DEF SettlesWith, TypeOK
      <4> QED
        BY <4>4, <3>1, <3>2 DEF GrantRecorded
    <3> QED
      BY <3>3, <3>4
  <2> QED
    BY <1>t, <2>1, <2>2
<1>3. ASSUME NEW p \in Callers, Crash(p)
      PROVE  StoreInv'
  <2>1. ClaimantOwns'
    BY <1>3 DEF Crash, ClaimantOwns
  <2>2. ASSUME NEW q \in Callers, GrantLive(q)'
        PROVE  GrantRecorded(q)'
    <3>1. GrantLive(q) /\ work'[q] = work[q]
      BY <1>3, <2>2, <1>t DEF Crash, GrantLive, TypeOK
    <3> QED
      BY <1>3, <3>1 DEF Crash, GrantRecorded
  <2> QED
    BY <1>t, <2>1, <2>2
<1>4. CASE Tick
  <2>1. ClaimantOwns'
    BY <1>4 DEF Tick, ClaimantOwns
  <2>2. ASSUME NEW q \in Callers, GrantLive(q)'
        PROVE  GrantRecorded(q)'
    <3>1. GrantLive(q)
      BY <1>4, <2>2, <1>t DEF Tick, GrantLive, TypeOK, Grants
    <3> QED
      BY <1>4, <3>1 DEF Tick, GrantRecorded
  <2> QED
    BY <1>t, <2>1, <2>2
<1>5. CASE UNCHANGED vars
  BY <1>5, <1>t DEF vars, ClaimantOwns, GrantLive, GrantRecorded
<1> QED
  BY <1>1, <1>2, <1>3, <1>4, <1>5, <1>t, CallerStepCases DEF Next

\* The store's inductive invariant.
THEOREM StoreInvariant ==
    ASSUME OwnersDistinct
    PROVE  Spec => []StoreInv
<1>1. StoreInv /\ [Next]_vars => StoreInv'
  BY StoreInvStep
<1> QED
  BY <1>1, StoreInvInit, PTL DEF Spec

\* The exclusion every executor relies on: no two callers ever hold a live
\* grant of one key.
THEOREM LiveGrantsExclude ==
    ASSUME OwnersDistinct
    PROVE  Spec => []LiveGrantExclusive
<1>1. StoreInv => LiveGrantExclusive
  BY DEF StoreInv, LiveGrantExclusive, GrantRecorded
<1> QED
  BY <1>1, StoreInvariant, PTL

-----------------------------------------------------------------------------
(* Action properties *)

\* A late complete() or fail() of a caller whose key was granted again has no
\* effect.
THEOREM StaleSettlementRefused ==
    ASSUME OwnersDistinct
    PROVE  Spec => OnlyClaimantSettles
<1> DEFINE A == \A p \in Callers :
                   work[p] # Null /\ work'[p] = Null
                   /\ rec'[work[p].key] # rec[work[p].key]
                      => claimant[work[p].key] = p
<1>1. ASSUME StoreInv, [Next]_vars PROVE A
  <2> SUFFICES ASSUME NEW p \in Callers, work[p] # Null, work'[p] = Null,
                      rec'[work[p].key] # rec[work[p].key]
               PROVE  claimant[work[p].key] = p
    OBVIOUS
  <2>t. TypeOK /\ ClaimantOwns /\ work[p].key \in Keys
    BY <1>1 DEF StoreInv, TypeOK, Grants
  <2>1. ASSUME NEW q \in Callers, NEW r \in ClaimRecords \cup {Null}, SettlesWith(q, r)
        PROVE  claimant[work[p].key] = p
    <3>1. q = p
      BY <2>1, <2>t DEF SettlesWith, TypeOK
    <3>2. r # rec[work[p].key]
      BY <2>1, <2>t, <3>1 DEF SettlesWith, TypeOK
    <3>3. /\ rec[work[p].key] # Null
          /\ rec[work[p].key].state = "IN_PROGRESS"
          /\ rec[work[p].key].owner = OwnerOf[p]
      BY <2>1, <3>1, <3>2 DEF SettlesWith
    <3> QED
      BY <3>3, <2>t DEF ClaimantOwns, OwnersDistinct, TypeOK
  <2>2. ASSUME NEW q \in Callers, NEW k \in Keys, NEW c, Grant(q, k, c), work[q] = Null
        PROVE  FALSE
    BY <2>2, <2>t, NullGrantAssumption DEF Grant, TypeOK
  <2> QED
    BY <1>1, <2>1, <2>2, <2>t, CallerStepCases DEF Next, Crash, Tick, vars
<1>2. OnlyClaimantSettles <=> [][A]_vars
  BY DEF OnlyClaimantSettles
<1>3. StoreInv /\ [Next]_vars => [A]_vars
  BY <1>1
<1> HIDE DEF A
<1> QED
  BY <1>2, <1>3, StoreInvariant, PTL DEF Spec

\* A stored outcome outlives everything but its own expiry, whoever calls.
THEOREM OutcomesFinal == Spec => OutcomeFinal
<1> DEFINE A == \A k \in Keys :
                   rec[k] # Null /\ rec[k].state \in {"SUCCEEDED", "FAILED_FINAL"}
                      => rec'[k] = rec[k] \/ Forgotten(rec[k], now)
<1>1. ASSUME TypeOK, [Next]_vars PROVE A
  <2> SUFFICES ASSUME NEW k \in Keys, rec[k] # Null,
                      rec[k].state \in {"SUCCEEDED", "FAILED_FINAL"},
                      ~Forgotten(rec[k], now)
               PROVE  rec'[k] = rec[k]
    OBVIOUS
  <2>1. ASSUME NEW p \in Callers, NEW j \in Keys, NEW fp \in Fingerprints \cup {Null},
               Grant(p, j, RequestOf(p, fp))
        PROVE  rec'[k] = rec[k]
    <3>1. CASE j # k
      BY <2>1, <3>1, <1>1 DEF Grant, TypeOK
    <3>2. CASE j = k
      <4>1. ~Vacant(rec[k], now) /\ rec[k] \in ClaimRecords \cup {Null} /\ now \in Nat
        BY <1>1 DEF Vacant, TypeOK
      <4> QED
        BY <2>1, <3>2, <4>1, RequestType, GrantedOn DEF Grant
    <3> QED
      BY <3>1, <3>2
  <2>2. ASSUME NEW p \in Callers, NEW r \in ClaimRecords \cup {Null}, SettlesWith(p, r)
        PROVE  rec'[k] = rec[k]
    BY <2>2, <1>1 DEF SettlesWith, TypeOK
  <2> QED
    BY <1>1, <2>1, <2>2, CallerStepCases DEF Next, Crash, Tick, vars
<1>2. OutcomeFinal <=> [][A]_vars
  BY DEF OutcomeFinal
<1>3. TypeOK /\ [Next]_vars => [A]_vars
  BY <1>1
<1> HIDE DEF A
<1> QED
  BY <1>2, <1>3, TypeCorrect, PTL DEF Spec

-----------------------------------------------------------------------------
(* The store implements the claim contract *)

\* Records expire only if live requests pass a ttl.
ExpiryMeansTtl ==
    \A k \in Keys : rec[k] # Null /\ rec[k].expires_at # 0 => Ttl # 0

\* Only a claim with a ttl makes a record that is ever forgotten.
LEMMA ExpiryMeansTtlStep ==
    ASSUME TypeOK, ExpiryMeansTtl, [Next]_vars
    PROVE  ExpiryMeansTtl'
<1>1. ASSUME NEW p \in Callers, NEW k \in Keys, NEW fp \in Fingerprints \cup {Null},
             Grant(p, k, RequestOf(p, fp))
      PROVE  ExpiryMeansTtl'
  <2> DEFINE r == AfterClaim(rec[k], RequestOf(p, fp), now)
  <2>1. r.expires_at # 0 => Ttl # 0
    <3>1. CASE Vacant(rec[k], now)
      <4>1. r = FreshRecord(RequestOf(p, fp), now)
        BY <1>1, <3>1 DEF AfterClaim, Grant
      <4> QED
        BY <4>1 DEF FreshRecord, RequestOf
    <3>2. CASE ~Vacant(rec[k], now)
      <4>1. r = TakenOver(rec[k], RequestOf(p, fp), now) /\ rec[k] \in ClaimRecords
        BY <1>1, <3>2 DEF AfterClaim, Grant, TypeOK, Vacant
      <4>2. r.expires_at = rec[k].expires_at
        BY <4>1 DEF TakenOver, ClaimRecords
      <4> QED
        BY <3>2, <4>2 DEF ExpiryMeansTtl, Vacant
    <3> QED
      BY <3>1, <3>2
  <2>2. rec' = [rec EXCEPT ![k] = r]
    BY <1>1 DEF Grant
  <2> HIDE DEF r
  <2> QED
    BY <2>1, <2>2 DEF ExpiryMeansTtl, TypeOK
<1>2. ASSUME NEW p \in Callers, NEW r \in ClaimRecords \cup {Null}, SettlesWith(p, r)
      PROVE  ExpiryMeansTtl'
  BY <1>2 DEF SettlesWith, ExpiryMeansTtl, TypeOK, Grants
<1> QED
  BY <1>1, <1>2, CallerStepCases DEF Next, Crash, Tick, vars, ExpiryMeansTtl

\* The phases of a record: total, and "open" exactly where a claim is granted
\* to anyone.
LEMMA PhaseCases ==
    ASSUME NEW r \in ClaimRecords \cup {Null}, NEW t \in Nat
    PROVE  /\ RecordPhase(r, t) \in Contract!Phases
           /\ RecordPhase(r, t) = "open" <=> Vacant(r, t)
           /\ ~Vacant(r, t) =>
                 /\ r \in ClaimRecords
                 /\ RecordPhase(r, t) = "lapsed" <=> LeaseLapsed(r, t)
                 /\ RecordPhase(r, t) = "held" <=>
                       r.state = "IN_PROGRESS" /\ t < r.lease_until
                 /\ RecordPhase(r, t) = "parked" <=> r.state = "UNKNOWN"
                 /\ RecordPhase(r, t) = "succeeded" <=> r.state = "SUCCEEDED"
                 /\ RecordPhase(r, t) = "refused" <=> r.state = "FAILED_FINAL"
<1>1. CASE Vacant(r, t)
  BY <1>1 DEF RecordPhase, Contract!Phases
<1>2. CASE ~Vacant(r, t)
  <2>1. /\ r \in ClaimRecords /\ r.lease_until \in Nat
        /\ r.state \in {"IN_PROGRESS", "SUCCEEDED", "FAILED_FINAL", "UNKNOWN"}
    BY <1>2 DEF Vacant, ClaimRecords, ClaimStates
  <2>2. CASE r.state = "IN_PROGRESS"
    BY <1>2, <2>1, <2>2 DEF RecordPhase, LeaseLapsed, Contract!Phases
  <2>3. CASE r.state # "IN_PROGRESS"
    BY <1>2, <2>1, <2>3 DEF RecordPhase, LeaseLapsed, Contract!Phases
  <2> QED
    BY <2>2, <2>3
<1> QED
  BY <1>1, <1>2

\* A granted claim puts the record in the "held" phase.
LEMMA GrantedPhase ==
    ASSUME NEW r \in ClaimRecords \cup {Null}, NEW c \in ClaimRequests, NEW t \in Nat,
           ClaimStatus(r, c, t) = "CLAIMED"
    PROVE  RecordPhase(AfterClaim(r, c, t), t) = "held"
<1> DEFINE s == AfterClaim(r, c, t)
<1>1. s \in ClaimRecords /\ s # Null /\ s.state = "IN_PROGRESS" /\ t < s.lease_until
  BY ClaimedRecord DEF ClaimRequests
<1>2. ~Forgotten(s, t)
  <2>1. CASE Vacant(r, t)
    BY <2>1 DEF AfterClaim, FreshRecord, Forgotten, ClaimRequests
  <2>2. CASE ~Vacant(r, t)
    <3>1. s.expires_at = r.expires_at /\ r # Null /\ ~Forgotten(r, t)
      BY <2>2 DEF AfterClaim, TakenOver, Vacant, ClaimRecords
    <3> QED
      BY <3>1, <1>1 DEF Forgotten
  <2> QED
    BY <2>1, <2>2
<1>3. ~Vacant(s, t)
  BY <1>1, <1>2 DEF Vacant
<1>4. RecordPhase(s, t) = "held"
  <2> HIDE DEF s
  <2> QED
    BY <1>1, <1>3, PhaseCases
<1> QED
  BY <1>4

\* A granted claim is a grant or a recovery of the contract.
LEMMA GrantRefines ==
    ASSUME TypeOK, NEW p \in Callers, NEW k \in Keys, NEW fp \in Fingerprints \cup {Null},
           Grant(p, k, RequestOf(p, fp))
    PROVE  Contract!Next
<1> DEFINE c == RequestOf(p, fp)
           r == AfterClaim(rec[k], c, now)
<1>0. /\ c \in ClaimRequests /\ rec[k] \in ClaimRecords \cup {Null} /\ now \in Nat
      /\ ClaimStatus(rec[k], c, now) = "CLAIMED"
  BY RequestType DEF TypeOK, Grant
<1>1. RecordPhase(r, now) = "held"
  BY <1>0, GrantedPhase
<1>2. rec' = [rec EXCEPT ![k] = r] /\ now' = now /\ claimant' = [claimant EXCEPT ![k] = p]
  BY DEF Grant
<1>3. [j \in Keys |-> RecordPhase(rec[j], now)]'
        = [[j \in Keys |-> RecordPhase(rec[j], now)] EXCEPT ![k] = "held"]
  <2> HIDE DEF r
  <2> QED
    BY <1>1, <1>2 DEF TypeOK
<1>4. CASE Vacant(rec[k], now)
  <2>1. RecordPhase(rec[k], now) = "open"
    BY <1>4, <1>0, PhaseCases
  <2>2. Contract!Grant(p, k)
    BY <2>1, <1>2, <1>3 DEF Contract!Grant
  <2> QED
    BY <2>2 DEF Contract!Next
<1>5. CASE ~Vacant(rec[k], now)
  <2>1. Unresolved(rec[k], now) /\ c.recover
    BY <1>5, <1>0, GrantedOn
  <2>2. RecordPhase(rec[k], now) \in {"lapsed", "parked"}
    BY <1>5, <1>0, <2>1, PhaseCases DEF Unresolved
  <2>3. p \in Reconcilers
    BY <2>1 DEF RequestOf
  <2>4. Contract!Recover(p, k)
    BY <2>2, <2>3, <1>2, <1>3 DEF Contract!Recover
  <2> QED
    BY <2>4 DEF Contract!Next
<1> QED
  BY <1>4, <1>5

\* A settlement is one of the contract's, or is refused and changes nothing.
LEMMA SettlementRefines ==
    ASSUME OwnersDistinct, StoreInv, NEW p \in Callers,
           NEW r \in ClaimRecords \cup {Null}, SettlesWith(p, r)
    PROVE  Contract!Next \/ UNCHANGED Contract!cvars
<1> DEFINE k == work[p].key
           ph == [j \in Keys |-> RecordPhase(rec[j], now)]
<1>0. /\ k \in Keys /\ rec[k] \in ClaimRecords \cup {Null} /\ now \in Nat
      /\ rec' = [rec EXCEPT ![k] = r] /\ now' = now /\ claimant' = claimant
      /\ TypeOK
  BY DEF SettlesWith, StoreInv, TypeOK, Grants
<1>1. ph' = [ph EXCEPT ![k] = RecordPhase(r, now)]
  BY <1>0 DEF TypeOK
<1>2. CASE RecordPhase(r, now) = RecordPhase(rec[k], now)
  BY <1>0, <1>1, <1>2 DEF Contract!cvars
<1>3. CASE RecordPhase(r, now) # RecordPhase(rec[k], now)
  <2>1. /\ rec[k] # Null /\ rec[k].state = "IN_PROGRESS" /\ rec[k].owner = OwnerOf[p]
        /\ r.state # "IN_PROGRESS"
    BY <1>3 DEF SettlesWith
  <2>2. claimant[k] = p
    BY <2>1, <1>0 DEF StoreInv, ClaimantOwns, TypeOK, OwnersDistinct
  <2>3. RecordPhase(r, now) \in {"open", "parked", "succeeded", "refused"}
    BY <2>1, <1>0, PhaseCases DEF LeaseLapsed, Contract!Phases
  <2>4. RecordPhase(rec[k], now) \in {"held", "lapsed"} \/ Vacant(rec[k], now)
    BY <2>1, <1>0, PhaseCases DEF LeaseLapsed, ClaimRecords
  <2>5. CASE ~Vacant(rec[k], now)
    <3>1. Contract!Settle(p, k)
      BY <2>2, <2>3, <2>4, <2>5, <1>0, <1>1, PhaseCases DEF Contract!Settle
    <3> QED
      BY <3>1, <1>0 DEF Contract!Next
  <2>6. CASE Vacant(rec[k], now)
    \* an expired record stays expired when it is settled
    <3>1. Forgotten(rec[k], now)
      BY <2>1, <2>6 DEF Vacant
    <3>2. r # Null /\ r.expires_at = rec[k].expires_at
      BY <1>3 DEF SettlesWith
    <3>3. Vacant(r, now)
      BY <3>1, <3>2 DEF Vacant, Forgotten
    <3> QED
      BY <3>3, <2>6, <1>3, <1>0, PhaseCases
  <2> QED
    BY <2>5, <2>6
<1> QED
  BY <1>2, <1>3

\* The passing of time lapses contract grants, or forgets keys, or is no step.
LEMMA TickRefines ==
    ASSUME TypeOK, ExpiryMeansTtl, Tick
    PROVE  Contract!Next
<1> DEFINE ph == [j \in Keys |-> RecordPhase(rec[j], now)]
<1>0. now' = now + 1 /\ now \in Nat /\ rec' = rec /\ claimant' = claimant
  BY DEF Tick, TypeOK
<1>1. ph' = [j \in Keys |-> RecordPhase(rec[j], now + 1)]
  BY <1>0
<1>2. ASSUME NEW k \in Keys
      PROVE  /\ RecordPhase(rec[k], now + 1) \in Contract!Phases
             /\ \/ RecordPhase(rec[k], now + 1) = RecordPhase(rec[k], now)
                \/ /\ RecordPhase(rec[k], now) = "held"
                   /\ RecordPhase(rec[k], now + 1) = "lapsed"
                \/ Ttl # 0 /\ RecordPhase(rec[k], now + 1) = "open"
  <2>0. rec[k] \in ClaimRecords \cup {Null} /\ now \in Nat /\ now + 1 \in Nat
    BY <1>0 DEF TypeOK
  <2>1. RecordPhase(rec[k], now + 1) \in Contract!Phases
    BY <2>0, PhaseCases
  <2>2. CASE Vacant(rec[k], now)
    <3>1. Vacant(rec[k], now + 1)
      BY <2>0, <2>2 DEF Vacant, Forgotten, ClaimRecords
    <3> QED
      BY <2>0, <2>1, <2>2, <3>1, PhaseCases
  <2>3. CASE ~Vacant(rec[k], now) /\ Vacant(rec[k], now + 1)
    <3>1. Ttl # 0
      BY <2>3 DEF Vacant, Forgotten, ExpiryMeansTtl
    <3> QED
      BY <2>0, <2>1, <2>3, <3>1, PhaseCases
  <2>4. CASE ~Vacant(rec[k], now) /\ ~Vacant(rec[k], now + 1)
    <3>1. rec[k].lease_until \in Nat
      BY <2>0, <2>4 DEF Vacant, ClaimRecords
    <3>2. CASE rec[k].state = "IN_PROGRESS"
      <4>1. RecordPhase(rec[k], now) \in {"held", "lapsed"}
        BY <2>0, <2>4, <3>1, <3>2, PhaseCases DEF LeaseLapsed
      <4>2. RecordPhase(rec[k], now + 1) \in {"held", "lapsed"}
        BY <2>0, <2>4, <3>1, <3>2, PhaseCases DEF LeaseLapsed
      <4>3. RecordPhase(rec[k], now) = "lapsed" => RecordPhase(rec[k], now + 1) = "lapsed"
        BY <2>0, <2>4, <3>1, PhaseCases DEF LeaseLapsed
      <4> QED
        BY <2>1, <4>1, <4>2, <4>3
    <3>3. CASE rec[k].state # "IN_PROGRESS"
      <4>1. rec[k].state \in {"SUCCEEDED", "FAILED_FINAL", "UNKNOWN"}
        BY <2>0, <2>4, <3>3 DEF Vacant, ClaimRecords, ClaimStates
      <4>2. RecordPhase(rec[k], now + 1) = RecordPhase(rec[k], now)
        BY <2>0, <2>4, <4>1, PhaseCases
      <4> QED
        BY <2>1, <4>2
    <3> QED
      BY <3>2, <3>3
  <2> QED
    BY <2>2, <2>3, <2>4
<1>3. Contract!Elapse
  BY <1>0, <1>1, <1>2 DEF Contract!Elapse
<1> QED
  BY <1>3 DEF Contract!Next

\* Every behaviour of the store is a behaviour of the claim contract.
THEOREM StoreImplementsContract ==
    ASSUME OwnersDistinct
    PROVE  Spec => ImplementsContract
<1>1. Init => Contract!Init
  BY DEF Init, Contract!Init, RecordPhase, Vacant
<1>2. ASSUME StoreInv, ExpiryMeansTtl, [Next]_vars
      PROVE  Contract!Next \/ UNCHANGED Contract!cvars
  <2>1. CASE Tick
    BY <1>2, <2>1, TickRefines DEF StoreInv
  <2>2. ASSUME NEW p \in Callers, CallerStep(p)
        PROVE  Contract!Next \/ UNCHANGED Contract!cvars
    <3>1. ASSUME NEW k \in Keys, NEW fp \in Fingerprints \cup {Null},
                 Grant(p, k, RequestOf(p, fp))
          PROVE  Contract!Next
      BY <1>2, <3>1, GrantRefines DEF StoreInv
    <3>2. ASSUME NEW r \in ClaimRecords \cup {Null}, SettlesWith(p, r)
          PROVE  Contract!Next \/ UNCHANGED Contract!cvars
      BY <1>2, <3>2, SettlementRefines
    <3>3. ASSUME UNCHANGED <<rec, now, claimant>>
          PROVE  UNCHANGED Contract!cvars
      BY <3>3 DEF Contract!cvars
    <3> QED
      BY <1>2, <2>2, <3>1, <3>2, <3>3, CallerStepCases DEF StoreInv, Crash, vars
  <2>3. CASE UNCHANGED vars
    BY <2>3 DEF vars, Contract!cvars
  <2> QED
    BY <1>2, <2>1, <2>2, <2>3 DEF Next
<1>3. Init => ExpiryMeansTtl
  BY DEF Init, ExpiryMeansTtl
<1>4. StoreInv /\ ExpiryMeansTtl /\ [Next]_vars => ExpiryMeansTtl'
  BY ExpiryMeansTtlStep DEF StoreInv
<1>5. StoreInv /\ ExpiryMeansTtl /\ [Next]_vars => [Contract!Next]_(Contract!cvars)
  BY <1>2
<1> QED
  BY <1>1, <1>3, <1>4, <1>5, StoreInvariant, PTL DEF Spec, ImplementsContract, Contract!Spec

\* Until its record expires, what is unresolved goes to reconcilers alone.
THEOREM UnresolvedGoesToReconcilers == Spec => RecoveryIsReconcilers
<1> DEFINE A == \A k \in Keys :
                   /\ rec[k] # Null /\ Unresolved(rec[k], now) /\ ~Forgotten(rec[k], now)
                   /\ claimant'[k] # claimant[k]
                   => claimant'[k] \in Reconcilers
<1>1. ASSUME TypeOK, [Next]_vars PROVE A
  <2> SUFFICES ASSUME NEW k \in Keys, rec[k] # Null, Unresolved(rec[k], now),
                      ~Forgotten(rec[k], now), claimant'[k] # claimant[k]
               PROVE  claimant'[k] \in Reconcilers
    OBVIOUS
  <2>1. ~Vacant(rec[k], now)
    BY <1>1 DEF Vacant, Unresolved, LeaseLapsed
  <2>2. ASSUME NEW p \in Callers, NEW j \in Keys, NEW fp \in Fingerprints \cup {Null},
               Grant(p, j, RequestOf(p, fp))
        PROVE  claimant'[k] \in Reconcilers
    <3>1. j = k /\ claimant'[k] = p
      BY <1>1, <2>2 DEF Grant, TypeOK
    <3>2. RequestOf(p, fp).recover
      BY <1>1, <2>1, <2>2, <3>1, RequestType, GrantedOn DEF Grant, TypeOK
    <3> QED
      BY <3>1, <3>2 DEF RequestOf
  <2>3. ASSUME NEW p \in Callers, NEW r, SettlesWith(p, r)
        PROVE  FALSE
    BY <2>3 DEF SettlesWith
  <2> QED
    BY <1>1, <2>2, <2>3, CallerStepCases DEF Next, Crash, Tick, vars
<1>2. TypeOK /\ [Next]_vars => [A]_vars
  BY <1>1
<1>3. RecoveryIsReconcilers <=> [][A]_vars
  BY DEF RecoveryIsReconcilers
<1> HIDE DEF A
<1> QED
  BY <1>2, <1>3, TypeCorrect, PTL DEF Spec
=============================================================================
