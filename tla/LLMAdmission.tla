---------------------------- MODULE LLMAdmission ----------------------------
(***************************************************************************)
(* Admission to the LLM inference service: the context a request's tokens  *)
(* are estimated from, the tenant cap, the pod semaphore, the request and  *)
(* token quota and graceful drain, as unary and streaming requests pass    *)
(* through them on one event loop.  A request runs alone between two       *)
(* awaits; at each await it may time out, fail or be cancelled, and must   *)
(* give back exactly what it holds.                                        *)
(***************************************************************************)
EXTENDS ContextBudget, FiniteSets

CONSTANTS
    Requests,
    Streams,       \* the requests of process_inference_stream()
    Tenants,
    TenantOf,
    Null,
    Caps,          \* values of tenant_concurrency requests may carry, 0 for none
    Pod,           \* pod_concurrency
    MaxRpm,        \* the pod's share of max_rpm, and what of it refills in a tick
    RpmRate,
    MaxTpm,        \* likewise, of max_tpm
    TpmRate,
    Conversations, \* the messages a request may carry
    Budget,        \* context_budget less the reasoning_budget
    MaxOut,        \* max_output_tokens
    Usages,        \* tokens a call may report
    Evict,         \* tenant_idle_evict_seconds
    MaxTime        \* bound on the clock

ASSUME AdmissionAssumption ==
    /\ IsFiniteSet(Requests) /\ Streams \subseteq Requests
    /\ TenantOf \in [Requests -> Tenants]
    /\ Caps \subseteq Nat /\ Pod \in Nat \ {0}
    /\ MaxRpm \in Nat \ {0} /\ RpmRate \in Nat
    /\ MaxTpm \in Nat \ {0} /\ TpmRate \in Nat
    /\ Conversations \subseteq Seq([class : Classes, tokens : Nat \ {0}]) \ {<<>>}
    /\ Budget \in Nat /\ MaxOut \in Nat /\ Usages \subseteq Nat
    /\ Evict \in Nat /\ MaxTime \in Nat

VARIABLES
    permits,       \* per tenant, its _TenantPermit entry
    pod,           \* free permits of the pod semaphore
    inflight,      \* _inflight
    bucket,        \* the RPM/TPM token bucket
    shared,        \* fleet-wide quota held, in requests
    draining,      \* _draining, and what drain() returned
    drained,
    now,           \* monotonic clock
    pc,            \* where each request is
    req,           \* each request's local state
    history        \* what calls used, what of it no quota was charged for, the
                   \* requests admitted, and fleet quota a hook failed to hand over

vars == <<permits, pod, inflight, bucket, shared, draining, drained, now, pc, req, history>>

\* gen tells an entry from the one it replaced: a request returns its permit to
\* the entry it took it from
Entries == [gen : Nat, cap : Nat, free : Nat, active : Nat, last : Nat]

\* No entry, no identity and no answer of drain() is taken for none
ASSUME NullAssumption == Null \notin Entries \cup Nat \cup BOOLEAN

Buckets == [rpm : Nat, tpm : Nat, updated : Nat]

Histories == [rpm : Nat, used : Nat, unpaid : Nat, admitted : Nat, lost : Nat]

\* gen is the request's tenant entry, Null for none; rpm and tpm what
\* __admit_quota() returned to it
LocalStates ==
    [cap : Caps \cup {0}, gen : Nat \cup {Null}, held : BOOLEAN,
     need : 0..MaxTpm, rpm : 0..1, tpm : 0..MaxTpm]

Places ==
    {"new", "start", "tenant", "pod", "shared", "quota", "giveback", "upstream", "store", "done"}

TypeOK ==
    /\ permits \in [Tenants -> Entries \cup {Null}]
    /\ pod \in 0..Pod
    /\ inflight \in Nat
    /\ bucket \in Buckets /\ bucket.rpm <= MaxRpm /\ bucket.tpm <= MaxTpm
    /\ shared \in Nat
    /\ draining \in BOOLEAN /\ drained \in BOOLEAN \cup {Null}
    /\ now \in Nat
    /\ pc \in [Requests -> Places]
    /\ req \in [Requests -> LocalStates]
    /\ history \in Histories

NoState == [cap |-> 0, gen |-> Null, held |-> FALSE, need |-> 0, rpm |-> 0, tpm |-> 0]

Init ==
    /\ permits = [t \in Tenants |-> Null]
    /\ pod = Pod
    /\ inflight = 0
    /\ bucket = [rpm |-> MaxRpm, tpm |-> MaxTpm, updated |-> 0]
    /\ shared = 0
    /\ draining = FALSE /\ drained = Null
    /\ now = 0
    /\ pc = [r \in Requests |-> "new"]
    /\ req = [r \in Requests |-> NoState]
    /\ history = [rpm |-> 0, used |-> 0, unpaid |-> 0, admitted |-> 0, lost |-> 0]

Goto(r, place) == pc' = [pc EXCEPT ![r] = place]

AtMost(n, bound) == IF n < bound THEN n ELSE bound

-----------------------------------------------------------------------------
(* The start of process_inference() and process_inference_stream() *)

\* Only here is _draining looked at; a unary request then awaits the semantic
\* cache
Start(r) ==
    /\ pc[r] = "new"
    /\ Goto(r, IF draining THEN "done" ELSE "start")
    /\ UNCHANGED <<permits, pod, inflight, bucket, shared, draining, drained, now, req, history>>

\* The semantic cache has the answer, and only a unary request asks it
CacheAnswers(r) ==
    /\ pc[r] = "start" /\ r \notin Streams
    /\ Goto(r, "done")
    /\ UNCHANGED <<permits, pod, inflight, bucket, shared, draining, drained, now, req, history>>

\* The tokens asked of the quota, per conversation that fits the budget
EstimateOf(msgs) == Tokens(msgs, Kept(msgs, Budget)) + MaxOut

Fitting == {msgs \in Conversations : ~Overflows(msgs, Budget)}

Estimates == {EstimateOf(msgs) : msgs \in Fitting}

\* The prompt or a tool's declaration is refused, the context overflows, or the
\* request is cancelled
Refused(r) ==
    /\ pc[r] = "start"
    /\ Goto(r, "done")
    /\ UNCHANGED <<permits, pod, inflight, bucket, shared, draining, drained, now, req, history>>

-----------------------------------------------------------------------------
(* __concurrency_permit() *)

\* variant: entries of busy tenants are dropped too
IdleByTime(e) == now - e.last > Evict

Idle(e) == e.active = 0 /\ now - e.last > Evict

\* Idle entries are dropped, everybody's
Swept == [t \in Tenants |-> IF permits[t] # Null /\ Idle(permits[t]) THEN Null ELSE permits[t]]

\* An identity that no request of the tenant holds
FreshGen(t) ==
    CHOOSE g \in 0..Cardinality(Requests) :
        \A r \in Requests : TenantOf[r] = t => req[r].gen # g

NewEntry(t, cap) ==
    [gen |-> FreshGen(t), cap |-> cap, free |-> cap, active |-> 0, last |-> now]

\* __tenant_entry(): a changed cap is picked up once the tenant is idle
EntryFor(t, cap) ==
    LET e == Swept[t]
    IN  IF e = Null \/ (e.cap # cap /\ e.active = 0) THEN NewEntry(t, cap) ELSE e

\* What follows once the tenant permit is held, or none is needed
TakePod(r) ==
    IF pod > 0
    THEN pod' = pod - 1 /\ inflight' = inflight + 1 /\ Goto(r, "shared")
    ELSE Goto(r, "pod") /\ UNCHANGED <<pod, inflight>>

EnterUncapped(r, estimate) ==
    /\ pc[r] = "start" /\ 0 \in Caps
    /\ req' = [req EXCEPT ![r].need = AtMost(estimate, MaxTpm)]
    /\ TakePod(r)
    /\ UNCHANGED <<permits, bucket, shared, draining, drained, now, history>>

EnterCapped(r, cap, estimate) ==
    /\ pc[r] = "start" /\ cap # 0
    /\ LET t == TenantOf[r]
           e == EntryFor(t, cap)
           taken == e.free > 0
       IN  /\ permits' = [Swept EXCEPT ![t] =
                             [e EXCEPT !.active = e.active + 1,
                                       !.free = IF taken THEN e.free - 1 ELSE e.free]]
           /\ req' = [req EXCEPT ![r] = [@ EXCEPT !.cap = e.cap, !.gen = e.gen, !.held = taken,
                                                  !.need = AtMost(estimate, MaxTpm)]]
           /\ IF taken THEN TakePod(r)
              ELSE Goto(r, "tenant") /\ UNCHANGED <<pod, inflight>>
    /\ UNCHANGED <<bucket, shared, draining, drained, now, history>>

\* The entry a waiter waits at is never replaced: it is active
GetTenantPermit(r) ==
    /\ pc[r] = "tenant"
    /\ permits[TenantOf[r]].gen = req[r].gen /\ permits[TenantOf[r]].free > 0
    /\ permits' = [permits EXCEPT ![TenantOf[r]].free = @ - 1]
    /\ req' = [req EXCEPT ![r].held = TRUE]
    /\ TakePod(r)
    /\ UNCHANGED <<bucket, shared, draining, drained, now, history>>

GetPodPermit(r) ==
    /\ pc[r] = "pod" /\ pod > 0
    /\ TakePod(r)
    /\ UNCHANGED <<permits, bucket, shared, draining, drained, now, req, history>>

\* The tenant entries once r has left __concurrency_permit()
PermitsWithout(r) ==
    LET t == TenantOf[r]
        e == permits[t]
    IN  IF req[r].gen = Null \/ e = Null \/ e.gen # req[r].gen THEN permits
        ELSE [permits EXCEPT ![t] =
                 [e EXCEPT !.free = IF req[r].held THEN e.free + 1 ELSE e.free,
                           !.active = e.active - 1, !.last = now]]

\* A wait for a permit times out or is cancelled
GiveUpWaiting(r) ==
    /\ pc[r] \in {"tenant", "pod"}
    /\ permits' = PermitsWithout(r)
    /\ req' = [req EXCEPT ![r] = NoState]
    /\ Goto(r, "done")
    /\ UNCHANGED <<pod, inflight, bucket, shared, draining, drained, now, history>>

\* variant: a failed quota admission keeps the pod permit
PodAfterQuota(r) == IF pc[r] = "quota" THEN pod ELSE pod + 1

PodAfter(r) == pod + 1

\* Leave the permit's context with the quota a call is left with
LeaveTo(r, place, rpm, tpm) ==
    /\ permits' = PermitsWithout(r)
    /\ pod' = PodAfter(r)
    /\ inflight' = inflight - 1
    /\ req' = [req EXCEPT ![r] = NoState]
    /\ bucket' = [bucket EXCEPT !.rpm = AtMost(@ + rpm, MaxRpm), !.tpm = AtMost(@ + tpm, MaxTpm)]
    /\ Goto(r, place)

-----------------------------------------------------------------------------
(* __admit_quota() *)

SharedGranted(r) ==
    /\ pc[r] = "shared"
    /\ shared' = shared + 1
    /\ Goto(r, "quota")
    /\ UNCHANGED <<permits, pod, inflight, bucket, draining, drained, now, req, history>>

\* The hook denies the quota, or raises or is cancelled before it has any
SharedDenied(r) ==
    /\ pc[r] = "shared"
    /\ LeaveTo(r, "done", 0, 0)
    /\ UNCHANGED <<shared, draining, drained, now, history>>

\* The hook raises or is cancelled with the fleet's quota taken: nobody gives it
\* back
SharedTakenInVain(r) ==
    /\ pc[r] = "shared"
    /\ shared' = shared + 1
    /\ history' = [history EXCEPT !.lost = @ + 1]
    /\ LeaveTo(r, "done", 0, 0)
    /\ UNCHANGED <<draining, drained, now>>

Refilled ==
    [rpm |-> AtMost(bucket.rpm + (now - bucket.updated) * RpmRate, MaxRpm),
     tpm |-> AtMost(bucket.tpm + (now - bucket.updated) * TpmRate, MaxTpm),
     updated |-> now]

Affordable(r) == Refilled.rpm >= 1 /\ Refilled.tpm >= req[r].need

\* The call is then sent, within the same stretch
Admit(r) ==
    /\ pc[r] = "quota" /\ Affordable(r)
    /\ bucket' = [Refilled EXCEPT !.rpm = @ - 1, !.tpm = @ - req[r].need]
    /\ req' = [req EXCEPT ![r] = [@ EXCEPT !.rpm = 1, !.tpm = req[r].need]]
    /\ history' = [history EXCEPT !.admitted = @ + 1]
    /\ Goto(r, "upstream")
    /\ UNCHANGED <<permits, pod, inflight, shared, draining, drained, now>>

\* Refill, and sleep
SleepForQuota(r) ==
    /\ pc[r] = "quota" /\ ~Affordable(r)
    /\ bucket.updated # now
    /\ bucket' = Refilled
    /\ UNCHANGED <<permits, pod, inflight, shared, draining, drained, now, pc, req, history>>

\* The sleep times out or is cancelled; the fleet's quota is given back with the
\* permit still held
GiveUpQuota(r) ==
    /\ pc[r] = "quota"
    /\ Goto(r, "giveback")
    /\ UNCHANGED <<permits, pod, inflight, bucket, shared, draining, drained, now, req, history>>

GiveBack(r) ==
    /\ pc[r] = "giveback"
    /\ shared' = shared - 1
    /\ LeaveTo(r, "done", 0, 0)
    /\ UNCHANGED <<draining, drained, now, history>>

\* That hook raises, or the request is cancelled once more
GiveBackFails(r) ==
    /\ pc[r] = "giveback"
    /\ history' = [history EXCEPT !.lost = @ + 1]
    /\ LeaveTo(r, "done", 0, 0)
    /\ UNCHANGED <<shared, draining, drained, now>>

-----------------------------------------------------------------------------
(* The upstream call and __settle_quota() *)

\* variant: the whole estimate is refunded
TokenRefundWhole(r, used) == req[r].tpm

TokenRefund(r, used) == IF req[r].tpm > used THEN req[r].tpm - used ELSE 0

RequestRefund(r, dispatched) == IF dispatched THEN 0 ELSE req[r].rpm

\* A call used so many tokens, of which it leaves some uncharged
Used(used, unpaid) ==
    history' = [history EXCEPT !.rpm = @ + 1, !.used = @ + used, !.unpaid = @ + unpaid]

\* An answer, or a stream read to its end, reports what it used, which may exceed
\* the estimate; a unary request then awaits the write to the semantic cache
Answered(r, used) ==
    /\ pc[r] = "upstream"
    /\ Used(used, used - AtMost(used, req[r].tpm))
    /\ LeaveTo(r, IF r \in Streams THEN "done" ELSE "store",
               RequestRefund(r, TRUE), TokenRefund(r, used))
    /\ UNCHANGED <<shared, draining, drained, now>>

\* The call fails, times out or is cancelled, or its answer is not valid; a stream
\* may also break off or be closed.  Whatever it used by then is refunded.
Failed(r, used) ==
    /\ pc[r] = "upstream"
    /\ Used(used, used)
    /\ LeaveTo(r, "done", RequestRefund(r, TRUE), TokenRefund(r, 0))
    /\ UNCHANGED <<shared, draining, drained, now>>

\* The circuit is open or the deadline reached: a unary call is never sent
NotDispatched(r) ==
    /\ pc[r] = "upstream" /\ r \notin Streams
    /\ LeaveTo(r, "done", RequestRefund(r, FALSE), TokenRefund(r, 0))
    /\ UNCHANGED <<shared, draining, drained, now, history>>

\* The cache is written, or fails to be, or the request is cancelled
StoreEnds(r) ==
    /\ pc[r] = "store"
    /\ Goto(r, "done")
    /\ UNCHANGED <<permits, pod, inflight, bucket, shared, draining, drained, now, req, history>>

-----------------------------------------------------------------------------
(* drain() and time *)

Drain ==
    /\ ~draining
    /\ draining' = TRUE
    /\ UNCHANGED <<permits, pod, inflight, bucket, shared, drained, now, pc, req, history>>

\* Nothing is in flight any more, or drain_timeout_seconds are over
DrainReturns ==
    /\ draining /\ drained = Null
    /\ drained' = (inflight = 0)
    /\ UNCHANGED <<permits, pod, inflight, bucket, shared, draining, now, pc, req, history>>

Tick ==
    /\ now < MaxTime
    /\ now' = now + 1
    /\ UNCHANGED <<permits, pod, inflight, bucket, shared, draining, drained, pc, req, history>>

Step(r) ==
    \/ Start(r) \/ CacheAnswers(r) \/ Refused(r)
    \/ \E estimate \in Estimates :
          \/ EnterUncapped(r, estimate)
          \/ \E cap \in Caps : EnterCapped(r, cap, estimate)
    \/ GetTenantPermit(r) \/ GetPodPermit(r) \/ GiveUpWaiting(r)
    \/ SharedGranted(r) \/ SharedDenied(r) \/ SharedTakenInVain(r)
    \/ Admit(r) \/ SleepForQuota(r) \/ GiveUpQuota(r) \/ GiveBack(r) \/ GiveBackFails(r)
    \/ \E used \in Usages : Answered(r, used)
    \/ \E used \in Usages \cup {0} : Failed(r, used)
    \/ NotDispatched(r) \/ StoreEnds(r)

\* Every request has been answered
Finished ==
    /\ \A r \in Requests : pc[r] = "done"
    /\ UNCHANGED vars

Next ==
    \/ \E r \in Requests : Step(r)
    \/ Drain \/ DrainReturns \/ Tick
    \/ Finished

Spec == Init /\ [][Next]_vars

-----------------------------------------------------------------------------
(* Properties *)

Inflight == {r \in Requests : pc[r] \in {"shared", "quota", "giveback", "upstream"}}

\* The pod's permits are neither leaked nor returned twice, on any of the ways
\* out of a request, and inflight counts their holders.
PodPermitsConserved ==
    /\ pod + Cardinality(Inflight) = Pod
    /\ inflight = Cardinality(Inflight)

TenantHolders(t) == {r \in Requests : TenantOf[r] = t /\ req[r].held}

\* A tenant never runs more requests than the cap its entry was made with,
\* although idle entries are evicted and replaced under it, and its permits
\* are conserved.
TenantCapHolds ==
    \A t \in Tenants :
        /\ \A r \in TenantHolders(t) : Cardinality(TenantHolders(t)) <= req[r].cap
        /\ permits[t] # Null =>
              permits[t].free + Cardinality(TenantHolders(t)) = permits[t].cap

Admitted == {r \in Requests : pc[r] = "upstream"}

TpmHeld == SumFunctionOnSet([r \in Requests |-> req[r].tpm], Admitted)

FleetHolders == {r \in Requests : pc[r] \in {"quota", "giveback"}}

\* Quota is never made out of nothing: what is left, held by calls and used up
\* stays within the bucket and its refills, except for tokens that are uncharged
\* as the code says they are (those of calls that fail, and what an answer used
\* above its estimate).  So no call is refunded twice, nor what its answer used.
\* The fleet's quota is held by exactly the requests in local admission or
\* admitted, except for what a failing hook keeps.
QuotaConserved ==
    /\ bucket.tpm + TpmHeld + history.used <= MaxTpm + now * TpmRate + history.unpaid
    /\ bucket.rpm + Cardinality(Admitted) + history.rpm <= MaxRpm + now * RpmRate
    /\ shared = Cardinality(FleetHolders) + history.admitted + history.lost

\* The quota a request asks for is that of the whole recent context, and nothing
\* pinned or active is left out of it.
ContextKept ==
    \A msgs \in Fitting : KeepsTheRecent(msgs, Budget, Kept(msgs, Budget))

\* The state is well typed (buckets within their caps), no pod permit is lost
\* and what requests carry is the context they promise.
AdmissionInv == TypeOK /\ PodPermitsConserved /\ ContextKept
=============================================================================
