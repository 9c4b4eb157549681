--------------------------- MODULE Reconciliation ---------------------------
(***************************************************************************)
(* Workflow with the reconciliation service: scheduled workers that take   *)
(* the worker lease, take over the request's record, ask the system of     *)
(* record what became of its effect and replay it if it did not happen.    *)
(* Deliveries, reconcilers and the system of record share the record, the  *)
(* clock and the effects; reconcilers also share the lease and the fence   *)
(* the system of record keeps.                                             *)
(***************************************************************************)
EXTENDS Workflow

CONSTANTS
    Workers,        \* reconciliation workers
    WorkerOwner,    \* the correlation id each reconciles under
    LeaseTtl,       \* lease_ttl_seconds
    RenewEvery,     \* lease_renew_interval_seconds
    RenewTtl,       \* the extension renew() grants
    ConfirmFences,  \* whether the confirmation query registers the fencing token
    Punctual,       \* whether reconcilers settle an entry before their claim's lease lapses
    ReplayFaults,   \* "raises", "unreported", "unconfirmed": what may go wrong in a reconciler
    MaxToken        \* bound on the lease's fencing counter

L == INSTANCE LeaseLock

ASSUME ReconciliationAssumption ==
    /\ WorkerOwner \in [Workers -> Owners]
    /\ LeaseTtl \in Nat \ {0} /\ RenewEvery \in Nat /\ RenewTtl \in Nat \ {0}
    /\ ConfirmFences \in BOOLEAN /\ Punctual \in BOOLEAN /\ MaxToken \in Nat
    /\ ReplayFaults \subseteq {"raises", "unreported", "unconfirmed"}

VARIABLES
    lock,          \* the lease 'reconciliation_service'
    counter,       \* its fencing counter
    fence,         \* the highest fencing token the system of record has seen
    rpc,           \* where each worker is in reconcile()
    handle,        \* each worker's fencing token and time of last renewal
    replays,       \* fencing tokens whose replay took effect
    queued         \* whether the request's key is among the dead letters

rvars == <<lock, counter, fence, rpc, handle, replays>>
allvars == <<rec, now, pc, att, reply, inflight, committed,
             lock, counter, fence, rpc, handle, replays, queued>>

RPlaces == {"idle", "entry", "claim", "confirm", "complete", "park", "replay",
            "fail", "release"}

RTypeOK ==
    /\ TypeOK
    /\ lock \in L!Leases \cup {Null}
    /\ counter \in Nat /\ fence \in Nat
    /\ rpc \in [Workers -> RPlaces]
    /\ handle \in [Workers -> [token : Nat, renewed : Nat]]
    /\ replays \subseteq Nat
    /\ queued \in BOOLEAN

RInit ==
    /\ Init
    /\ lock = Null
    /\ counter = 0
    /\ fence = 0
    /\ rpc = [w \in Workers |-> "idle"]
    /\ handle = [w \in Workers |-> [token |-> 0, renewed |-> 0]]
    /\ replays = {}
    /\ queued = FALSE

RGoto(w, place) == rpc' = [rpc EXCEPT ![w] = place]

-----------------------------------------------------------------------------
(* reconcile() *)

\* _send_to_dlq(): a delivery with failed_keys queues its key right after it has
\* settled, unless it dies in between.  A timeout, an interrupt or a death leaves
\* no failed_keys and queues nothing.
Fails(d) == pc[d] = "settle" /\ pc'[d] = "done" /\ att[d].failed

Queues ==
    \/ queued' = (queued \/ \E d \in Deliveries : Fails(d))
    \/ "crash" \in Faults /\ queued' = queued

\* An entry is the queued key of a request not settled yet, nor still worked on
DeadLetter == queued /\ (Vacant(rec, now) \/ Unresolved(rec, now))

Acquire(w) ==
    /\ rpc[w] = "idle"
    /\ DeadLetter
    /\ L!Acquirable(lock, now) /\ counter < MaxToken
    /\ lock' = L!Acquired(counter, LeaseTtl, now)
    /\ counter' = counter + 1
    /\ handle' = [handle EXCEPT ![w] = [token |-> counter + 1, renewed |-> now]]
    /\ RGoto(w, "entry")
    /\ UNCHANGED <<vars, fence, replays>>

RenewDue(w) == now - handle[w].renewed >= RenewEvery

KeepLease(w) ==
    /\ rpc[w] = "entry"
    /\ IF RenewDue(w)
       THEN /\ L!Renewable(lock, handle[w].token, now)
            /\ lock' = L!Renewed(lock, RenewTtl, now)
            /\ handle' = [handle EXCEPT ![w].renewed = now]
       ELSE UNCHANGED <<lock, handle>>
    /\ RGoto(w, "claim")
    /\ UNCHANGED <<vars, counter, fence, replays>>

\* LEASE_LOST: the worker stops and does not release
LoseLease(w) ==
    /\ rpc[w] = "entry"
    /\ RenewDue(w) /\ ~L!Renewable(lock, handle[w].token, now)
    /\ RGoto(w, "idle")
    /\ UNCHANGED <<vars, lock, counter, handle, fence, replays>>

\* The dead-letter entry may carry the request's fingerprint
Recovery(w, fp) ==
    [owner |-> WorkerOwner[w], fp |-> fp, lease |-> Lease, ttl |-> 0, recover |-> TRUE]

TakeOver(w) ==
    /\ rpc[w] = "claim"
    /\ \E fp \in Fingerprints \cup {Null} :
          LET c == Recovery(w, fp)
          IN  /\ rec' = AfterClaim(rec, c, now)
              /\ RGoto(w, IF ClaimStatus(rec, c, now) = "CLAIMED"
                          THEN "confirm" ELSE "release")
    /\ UNCHANGED <<now, pc, att, reply, inflight, committed,
                   lock, counter, fence, handle, replays>>

HasEffect == committed # {} \/ replays # {}

\* variant: the confirmation query leaves the fence alone
RegisteredNever(w) == fence

Registered(w) ==
    IF ConfirmFences /\ handle[w].token > fence THEN handle[w].token ELSE fence

\* variant: an unanswered confirmation is taken for "not committed"
NextAfterConfirmGuess(outcome) ==
    IF outcome = "COMMITTED" THEN "complete" ELSE "replay"

NextAfterConfirm(outcome) ==
    IF outcome = "COMMITTED" THEN "complete"
    ELSE IF outcome = "UNKNOWN" THEN "park" ELSE "replay"

\* The system of record answers the confirmation query, or does not
Confirm(w) ==
    /\ rpc[w] = "confirm"
    /\ fence' = Registered(w)
    /\ RGoto(w, NextAfterConfirm(IF HasEffect THEN "COMMITTED" ELSE "NOT_COMMITTED"))
    /\ UNCHANGED <<vars, lock, counter, handle, replays>>

ConfirmUnknown(w) ==
    /\ rpc[w] = "confirm" /\ "unconfirmed" \in ReplayFaults
    /\ RGoto(w, NextAfterConfirm("UNKNOWN"))
    /\ UNCHANGED <<vars, lock, counter, fence, handle, replays>>

\* The replay carries the fencing token: the system of record refuses it if it
\* has seen a later one
Replay(w) ==
    /\ rpc[w] = "replay"
    /\ handle[w].token >= fence
    /\ fence' = handle[w].token
    /\ replays' = replays \cup {handle[w].token}
    /\ RGoto(w, "complete")
    /\ UNCHANGED <<vars, lock, counter, handle>>

ReplayRefused(w) ==
    /\ rpc[w] = "replay"
    /\ handle[w].token < fence
    /\ RGoto(w, "fail")
    /\ UNCHANGED <<vars, lock, counter, fence, handle, replays>>

\* The replay took effect and its answer was lost: _replay_dlq_entry() is FALSE
ReplayUnreported(w) ==
    /\ rpc[w] = "replay" /\ "unreported" \in ReplayFaults
    /\ handle[w].token >= fence
    /\ fence' = handle[w].token
    /\ replays' = replays \cup {handle[w].token}
    /\ RGoto(w, "fail")
    /\ UNCHANGED <<vars, lock, counter, handle>>

\* A record left taken over lapses within the clock's bound
LapsesInTime == rec.state = "IN_PROGRESS" => rec.lease_until <= MaxTime

\* An exception of a hook leaves reconcile(): the record stays taken over
HookRaises(w) ==
    /\ rpc[w] \in {"confirm", "replay"} /\ "raises" \in ReplayFaults
    /\ LapsesInTime
    /\ RGoto(w, "release")
    /\ UNCHANGED <<vars, lock, counter, fence, handle, replays>>

\* variant: a refused replay counts as done
AfterSettlementHopeful(w) ==
    CASE rpc[w] \in {"complete", "fail"} -> AfterComplete(rec, WorkerOwner[w], "COMMITTED")
      [] rpc[w] = "park" -> AfterFail(rec, WorkerOwner[w], FALSE, TRUE)

AfterSettlement(w) ==
    CASE rpc[w] = "complete" -> AfterComplete(rec, WorkerOwner[w], "COMMITTED")
      [] rpc[w] = "park"     -> AfterFail(rec, WorkerOwner[w], FALSE, TRUE)
      [] rpc[w] = "fail"     -> AfterFail(rec, WorkerOwner[w], TRUE, FALSE)

SettleEntry(w) ==
    /\ rpc[w] \in {"complete", "park", "fail"}
    /\ rec' = AfterSettlement(w)
    /\ RGoto(w, "release")
    /\ UNCHANGED <<now, pc, att, reply, inflight, committed,
                   lock, counter, fence, handle, replays>>

Release(w) ==
    /\ rpc[w] = "release"
    /\ lock' = L!Released(lock, handle[w].token)
    /\ RGoto(w, "idle")
    /\ UNCHANGED <<vars, counter, fence, handle, replays>>

\* A worker's process dies; the next scheduled run takes its place.  What it
\* leaves behind lapses within the clock's bound.
Die(w) ==
    /\ rpc[w] # "idle" /\ "crash" \in Faults
    /\ lock # Null => lock.expires <= MaxTime
    /\ LapsesInTime
    /\ RGoto(w, "idle")
    /\ UNCHANGED <<vars, lock, counter, fence, handle, replays>>

WorkerStep(w) ==
    \/ Acquire(w) \/ KeepLease(w) \/ LoseLease(w) \/ TakeOver(w)
    \/ Confirm(w) \/ ConfirmUnknown(w)
    \/ Replay(w) \/ ReplayRefused(w) \/ ReplayUnreported(w) \/ HookRaises(w)
    \/ SettleEntry(w) \/ Release(w)

\* In an instance with punctual reconcilers the clock waits for them: the
\* claim's lease is sized above a confirmation and a replay
WorkersKeepUp ==
    \A w \in Workers :
        rpc[w] \in {"confirm", "complete", "park", "replay", "fail"}
            /\ OwnedBy(rec, WorkerOwner[w])
        => now + 1 < rec.lease_until

RNext ==
    \/ /\ Next /\ UNCHANGED rvars /\ Queues
       /\ Punctual /\ now' # now => WorkersKeepUp
    \/ (\E w \in Workers : WorkerStep(w) \/ Die(w)) /\ UNCHANGED queued

RSpec == RInit /\ [][RNext]_allvars

\* Every process that has a step to take gets to take it, the clock runs, and
\* the system of record handles the requests it was sent
RFairness ==
    /\ \A d \in Deliveries :
          /\ WF_allvars(Step(d) /\ UNCHANGED rvars /\ Queues)
          /\ WF_allvars((Apply(d) \/ Reject(d)) /\ UNCHANGED rvars /\ Queues)
    /\ \A w \in Workers : WF_allvars(WorkerStep(w) /\ UNCHANGED queued)
    /\ WF_allvars(Tick /\ (Punctual => WorkersKeepUp) /\ UNCHANGED rvars /\ Queues)

RFairSpec == RSpec /\ RFairness

-----------------------------------------------------------------------------
(* Properties *)

\* However long reconcilers stall and however their claims overlap, at most one
\* replay of the request takes effect: the confirmation of a later lease holder
\* fences off a replay that an earlier one still has under way.
OneReplay == \A t, u \in replays : t = u

\* A material request takes effect at most once, counting the reconcilers'
\* replays, as long as whoever holds a claim finishes before its lease lapses:
\* then confirmation before replay and the claim are enough.
OneEffect ==
    /\ AtMostOneEffect
    /\ OneReplay
    /\ committed = {} \/ replays = {}

\* A delivery that was interrupted under its claim
Struck(d) == att[d].interrupted /\ att[d].owned

\* What a completed request replays to its callers is the truth, whoever of
\* the deliveries and reconcilers settled it; but an interrupted delivery
\* completes its request without an outcome, whatever became of the call.
SettledTruthfully ==
    rec # Null /\ rec.state = "SUCCEEDED" =>
        /\ rec.result = "COMMITTED" => HasEffect
        /\ HasEffect => \/ rec.result = "COMMITTED"
                        \/ rec.result = "NONE" /\ \E d \in Deliveries : Struck(d)

\* No reconciler asks or replays for a request some delivery still works on.
Acting(w) == rpc[w] \in {"confirm", "replay"} /\ OwnedBy(rec, WorkerOwner[w])

RecoveryAlone ==
    \A w \in Workers : Acting(w) => \A d \in Deliveries : ~(Working(d) /\ att[d].owned)

Stuck == rec # Null /\ (rec.state = "UNKNOWN" \/ LeaseLapsed(rec, now))

\* A request among the dead letters whose outcome is unknown, or whose owner
\* died, is eventually settled: the reconcilers' crashes, stalls, lost leases and
\* failing hooks may delay it and never lose it.
StuckIsResolved ==
    queued /\ Stuck ~>
        rec # Null /\ rec.state \in {"SUCCEEDED", "FAILED_FINAL", "FAILED_RETRYABLE"}

\* The state is well typed, and recovery and delivery exclude each other.
ReconciliationInv == RTypeOK /\ RecoveryAlone
=============================================================================
