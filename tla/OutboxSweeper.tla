--------------------------- MODULE OutboxSweeper ---------------------------
(***************************************************************************)
(* Scheduled outbox sweepers: each acquires the sweeper lease, fetches the *)
(* pending records and publishes them one by one, renewing the lease       *)
(* between records, and carries the lease's fencing token downstream.      *)
(* Sweepers may stall at any point or die; the publishing hook and the     *)
(* outbox table are external: the hook writes the record downstream, then  *)
(* marks it published, and may fail before, between and after the two.     *)
(***************************************************************************)
EXTENDS LeaseLock

CONSTANTS
    Sweepers,
    Records,       \* rows of the outbox table, each with its downstream row
    LeaseTtl,      \* lease_ttl_seconds
    RenewEvery,    \* lease_renew_interval_seconds
    RenewTtl,      \* the extension renew() grants
    Prompt,        \* the sweepers that never stall: the others may, anywhere
    StayTime,      \* longest stay of a prompt sweeper in one place of sweep()
    FailingLeases, \* hooks may fail or raise under the first so many leases
    MaxTime,       \* bound on the clock
    MaxToken       \* bound on the fencing counter

ASSUME SweeperAssumption ==
    /\ LeaseTtl \in Nat \ {0} /\ RenewTtl \in Nat \ {0}
    /\ RenewEvery \in Nat /\ StayTime \in Nat
    /\ Prompt \subseteq Sweepers /\ FailingLeases \in Nat
    /\ MaxTime \in Nat /\ MaxToken \in Nat

VARIABLES
    lock,          \* the lease 'outbox_sweeper'
    counter,       \* its fencing counter
    now,           \* monotonic clock
    pending,       \* records the outbox table lists as not yet published
    fence,         \* per downstream row, the highest fencing token accepted
    done,          \* history: records a sweeper marked while its lease ran
    pc,            \* where each sweeper is in sweep()
    sweep          \* each sweeper's local state

vars == <<lock, counter, now, pending, fence, done, pc, sweep>>

\* batch: fetched and not yet handled; hand: written downstream and not yet marked;
\* since: when the sweeper came where it is
Sweeps ==
    [token : Nat, expires : Nat, renewed : Nat, since : Nat,
     batch : SUBSET Records, hand : SUBSET Records]

Places == {"idle", "fetch", "next", "publish", "mark", "release", "lost"}

TypeOK ==
    /\ lock \in Leases \cup {Null}
    /\ counter \in Nat
    /\ now \in Nat
    /\ pending \subseteq Records
    /\ fence \in [Records -> Nat]
    /\ done \subseteq Records
    /\ pc \in [Sweepers -> Places]
    /\ sweep \in [Sweepers -> Sweeps]

NoSweep ==
    [token |-> 0, expires |-> 0, renewed |-> 0, since |-> 0, batch |-> {}, hand |-> {}]

Init ==
    /\ lock = Null
    /\ counter = 0
    /\ now = 0
    /\ pending = Records
    /\ fence = [r \in Records |-> 0]
    /\ done = {}
    /\ pc = [w \in Sweepers |-> "idle"]
    /\ sweep = [w \in Sweepers |-> NoSweep]

\* Stays are timed only where they are bounded
Entry(w) == IF w \in Prompt THEN now ELSE 0

\* sweep() has returned or died: its local state is gone
Return(w, place) ==
    /\ pc' = [pc EXCEPT ![w] = place]
    /\ sweep' = [sweep EXCEPT ![w] = NoSweep]

\* The records left to handle, and the one in hand; the sweeper comes to its next place
Handling(w, batch, hand) ==
    [sweep EXCEPT ![w] = [@ EXCEPT !.batch = batch, !.hand = hand, !.since = Entry(w)]]

Goto(w, place) == pc' = [pc EXCEPT ![w] = place]

\* A sweep of an empty table takes the lease, does nothing and returns it
Acquire(w) ==
    /\ pc[w] \in {"idle", "lost"}
    /\ pending # {}
    /\ Acquirable(lock, now) /\ counter < MaxToken
    /\ lock' = Acquired(counter, LeaseTtl, now)
    /\ counter' = counter + 1
    /\ sweep' = [sweep EXCEPT ![w] =
                    [token |-> counter + 1, expires |-> now + LeaseTtl,
                     renewed |-> now, since |-> Entry(w), batch |-> {}, hand |-> {}]]
    /\ Goto(w, "fetch")
    /\ UNCHANGED <<now, pending, fence, done>>

Fetch(w) ==
    /\ pc[w] = "fetch"
    /\ sweep' = Handling(w, pending, {})
    /\ Goto(w, "next")
    /\ UNCHANGED <<lock, counter, now, pending, fence, done>>

\* variant: the lease is renewed only once it is about to expire
RenewDueLate(w) == sweep[w].expires - now <= RenewEvery

RenewDue(w) == now - sweep[w].renewed >= RenewEvery

\* The next record is due no renewal, or gets one
Proceed(w) ==
    /\ pc[w] = "next" /\ sweep[w].batch # {}
    /\ ~RenewDue(w)
    /\ sweep' = Handling(w, sweep[w].batch, {})
    /\ Goto(w, "publish")
    /\ UNCHANGED <<lock, counter, now, pending, fence, done>>

Renew(w) ==
    /\ pc[w] = "next" /\ sweep[w].batch # {}
    /\ RenewDue(w) /\ Renewable(lock, sweep[w].token, now)
    /\ lock' = Renewed(lock, RenewTtl, now)
    /\ sweep' = [sweep EXCEPT ![w] = [@ EXCEPT !.expires = now + RenewTtl,
                                                !.renewed = now, !.since = Entry(w)]]
    /\ Goto(w, "publish")
    /\ UNCHANGED <<counter, now, pending, fence, done>>

\* LEASE_LOST: the sweeper stops and does not release
LoseLease(w) ==
    /\ pc[w] = "next" /\ sweep[w].batch # {}
    /\ RenewDue(w) /\ ~Renewable(lock, sweep[w].token, now)
    /\ Return(w, "lost")
    /\ UNCHANGED <<lock, counter, now, pending, fence, done>>

\* variant: the downstream store looks at no fencing token
AcceptedUnfenced(w, r) == TRUE

\* put_if_version() compares the token with the last one of the same row
Accepted(w, r) == sweep[w].token >= fence[r]

\* The hook writes the record downstream
Publish(w, r) ==
    /\ pc[w] = "publish" /\ r \in sweep[w].batch
    /\ Accepted(w, r)
    /\ fence' = [fence EXCEPT ![r] = sweep[w].token]
    /\ sweep' = Handling(w, sweep[w].batch \ {r}, {r})
    /\ Goto(w, "mark")
    /\ UNCHANGED <<lock, counter, now, pending, done>>

\* The hook marks the record published and returns True
Mark(w) ==
    /\ pc[w] = "mark"
    /\ pending' = pending \ sweep[w].hand
    /\ done' = IF now < sweep[w].expires THEN done \cup sweep[w].hand ELSE done
    /\ sweep' = Handling(w, sweep[w].batch, {})
    /\ Goto(w, "next")
    /\ UNCHANGED <<lock, counter, now, fence>>

\* FENCED: the hook reports the record as failed
PublishFenced(w, r) ==
    /\ pc[w] = "publish" /\ r \in sweep[w].batch
    /\ ~Accepted(w, r)
    /\ sweep' = Handling(w, sweep[w].batch \ {r}, {})
    /\ Goto(w, "next")
    /\ UNCHANGED <<lock, counter, now, pending, fence, done>>

HooksFail == counter <= FailingLeases

\* The hook returns False with nothing written
PublishFails(w, r) ==
    /\ pc[w] = "publish" /\ r \in sweep[w].batch /\ HooksFail
    /\ sweep' = Handling(w, sweep[w].batch \ {r}, {})
    /\ Goto(w, "next")
    /\ UNCHANGED <<lock, counter, now, pending, fence, done>>

\* The hook returns False with the record written and not marked
MarkFails(w) ==
    /\ pc[w] = "mark" /\ HooksFail
    /\ sweep' = Handling(w, sweep[w].batch, {})
    /\ Goto(w, "next")
    /\ UNCHANGED <<lock, counter, now, pending, fence, done>>

Finish(w) ==
    /\ pc[w] = "next" /\ sweep[w].batch = {}
    /\ sweep' = Handling(w, sweep[w].batch, {})
    /\ Goto(w, "release")
    /\ UNCHANGED <<lock, counter, now, pending, fence, done>>

\* An exception of a hook leaves sweep() through its finally clause
HookRaises(w) ==
    /\ pc[w] \in {"fetch", "publish", "mark"} /\ HooksFail
    /\ sweep' = Handling(w, sweep[w].batch, {})
    /\ Goto(w, "release")
    /\ UNCHANGED <<lock, counter, now, pending, fence, done>>

Release(w) ==
    /\ pc[w] = "release"
    /\ lock' = Released(lock, sweep[w].token)
    /\ Return(w, "idle")
    /\ UNCHANGED <<counter, now, pending, fence, done>>

\* A sweeper's process dies; the lease it leaves lapses within the clock's bound
Die(w) ==
    /\ pc[w] \notin {"idle", "lost"}
    /\ lock # Null => lock.expires <= MaxTime
    /\ Return(w, "idle")
    /\ UNCHANGED <<lock, counter, now, pending, fence, done>>

Tick ==
    /\ now < MaxTime
    /\ \A w \in Prompt :
          pc[w] \notin {"idle", "lost"} => now < sweep[w].since + StayTime
    /\ now' = now + 1
    /\ UNCHANGED <<lock, counter, pending, fence, done, pc, sweep>>

SweeperStep(w) ==
    \/ Acquire(w) \/ Fetch(w) \/ Proceed(w) \/ Renew(w) \/ LoseLease(w)
    \/ \E r \in Records : Publish(w, r) \/ PublishFenced(w, r)
    \/ Mark(w) \/ Finish(w) \/ Release(w)

\* A hook or the process gives up
SweeperFault(w) ==
    \/ \E r \in Records : PublishFails(w, r)
    \/ MarkFails(w) \/ HookRaises(w) \/ Die(w)

\* Every sweeper has returned, and everything is published or a bound of the
\* instance is reached
Finished ==
    /\ pending = {} \/ counter = MaxToken \/ now = MaxTime
    /\ \A w \in Sweepers : pc[w] \in {"idle", "lost"}
    /\ UNCHANGED vars

Next ==
    \/ \E w \in Sweepers : SweeperStep(w) \/ SweeperFault(w)
    \/ Tick
    \/ Finished

Spec == Init /\ [][Next]_vars

\* Sweepers are scheduled again and again, keep running, and the clock advances
Fairness == WF_vars(Tick) /\ \A w \in Sweepers : WF_vars(SweeperStep(w))

FairSpec == Spec /\ Fairness

-----------------------------------------------------------------------------
(* Properties *)

Sweeping(w) == pc[w] \notin {"idle", "lost"}

\* A sweeper may believe that the lease is its own until its handle expires
Believes(w) == Sweeping(w) /\ now < sweep[w].expires

\* Two sweepers never both believe that they own the lease, whatever they do
\* late: a stale renewal fails and a stale release is a no-op.
OneBeliever == \A w, v \in Sweepers : Believes(w) /\ Believes(v) => w = v

\* Fencing tokens tell sweepers apart, stale ones included.
TokensDistinct ==
    \A w, v \in Sweepers :
        Sweeping(w) /\ Sweeping(v) /\ sweep[w].token = sweep[v].token => w = v

\* Whoever believes in its lease is the one the lock adapter records, no token
\* exceeds the counter, and no two sweeps share one: why there is one believer.
BelieverRecorded(w) ==
    Believes(w) => lock = [token |-> sweep[w].token, expires |-> sweep[w].expires]

TokenBounds ==
    /\ lock # Null => lock.token <= counter
    /\ \A w \in Sweepers : sweep[w].token <= counter

LeaseInv ==
    /\ TypeOK
    /\ TokensDistinct
    /\ TokenBounds
    /\ \A w \in Sweepers : BelieverRecorded(w)

\* A sweeper that does not stall keeps its lease to the end, whatever stalled
\* and dying ones do to it late.
LeaseKept == \A w \in Prompt : pc[w] # "lost"

\* A record that a sweeper has written and, with its lease still running, marked is
\* never written downstream again: not by its successors, who fetch it no more, and
\* not by a stale sweeper that has it in its batch, whom the fence refuses.  (A
\* sweeper that dies, fails or stalls between writing and marking leaves the record
\* to be written again: publication is at least once.)
MarkedIsFinal ==
    [][\A w \in Sweepers, r \in Records : Publish(w, r) => r \notin done]_vars

\* Every pending record is eventually published, through deaths, stalls and
\* lost leases.
EventuallyPublished == <>(pending = {})
=============================================================================
