----------------------------- MODULE Resilience -----------------------------
(***************************************************************************)
(* ResiliencePolicy.call(): the retry budget, circuit breaker and bulkhead *)
(* one adapter keeps for one dependency, shared by the calls that run      *)
(* concurrently on its event loop.  Between two awaits a call runs alone:  *)
(* each action is one such stretch.  The dependency answers, fails or      *)
(* hangs as it likes and callers may cancel at any await.                  *)
(***************************************************************************)
EXTENDS Integers, FiniteSets

CONSTANTS
    Clients,       \* tasks, each making one call after another
    Idempotent,    \* the clients whose calls are idempotent
    Null,
    Slots,         \* bulkhead_max_concurrent
    SlotWait,      \* bulkhead_acquire_timeout
    Threshold,     \* circuit_failure_threshold
    Reset,         \* circuit_reset_seconds
    Token,         \* what a retry costs, in the unit of the next two
    Ratio,         \* retry_budget_ratio: what a call earns
    Cap,           \* retry_budget_cap
    MaxRetries,    \* max_retries of every call
    Backoff,       \* longest backoff delay
    Patience,      \* a call's deadline, counted from its start
    MaxCalls,      \* bound on the calls made
    MaxTime        \* bound on the clock

ASSUME ResilienceAssumption ==
    /\ IsFiniteSet(Clients) /\ Idempotent \subseteq Clients
    /\ Slots \in Nat \ {0} /\ SlotWait \in Nat
    /\ Threshold \in Nat \ {0} /\ Reset \in Nat
    /\ Token \in Nat \ {0} /\ Ratio \in Nat /\ Cap \in Nat
    /\ MaxRetries \in Nat /\ Backoff \in Nat /\ Patience \in Nat
    /\ MaxCalls \in Nat /\ MaxTime \in Nat
    /\ Null \notin Nat

VARIABLES
    breaker,       \* the circuit breaker
    tokens,        \* the retry budget's tokens
    free,          \* free slots of the bulkhead
    now,           \* monotonic clock
    pc,            \* where each client is in call()
    call,          \* each client's call
    made,          \* history: calls that reached the retry loop
    retried        \* history: retries made

vars == <<breaker, tokens, free, now, pc, call, made, retried>>

\* failures a call can end an attempt with; "structural" are CircuitOpenError,
\* BulkheadFullError, DeadlineExceeded and AdmissionTimeout of the callee
Failures == {"transient", "timeout", "nfr", "deterministic", "structural"}

Breakers == [failures : Nat, opened : Nat \cup {Null}, probing : BOOLEAN]

\* wake: when a wait for a slot or a backoff ends.  History: when the attempt
\* under way was sent, and whether it is a half-open probe.
CallStates ==
    [attempt : Nat, deadline : Nat, wake : Nat, sent : Nat, probe : BOOLEAN]

TypeOK ==
    /\ breaker \in Breakers
    /\ tokens \in 0..Cap
    /\ free \in Nat
    /\ now \in Nat
    /\ pc \in [Clients -> {"idle", "queued", "running", "backoff"}]
    /\ call \in [Clients -> CallStates]
    /\ made \in Nat /\ retried \in Nat

NoCall ==
    [attempt |-> 0, deadline |-> 0, wake |-> 0, sent |-> 0, probe |-> FALSE]

Init ==
    /\ breaker = [failures |-> 0, opened |-> Null, probing |-> FALSE]
    /\ tokens = Cap \div 2
    /\ free = Slots
    /\ now = 0
    /\ pc = [c \in Clients |-> "idle"]
    /\ call = [c \in Clients |-> NoCall]
    /\ made = 0 /\ retried = 0

-----------------------------------------------------------------------------
(* CircuitBreaker and RetryBudget *)

HalfOpen(b, t) == b.opened # Null /\ t - b.opened >= Reset /\ ~b.probing

\* variant: an open circuit is half-open at once
AllowedEarly(b, t) == b.opened = Null \/ ~b.probing

Allowed(b, t) == b.opened = Null \/ HalfOpen(b, t)

AfterAllow(b, t) == IF HalfOpen(b, t) THEN [b EXCEPT !.probing = TRUE] ELSE b

AfterSuccess == [failures |-> 0, opened |-> Null, probing |-> FALSE]

AfterFailure(b, t) ==
    IF b.probing \/ b.failures + 1 >= Threshold
    THEN [failures |-> b.failures + 1, opened |-> t, probing |-> FALSE]
    ELSE [b EXCEPT !.failures = @ + 1]

Deposited(n) == IF n + Ratio < Cap THEN n + Ratio ELSE Cap

\* variant: a retry costs what a call earns
WithdrawnRatio(n) == n - Ratio

Withdrawn(n) == n - Token

-----------------------------------------------------------------------------
(* call() *)

Goto(c, place) == pc' = [pc EXCEPT ![c] = place]

Return(c) ==
    /\ Goto(c, "idle")
    /\ call' = [call EXCEPT ![c] = NoCall]

\* Ask for a slot; the wait is bounded by the deadline too
Enter(c) ==
    /\ pc[c] = "idle"
    /\ made + Cardinality({d \in Clients : pc[d] = "queued"}) < MaxCalls
    /\ \E patience \in 1..Patience, wait \in 0..SlotWait :
          /\ wait = IF patience < SlotWait THEN patience ELSE SlotWait
          /\ now + wait <= MaxTime
          /\ call' = [call EXCEPT ![c] = [NoCall EXCEPT !.deadline = now + patience,
                                                        !.wake = now + wait]]
    /\ Goto(c, "queued")
    /\ UNCHANGED <<breaker, tokens, free, now, made, retried>>

\* BulkheadFullError
SlotTimeout(c) ==
    /\ pc[c] = "queued" /\ now >= call[c].wake
    /\ Return(c)
    /\ UNCHANGED <<breaker, tokens, free, now, made, retried>>

\* Send the next attempt
Send(c) ==
    /\ breaker' = AfterAllow(breaker, now)
    /\ call' = [call EXCEPT ![c] = [@ EXCEPT !.attempt = call[c].attempt + 1, !.sent = now,
                                             !.probe = HalfOpen(breaker, now)]]
    /\ Goto(c, "running")

\* The circuit's CircuitOpenError leaves the bulkhead through its finally
GetSlot(c) ==
    /\ pc[c] = "queued" /\ free > 0
    /\ made' = made + 1
    /\ tokens' = Deposited(tokens)
    /\ IF Allowed(breaker, now)
       THEN Send(c) /\ free' = free - 1
       ELSE Return(c) /\ UNCHANGED <<breaker, free>>
    /\ UNCHANGED <<now, retried>>

\* variant: a retry after a backoff is refused with its slot still held
ReleasedNever == free

Released == free + 1

Retry(c) ==
    /\ pc[c] = "backoff" /\ now >= call[c].wake
    /\ IF Allowed(breaker, now)
       THEN Send(c) /\ free' = free
       ELSE Return(c) /\ free' = Released /\ UNCHANGED breaker
    /\ UNCHANGED <<tokens, now, made, retried>>

Succeed(c) ==
    /\ pc[c] = "running"
    /\ breaker' = AfterSuccess
    /\ free' = Released
    /\ Return(c)
    /\ UNCHANGED <<tokens, now, made, retried>>

\* can_retry, before the budget is asked
Retryable(c, kind) ==
    /\ call[c].attempt <= MaxRetries
    /\ kind \in {"transient", "timeout"}
    /\ kind = "timeout" => c \in Idempotent

Recorded(kind) ==
    IF kind \in {"deterministic", "structural"} THEN breaker
    ELSE AfterFailure(breaker, now)

\* The attempt fails and the failure is raised: it is no retry's, or the
\* budget has no token for one
FailForGood(c, kind) ==
    /\ pc[c] = "running"
    /\ ~Retryable(c, kind) \/ tokens < Token
    /\ breaker' = Recorded(kind)
    /\ free' = Released
    /\ Return(c)
    /\ UNCHANGED <<tokens, now, made, retried>>

\* A token is spent, and the drawn delay reaches past the deadline
FailPastDeadline(c, kind, delay) ==
    /\ pc[c] = "running"
    /\ Retryable(c, kind) /\ tokens >= Token
    /\ now + delay >= call[c].deadline
    /\ breaker' = Recorded(kind)
    /\ tokens' = Withdrawn(tokens)
    /\ free' = Released
    /\ Return(c)
    /\ UNCHANGED <<now, made, retried>>

\* A token is spent and the call sleeps, keeping its slot
FailAndBackOff(c, kind, delay) ==
    /\ pc[c] = "running"
    /\ Retryable(c, kind) /\ tokens >= Token
    /\ now + delay < call[c].deadline /\ now + delay <= MaxTime
    /\ breaker' = Recorded(kind)
    /\ tokens' = Withdrawn(tokens)
    /\ retried' = retried + 1
    /\ call' = [call EXCEPT ![c] = [@ EXCEPT !.wake = now + delay, !.probe = FALSE,
                                             !.sent = 0]]
    /\ Goto(c, "backoff")
    /\ UNCHANGED <<free, now, made>>

\* The caller gives up at an await; only what is held is given back
Cancel(c) ==
    /\ pc[c] # "idle"
    /\ free' = IF pc[c] = "queued" THEN free ELSE Released
    /\ Return(c)
    /\ UNCHANGED <<breaker, tokens, now, made, retried>>

Tick ==
    /\ now < MaxTime
    /\ now' = now + 1
    /\ UNCHANGED <<breaker, tokens, free, pc, call, made, retried>>

Fail(c) ==
    \E kind \in Failures :
        \/ FailForGood(c, kind)
        \/ \E delay \in 0..Backoff :
              FailPastDeadline(c, kind, delay) \/ FailAndBackOff(c, kind, delay)

\* Every call has returned and a bound is reached
Finished ==
    /\ made = MaxCalls \/ now = MaxTime
    /\ \A c \in Clients : pc[c] = "idle"
    /\ UNCHANGED vars

Next ==
    \/ \E c \in Clients :
          \/ Enter(c) \/ SlotTimeout(c) \/ GetSlot(c) \/ Retry(c)
          \/ Succeed(c) \/ Fail(c) \/ Cancel(c)
    \/ Tick
    \/ Finished

Spec == Init /\ [][Next]_vars

-----------------------------------------------------------------------------
(* Properties *)

Holding == {c \in Clients : pc[c] \in {"running", "backoff"}}

\* Slots are neither leaked nor returned twice on any way out of a call: by
\* success, failure, open circuit, timeout or cancellation at any await.
SlotsConserved == free + Cardinality(Holding) = Slots

\* Whatever fails, the tokens retries have cost never exceed what the budget
\* started with and what calls have deposited: retries stay within
\* retry_budget_ratio of the traffic.
RetriesBounded == tokens + Token * retried <= Cap \div 2 + Ratio * made

\* While the circuit is open nothing new reaches the dependency: every attempt
\* under way was sent before it (last) opened, or as a half-open probe.
OpenMeansQuiet ==
    breaker.opened # Null =>
        \A c \in Clients :
            pc[c] = "running" /\ ~call[c].probe => call[c].sent <= breaker.opened

\* The breaker keeps "exactly one half-open probe": it is probing if and only
\* if one attempt it let through half-open is under way.
Probes == {c \in Clients : pc[c] = "running" /\ call[c].probe}

ExactlyOneProbe == Cardinality(Probes) = IF breaker.probing THEN 1 ELSE 0

\* An attempt under way was sent at some past moment
SentInPast == \A c \in Clients : pc[c] = "running" => call[c].sent <= now

\* The state is well typed (the budget within its cap) and no slot is lost.
PolicyInv == TypeOK /\ SlotsConserved /\ SentInPast
=============================================================================
