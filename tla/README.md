# A TLA+ model of the E2A reference framework

This directory holds TLA+ specifications of the parts of the framework under
`src/reference/` that keep shared state: what their concurrent callers, their
failures and their clocks can do to each other, checked with TLC on small
instances and, for every safety property the runs check, proved with TLAPS for
every value of the constants that meets the premises
[section 6](#6-proofs) names.

Contents: [the system](#1-the-system) ·
[modules](#2-modules-and-how-they-correspond-to-the-code) ·
[what the runs check](#3-what-the-runs-check) ·
[bounds](#4-bounds) · [fairness](#5-fairness) · [proofs](#6-proofs) ·
[findings](#7-where-the-code-and-its-documentation-disagree) ·
[observations](#8-behaviour-seen-that-no-property-states) ·
[not modelled](#9-what-is-not-modelled) · [plan](#10-plan)

To repeat a check, in this directory: `tlc -workers 2 -config MCWorkflow.cfg MCWorkflow`
(any `MC*.cfg` with the module of the longest matching name) and
`tlapm IdempotencyStoreProofs.tla`.

File names below are short for `src/reference/`: *base* is `e2a_base.py`,
*adapters* is `e2a_inmemory_adapters.py`, *cqrs* is `e2a_cqrs_base.py`, *aidlc*
is `ai_dlc_pipeline.py`, *multimodal* is `multimodal_orchestrator.py`.
*PLAYBOOK* is `src/docs/IMPLEMENTATION_PLAYBOOK.md`, *LANDING_ZONE* is
`src/docs/CQRS_CLOUD_LANDING_ZONE.md`.

---

## 1. The system

The framework is a library of base classes ("sealed" lifecycles with hooks) and
of in-memory reference adapters. A deployment subclasses the bases; the state
that matters is in the adapters and in the few bases that keep counters. Requests
arrive several times (client retries, redelivery) in several processes, so the
same code runs concurrently against one idempotency store, one lock and one
database; inside a process, tasks of an event loop share the admission counters,
the resilience policies and the cache's table of flights.

### Components

| Component | State it keeps | Operations | What makes it correct |
|---|---|---|---|
| **Idempotency store** (base `BaseIdempotencyStore`, adapters `InMemoryIdempotencyStore`) | per key: state, owner, fingerprint, lease end, expiry, result | `claim`, `complete`, `fail` | one live owner per key; only the owner settles; outcomes are final; an unknown outcome goes to reconcilers alone |
| **Workflow, agent, tool service** (base `BaseWorkflow`, `BaseAgent`, `LLMOnlyAgent`, `BaseToolService`; multimodal) | the run's `failed_keys` and `state['outcome']`, the claim it holds, the deadline, the intent the request was classified under | `execute`, `_get_agent`, `run`, `_apply_policy`, `_run_on_bridge_loop`, `__settle_claim` | one delivery holds the claim; no tool is called without it; a call that timed out, was interrupted or lost its sender is not repeated; answers are true and agree |
| **Reconciliation service** (base `BaseReconciliationService`) | lease, batch, per-entry takeover | `reconcile`, `confirm`, `replay`, renewal | replay only what did not happen, at most once; stuck requests that were queued get settled |
| **Outbox sweeper** (base `BaseOutboxSweeper`) | lease, batch | `sweep`, renewal, publishing with a fencing token | one sweeper at a time; each record published; per-row fencing |
| **Distributed lock** (adapters `InMemoryLease`) | current lease, fencing counter | `acquire`, `renew`, `release` | stale renewals fail, stale releases are no-ops, tokens increase |
| **Resilience policy** (base `RetryBudget`, `CircuitBreaker`, `Bulkhead`, `ResiliencePolicy`) | tokens, circuit state, probe flag, free slots | `call`, `allow`, `record_success`, `record_failure`, `withdraw`, `deposit` | slots come back; retries stay within budget; an open circuit is quiet; one probe |
| **LLM agent service** (base `BaseLLMAgentService`) | pod semaphore, tenant permits, quota buckets, inflight, draining | `process_inference`, `process_inference_stream`, `drain`, `__concurrency_permit`, `__tenant_entry` | permits and quota given back exactly once; what is sent fits the budget and is the recent conversation |
| **Cache store** (base `BaseCacheStore`) | values, table of flights | `get_or_load`, `aget_or_load` | one leader per missing key among threads and one among tasks; followers always served |
| **CQRS query service** (cqrs `BaseQueryService`) | none of its own: cache and database | `fetch` | a query sees the writes acknowledged before it |
| **Transactional store** (adapters `InMemoryTransactionalStore`) | versioned rows with fences | `put_if_version`, `get`, `put`, `delete` | lost updates and stale holders are refused |
| **CQRS orchestrator, command service** (cqrs) | claim, aggregate, outbox, cache | `execute`, `mutate` | applied once; events are of commits; no claim outlives its call |
| **AI-DLC pipeline** (aidlc) | permits, claim, scaffold, ownership record of a shared abstract class | `execute_pipeline`, phases A–C, the compensator | one build per key; a completed build keeps what it made; permits come back |
| Governance, static pipeline | none shared | gates and stage hooks | appear inside the models as steps that pass, pause or raise |
| RAG and indexing, MCP, prompts, memory, configuration, observability, validation, provisioning, webhooks | none shared, or shipped out only | hooks, pure functions | not modelled, see [section 9](#9-what-is-not-modelled) |

### How they interact

```
 delivery ──execute()──► idempotency store ◄──claim(recover=True)── reconciler ──► lock
    │                          ▲                                       │
    │ run()/_apply_policy()    │ complete()/fail()                      │ confirm / replay
    ▼                          │                                       ▼
 tool service ──(policy: budget, breaker, bulkhead)──► system of record ◄─┘
 inference service (tenant cap, pod permits, quota)     outbox ◄─ sweeper ──► lock
 command service ──put_if_version──► aggregate, outbox, cache ◄──get_or_load── query service
 build pipeline ──claim, permits, put_if_version──► scaffold, abstract class
```

### Hard behaviour

* **Time**: three leases that lapse independently (claim, worker lock, record
  ttl), deadlines, tool timeouts, retry backoff, breaker reset.
* **Unknown outcomes**: a call that timed out may still be applied later; a
  replay may be applied and its answer lost.
* **Death** between any two accesses to shared state, with the claim or the lock
  held, before or after the effect; and the **interrupt** (`KeyboardInterrupt`,
  `SystemExit`) that every `except Exception` lets pass and `finally` still handles.
* **Interleaving** of processes at every store access, of threads at every cache
  access, of tasks at every `await`; and cancellation at every `await`.
* **Partial failure**: commit done and outbox write failed; effect done and the
  model call after it failed; a compensation that itself raises.
* **Drift**: a request is classified anew on each delivery; what claims it and
  what dispatches it are different functions of the intent and its score.
* **Staleness**: a load reads a row that a command changes before it is cached.

`PROJECT.json` lists the forty hazards behind this summary, each at its line.

---

## 2. Modules and how they correspond to the code

```
 ClaimContract            LeaseLock
      ▲ implements          ▲      ▲
 IdempotencyStore      OutboxSweeper  \
      ▲ EXTENDS             ▲          \
 …StoreProofs          …SweeperProofs   \
      │                                  \
 ClaimRecord ◄── Workflow ◄── Reconciliation
           ◄── CommandService
           ◄── BuildPipeline
 SingleFlight ◄── QueryService     ContextBudget ◄── LLMAdmission     Resilience
```

The other modules of proofs are laid out as those two are: `CommandServiceProofs`,
`ResilienceProofs`, `BuildPipelineProofs` and `LLMAdmissionProofs` EXTEND the module
they are named for, `WorkflowProofs` EXTENDS `Reconciliation`, and
`QueryServiceProofs` EXTENDS `QueryService`; the last three cover `ContextBudget`,
`Workflow` and `SingleFlight` as well.

An action is one stretch of code that runs without another actor being able to
see or change something in between: a store call made under the adapter's lock,
or the code between two awaits of a task. `PROJECT.json` maps each definition to
its lines.

**ClaimRecord** — `claim`, `complete` and `fail` of one record as operators of
the record, the arguments and the store's clock (adapters 27–86):
`ClaimStatus` is the answer, in the order the code tests its conditions;
`AfterClaim`, `AfterComplete` and `AfterFail` are the record left behind. It is
used unchanged by every module below that holds claims, so a change of the
store is a change of all of them.

**ClaimContract** — the abstract specification: per key a phase (open, held,
lapsed, parked, succeeded, refused) and the worker it was last granted to, with no
owner names, leases, results or clocks. It says who may be granted a key, who may
settle it and which phases are final.

**IdempotencyStore** — callers that claim, settle, settle late or die, over
`ClaimRecord`. `rec` is the adapter's `_rec`; `work` is what each caller
believes it holds; `claimant` is history. `Contract` maps this state to
`ClaimContract`.

**Workflow** — `BaseWorkflow.execute` of the multimodal orchestrator, the `run`
of the agent the request is routed to, a tool call and the system of record
behind it, once per delivery. `RoutingsOf` says which intents and confidences
the semantic router may give a delivery; `AgentOf` is `_get_agent`,
`RequiresClaim` is `_requires_idempotency_claim`, `Fingerprint` is
`_request_fingerprint`, which depends on the intent and not on its score. An
`LLMOnlyAgent` runs its one model call ungated; the RAG and fallback agents run
without a tool; tool agents go through the commit gate and the bridge loop. `pc`
is the delivery's place; `committed` is the system of record; `Faults` chooses
which failures the instance has: set-up, agent, a blocked commit gate, a refused
request, a timeout, a broken connection, an expired bridge loop, a call applied
late, a failing model call, a breached latency limit, an interrupt, a death
(`AllFaults` says which is which). A call stays in `inflight` until `Apply` or `Reject` handles
it, which with the fault `late` may be long after its caller has given up.
`Settle` is `__settle_claim` with its order of tests: a pause, an unknown
outcome, `failed_keys`, then success. What is returned keeps the outcome it has
even when `failed_keys` is not empty (`Answer`): a caller may get COMMITTED and a
failed key together. `Interrupt` is what neither except clause sees: it leaves no
failed key, and `Settle` then completes the request.

**Reconciliation** — EXTENDS `Workflow` with the dead-letter queue and workers that
run `reconcile()`. `queued` becomes true as a delivery with `failed_keys` returns
(base 1903–1904) and by nothing else; a delivery that dies after its settlement
may leave it out. A worker whose queue has the request's key: acquire the lock,
renew between entries, claim with `recover=True`, confirm, replay, settle, release.
`ConfirmFences` states what a confirmation of the system of record guarantees (an
answered confirmation of a later lease holder bars earlier tokens); it is a constant
because the repository leaves it to the system of record. Lock steps are
`LeaseLock`'s.

**LeaseLock** — `acquire`, `renew`, `release` of `InMemoryLease` (adapters
145–190) as operators of the lease, the fencing counter and the clock.

**OutboxSweeper** — `sweep()` by several scheduled sweepers: acquire, fetch,
per record renew when due, write downstream under the fencing token (`Publish`),
mark the outbox row (`Mark`), release. Writing and marking are two steps of the
hook: a sweeper may stall, die, raise or return False before, between or after
them. Hooks fail under the first `FailingLeases` leases, any sweeper may die, and
those not in `Prompt` may stall anywhere for any time.

**Resilience** — `ResiliencePolicy.call` and its attempt loop, with the three
shared counters. The stretch from one await to the next is one action:
admission (`allow`, slot), the outcome with its recording, backoff, cancellation
at each of them.

**LLMAdmission** — both inference entry points: tenant permit, pod semaphore,
shared quota, quota buckets, upstream call, settlement and every way out, with
eviction and replacement of idle tenant entries and `drain`. Giving the fleet's
quota back is an await of its own, with the permits held (place `giveback`): it
may fail or be cancelled, and so may the hook that takes it. A call that fails
has used tokens too; `history` counts what was used and what of it nobody paid. EXTENDS
`ContextBudget`: a request brings a conversation, which is cut to the budget
before anything is admitted, refused if its required part does not fit, and
charged by the estimate of what is left of it.

**ContextBudget** — `_manage_context_budget` as a function of a sequence of
messages, each a class and an estimate: what must be kept, and the window of
history the loop keeps, newest first, with its `break`. `KeepsTheRecent` is the
docstring's promise stated without the loop.

**SingleFlight** — threads in `get_or_load` interleave at each access; a task's
look-up and join are one step, since no await separates them. A loader returns,
raises, times out or is interrupted, `set` may fail, entries may vanish. `Shared`
is what a leader tells its followers of its error: a task replaces a
`CancelledError` by `_FlightAborted`, a thread a `KeyboardInterrupt` or
`SystemExit`, and neither replaces the other's (`KeptBy`).

**QueryService** — EXTENDS `SingleFlight`: its callers become queries in
`fetch()`, whose loader reads the aggregate at one moment (`Read`) and returns at
a later one (`LoadReturns`), against command services that commit a version
(`Commit`) and evict or hydrate the cache before they return (`Synchronize`), or
fail in between (`WriteFails`). `fetch()`'s latency check comes last
(`SloBreached`). History says what each query must see (`floor`) and which keys
a command has changed behind a load's back (`overtaken`).

**CommandService** — `BaseOrchestrator.execute` with `mutate`: claim, gates,
conditional commit with version and fencing token where the service names an entity
key, none where it does not (`CommitNothing`, the default of `_entity_key`), outbox
write, cache update, settlement of each way out. The record stores one kind of
result: it does not tell a command carried out from one the commit gate rejected
or an interrupt cut short.

**BuildPipeline** — `execute_pipeline` with its two levels of permits, the generation
of the class (`StartGenerate` finds it there or not, `Generate` writes it much later), the
registration of the shared abstract class by compare-and-set, the three phases,
and the compensator with its own compare-and-set and deletion. Phase B runs for
the builds in `WithA2C`, whose request enables it. A build's claim has no ttl and
no reconciler, so its lease decides only which refusal a duplicate gets; this
module has no clock.

The `MC*` modules only give the constants their small values, the symmetry sets
and the functions a `.cfg` cannot write. Operators commented `\* variant` are
one-step changes of a mapped definition such as a plausible bug would make; they
are never used by a specification. Each property is known to fail under one.

---

## 3. What the runs check

| Run (`.cfg`) | Question | Distinct states |
|---|---|---|
| `MCIdempotencyStore` | Does the store grant one live owner, take settlements from it alone, keep outcomes, and implement the contract? | 24 thousand |
| `MCWorkflow` | With all faults at once and one delivery classified three ways, does one delivery hold the claim, is nothing called without it, is a call without an answer repeated only after a broken connection or an expired bridge loop, and do answers agree and tell the truth? | 2.53 million |
| `MCReconciliation` | Two deliveries, two reconcilers that settle in time: one effect, counting replays? | 1.34 million |
| `MCReconciliationLive` | Reconcilers that stall, die and lose answers: one replay at most, what is settled true, and a queued request settled in the end? | 731 thousand |
| `MCOutboxSweeper` | Never two believers, the prompt sweeper keeps its lease, what is marked is not written again, every record published? | 568 thousand |
| `MCResilience` | Slots, retry budget, quiet open circuit. | 1.15 million |
| `MCLLMAdmission` | The recent context kept within budget, permits and quota given back once, on the entry they came from. | 1.29 million |
| `MCQueryService` | Followers served, interruptions kept home, keys filled once, acknowledged writes seen. | 300 thousand |
| `MCCommandService` | Applied once, events real, replays true, no claim left behind. | 3.32 million |
| `MCBuildPipeline` | Permits, one builder, one deleter, what a completed build keeps. | 2.37 million |
| `MCWorkflowInferFails` | A violation: see [section 7](#7-where-the-code-and-its-documentation-disagree). | |
| `MCResilienceProbe` | A violation: see the same. | |

The invariants called `…Inv` (`StoreInv`, `LeaseInv`, `WorkflowInv`, `CommandInv`
and so on) are each the module's type invariant with the structural facts that go
with it. Section 6 says which are inductive and what the others need.

**Store.** `LiveGrantExclusive`: two callers never both hold a grant whose
lease still runs. `OnlyClaimantSettles`: a settlement that changes the record is
the latest grantee's, so a stale owner "gets False" (PLAYBOOK 715).
`OutcomeFinal`: success and final failure never change before they expire
(PLAYBOOK 703). `RecoveryIsReconcilers`: an unknown or abandoned key is granted
to a reconciler alone until it expires (PLAYBOOK 704). `ImplementsContract` is
the refinement.

**Workflow.** `WorkflowInv` has four parts. `OneHolder`: without a reconciler
two deliveries never hold the claim together however long one stalls, dies or
leaves its outcome unknown, because an expired claim is handed to nobody.
`HeldClaim`: what is held is recorded so. `EffectsAreClaimed`: no tool is
reached but under a claim, which needs the claim predicate and the dispatch to
judge the intent and its score alike (they are separate functions, multimodal
333–346). `AnswersAreStored`: an answer without `failed_keys` is what the record says.
`RepliesAgree`: no two such answers contradict each other. One with `failed_keys`
may: a caller whose model call failed after the tool call committed gets COMMITTED
beside its failed key, and a later delivery, whose call the system of record
refuses, NOT_COMMITTED. `CommittedIsReal`: whoever is told COMMITTED, with failed
keys or without, has the effect. `OnlyLostCallsAreRepeated`: while an
earlier tool call has no answer (it timed out, was interrupted, lost its sender or is
under way) none is sent, with one exception: a call whose connection broke or whose
bridge loop expired (`Lost`). The documents count these as unknown too, but the code
takes them for plain failures and sends the request again;
[section 7](#7-where-the-code-and-its-documentation-disagree) states the
disagreement. Not claimed: at most one effect for
all faults. The code does not have it.

**Reconciliation.** In the safety run deliveries finish, or die, before their
claim lapses (`Prompt`), reconcilers settle an entry before theirs does
(`Punctual`), and no call is applied after its caller gave up (no fault `late`).
Then `OneEffect` holds: one effect, counting replays. The premises are needed. A
reconciler that is told NOT_COMMITTED of an owner that is only slow, or of a call
that is still on its way, replays what is then applied too, because a delivery's
call carries no fencing token. The live run drops the premise for reconcilers,
which stall as long as they like, and keeps what survives: `OneReplay`
(fencing by confirmation), `SettledTruthfully` (what a SUCCEEDED record replays
is true, except that an interrupted delivery stores an empty result whatever became
of its call) and `StuckIsResolved` (a request that is stuck and whose key is among
the dead letters is settled in the end). `ReconciliationInv` adds that a reconciler
acts only when no delivery does. With the premise `Prompt` dropped, TLC finds
`OneEffect` and `RecoveryAlone` violated.

**Sweeper.** `OneBeliever`: no two sweepers hold handles that still run and both
think the lease theirs. `LeaseKept`: a prompt sweeper is not robbed of its lease
by a late renewal or release of another. `MarkedIsFinal`: a record that a sweeper
wrote and, with its lease still running, marked is never written downstream again, by
any sweeper. Publication as such is at least once: whoever dies, fails or stalls
between writing and marking leaves the record to be written again, and a stalled
sweeper still writes rows that the new holder has not reached, since fences are per
row. `EventuallyPublished`: nothing is lost.

**Resilience.** `PolicyInv` (slots conserved on every way out), `RetriesBounded`
(tokens spent on retries never exceed the initial half and the deposits),
`OpenMeansQuiet` (whatever runs while the circuit is open was sent before it
opened, or is a probe).

**Admission.** `AdmissionInv` (pod permits and the inflight count; what a request
sends keeps all that is pinned and active, fits the budget, and is the recent end
of the history, `KeepsTheRecent`),
`TenantCapHolds` (the cap holds for every entry, although entries are evicted and
replaced), `QuotaConserved` (quota left, held and used never exceeds bucket plus refill, but
for the tokens the code leaves uncharged: those of failed calls, as
`__settle_quota`'s docstring says (base 1672–1676), and what an answer used above its
estimate; so nothing is refunded twice. The fleet's quota is held by exactly the
requests in local admission or admitted, and by what a failing hook keeps).

**Cache.** `FlightInv` (an entry of the table of flights always has one leader),
`InterruptsStayHome` (a cancelled task cancels no other task's call and an interrupted
thread interrupts no other thread's; what a leader does not convert does reach its
followers, see section 7), `OneFill` (tasks fill a missing key once; threads may twice, since
they look the cache up before they take the lock), `FollowersServed`.
`ReadAfterWrite`: a query sees the last write that had returned when it began,
wherever its answer comes from. LANDING_ZONE 189 promises that of every read;
the code has it but for one case, which the property names: a command that
commits while a load of the same row, or another command on it, is under way
(`Busy`). The load may then put the older row into the cache after the command
has synchronized it, and queries read it until it expires. The property says
that this is the only way, and that it ends with the entry.

**Commands.** `AppliedOnce` (the conditional commit is the authority, even when a
claim was forgotten, lapsed or released), `SucceededMeansDone` (a command recorded as
SUCCEEDED has its event, and its commit where it has an aggregate, unless the
delivery that settled it was rejected by the gate or interrupted: those two are told
by their replies, for the record does not tell them apart), `EventsAreReal`, `CommandInv` (a
returning call has settled its claim; a commit leaves the version it was computed
from behind for good; an event is written once, after its commit and before
success is reported).

**Builds.** `BuildInv` (both levels of permits), `OneBuilder` (a key's claim
covers its compensation), `ScaffoldKept`, `ReferenceKept`. `OneDeleter`: compensations
decide to delete the shared class no more often than builds generated it afresh. It
counts because two builds may both find no class and generate it: the second may
re-register over the record the first one's compensation marked deleted, fail
too, and rightly delete again. With one fresh build there is one deleter.
`ScaffoldKept` names the one exception the code has: a build that failed before
it came to claim the key compensates from phase QUEUED (aidlc 345) and may delete
the scaffold of another. The property says that nothing else may.

---

## 4. Bounds

Every clock stops at `MaxTime`, every token counter at `MaxToken`, and every
other counter at a named constant. They were chosen by the cases they let happen,
and coverage was read to see that each action of each module fires in a passing
run.

| Run | Instance | Why it is enough to be interesting |
|---|---|---|
| store | 2 live callers, 1 reconciler, 1 key, 2 fingerprints, 2 results, `Lease` 2, `Ttl` 4, `MaxTime` 7 | keys do not interact; a lease lapses, is taken over, lapses again and the record expires within 7 |
| workflow | 3 deliveries (the second classified as a tool call, doubtfully as one, or for the model alone; the third governed), `Lease` 2, `Deadline` 2, `ToolTimeout` 1, no ttl, all faults, `MaxTime` 3 | a first delivery fails or dies, a second meets its record under the same or another fingerprint or goes without a claim, a third meets both; the deadline falls before, at and after a tool call |
| reconciliation | 2 deliveries, 2 workers (symmetric), `Lease` 2, lock ttl 1, `MaxTime` 4, `MaxToken` 3; faults `agent`, `timeout`, `interrupt`, `crash` | one delivery fails and is queued, the other dies or times out, one worker takes over, its lock lapses, the other confirms again, a delivery retries |
| reconciliation_live | 1 delivery, 2 workers, lock ttl 2, `MaxTime` 5, `MaxToken` 6; faults `timeout`, `infer`, `drop`, `bridge`, `interrupt`, `crash` | the delivery fails before, in or after its call and leaves a dead letter or none; a record is left stuck by it or by a worker; both workers stall, die and overlap. No symmetry, as liveness is checked |
| sweeper | 2 sweepers, 2 records, ttl 5 and renewal 4 (a renewal shortens the lease), `StayTime` 1, `FailingLeases` 2, `MaxTime` 9, `MaxToken` 12 | a sweeper stalls or dies between writing and marking, loses its lease and comes back late; after the faults a lease remains to finish |
| resilience | 3 calls at a time, 2 slots, threshold 2, reset 2, 4 calls, 1 retry each | more callers than slots, the circuit opens, probes and closes, stale failures land in between |
| admission | 2 unary (one tenant's, symmetric) and 1 stream, caps 0 (none), 1 and 2, pod 2, quotas 2 and 3, `MaxTime` 1, budget 4, every conversation of up to 4 messages of 1 or 2 tokens, usages 1 and 4 | each cap binds, and a tenant's cap changes while it is in use, to be picked up once it is idle; an estimate exceeds the bucket, which is refilled once; an entry is evicted; a conversation fits, is cut in the middle of its history, or is refused; any time and number of requests is proved |
| cache | 2 threads and 2 tasks, 1 key, 2 calls, 2 commands, 2 versions | leader and follower of each kind, and a command that commits before, during and after a load; kinds share only the cache; any number of calls is proved |
| cqrs | 3 deliveries of 2 commands, the second with or without an aggregate (`Services`), tokens 1, none, 2, `Lease` 1, `Ttl` 2, `MaxTime` 3 | two commands race for a version, one is redelivered after lapse and after expiry, stale tokens |
| aidlc | 3 builds, 2 keys, 2 tenants, one A2C, 2 slots, tenant cap 1, 2 compare-and-set tries | same key twice, different keys sharing the class, instance and tenant limits bind |

When a clock has run out, time-dependent states persist but nothing new may lapse.
That matters to liveness alone: a lease left behind by a death just before
`MaxTime` would never lapse, for the bound's sake and not the code's. So a
reconciler or sweeper dies, or has a hook raise, only while what it leaves behind
still lapses within the bound (`LapsesInTime` in `Reconciliation`; `FailingLeases`
and the guard of `Die` in `OutboxSweeper`). Every such fault can happen, several
times over and in every place; what is left out is the last one before time ends.

Deadlock is checked in every run: a state with everything finished has an explicit
stuttering step, so any other state without a successor is an error.

---

## 5. Fairness

* **Reconciliation** (`RFairSpec`): weak fairness of every delivery's steps, of
  the system of record's answer to a call it was sent, of every worker's steps,
  and of the clock. The code justifies it by scheduling: `reconcile()` is called
  periodically and does not wait for anyone, each hook call returns or raises,
  and the lock's clock is `time.monotonic`. Deaths are under no fairness, and a
  raising hook is one of the ways in which a worker's step may go: fairness never
  chooses the good one. Confirmations that are never answered are left out of
  this run (they are in the safety run): a system of record that never answers
  leaves the request UNKNOWN for ever, and rightly.
* **Sweeper** (`FairSpec`): weak fairness of each sweeper's own step and of the
  clock, for the same reason. Hooks may fail or raise under the first `FailingLeases`
  leases only: a hook that fails on every schedule would rightly prevent
  publication, and no scheduling changes that (see section 8).
* **Cache** (`QSpec`): weak fairness of each query's step, its loader's end among
  them; none of commands, expiry or timeouts. The loader is external; if it never
  returned, the followers would have only their timeout, which the property does not
  count on.

The other modules state safety alone and have no fairness.

---

## 6. Proofs

TLAPS checks every obligation of eight modules. Each safety property of section 3
is a theorem. Where a theorem has a premise besides the assumptions on the
constants, its statement names it (`ASSUME`), the module defines it, and the text
below says why the code needs it; the run that checks the property meets it.

### `IdempotencyStoreProofs`

Assumptions on the constants: `NullAssumption`, `NullRecordAssumption`, `NullGrantAssumption`
(Null is none of the values it stands beside), `StoreAssumption` (types of the
constants, and a lease of at least one tick). `StoreInvariant`,
`LiveGrantsExclude`, `StaleSettlementRefused` and the refinement have a premise
besides: no two callers share a correlation id (`OwnersDistinct`). The store tells
owners apart by that name only, and two executions under one correlation id are
one owner to it.

The lemmas about `ClaimRecord` (`ClaimedRecord`, `GrantedOn`, `CompletedRecord`,
`FailedRecord`) say what each operator returns for any record; the rest cites
them and never expands the code's case analysis again. `SettlesWith` and
`Grant` then reduce the actions to two shapes, so each invariance proof has
the same four cases: a grant, a settlement, a death, the clock.

* `TypeCorrect`: type correctness.
* `StoreInvariant` (`StoreInv`): `LiveGrantExclusive` is not inductive by
  itself, as it speaks of what callers believe and the store decides by what it
  recorded. `StoreInv` ties the two: a record in progress belongs to its
  claimant's owner id (`ClaimantOwns`), and a grant that is live is the one
  recorded (`GrantRecorded`).
* `LiveGrantsExclude`: from it, at most one live grant per key.
* `StaleSettlementRefused`, `OutcomesFinal`, `UnresolvedGoesToReconcilers`: the
  three action properties, from type correctness, `StoreInv` and the lemmas.
* `StoreImplementsContract`: every initial state and step maps to one of
  `ClaimContract`, or to a stutter. It needs one more invariant, that a record
  expires only if some claim had a ttl (`ExpiryMeansTtl`), because the
  contract lets a key be forgotten only when claims carry one.

### `OutboxSweeperProofs`

Assumptions: `SweeperAssumption`, `NullLeaseAssumption`.

* `LeaseInvariant` (`LeaseInv`): `OneBeliever` is not inductive, since nothing in
  it says what the lock recorded. `LeaseInv` adds that tokens of those that
  sweep differ (`TokensDistinct`), that no token exceeds the counter
  (`TokenBounds`), and that whoever believes in a lease is the one the lock
  records, with the same expiry (`BelieverRecorded`). One lemma per action, or per
  group of actions with the same effect on the lease.
* `OneSweeperBelieves`: for any number of sweepers, any lease and renewal times,
  however long they stall.
* `NothingMarkedIsPublished` (`MarkedIsFinal`): from `MarkInv`. A record marked within
  its marker's lease is no longer pending; whoever has it in its batch had it before
  the marker's lease began, so its token is below the fence the marker left on the row
  (`BelieverIsRecorded`: who marks within its lease holds the newest token). A stall
  or a death between writing and marking only leaves the record pending.
* `PromptKeepTheLease`: premise `LeaseSized`. A sweeper that never stays longer than
  `StayTime` in one place meets its renewal only if three such stays (before, during
  and after the downstream write), and the wait for a renewal not yet due, fit into
  the lease as granted and as renewed. `sweep()` does not check this of
  its configuration. `PromptAreOnTime` bounds when a prompt sweeper comes to each
  place; a renewal at the expiry itself would be refused, hence the one strict bound.

### `WorkflowProofs`

Assumptions: `WorkflowAssumption`, `NullIsNothing` and, for what concerns reconcilers,
`ReconciliationAssumption`. The first four theorems are about `Workflow` alone and
have the premise `NoTtl`: with a ttl the record of a held claim may be forgotten
(section 8), and none of this holds. Nothing is assumed of deliveries' owners, routings,
faults, deadlines or whether deliveries are prompt.

* `WorkflowInvariant`: the four parts of `WorkflowInv` need each other. A claim is
  granted on a vacant record only (`GrantedOnVacant`); `HeldClaim` says that a
  held one is not vacant (`VacantIsFree`), hence `OneHolder`; `EffectsAreClaimed`
  is what makes the outcome of a call its holder's; and `AnswersAreStored` follows
  since a record that is settled as SUCCEEDED is never vacant again. All steps
  of a delivery between its claim and its settlement are reduced to moves
  (`MovesKeep`) that leave the record and the replies alone and change `att` in one of a
  few ways; the claim, the settlement and the environment have lemmas of their own.
* `AnswersAgree`, `CommittedAnswersTrue`: from `AnswersAreStored`, which ties to the
  record only the answers without `failed_keys` (`Told`), and to an effect all that
  are COMMITTED.
* `OnlyLostCallsRepeated`: `PendingOf` follows each call that has no answer: its
  delivery is at work or dead under its claim, failed with the answer lost (the
  property's exception), or parked or completed the record,
  and no vacant record comes after that. An interrupted delivery needs the case that
  it completed the record, which `OneHolder` does not speak of.

The others are about `Reconciliation`, any number of deliveries and workers. There
`OneHolder` is false: a reconciler takes over the claim of a delivery that is only
slow. What survives, and what it takes:

* `OneReplayTakesEffect`: premise `ConfirmFences` alone. `FenceInv`: tokens of workers
  under way differ and are within the counter; who is about to replay has
  confirmed, so the fence is at its token or past it, and strictly past it once a
  replay took effect. Leases, clocks and claims play no part.
* `RecoveryKeepsOff`: premises `NoTtl`, `Prompt` and one of `Punctual` and `OwnersApart`.
  `ChargeInv`: a delivery at work has the record, unlapsed and alone; a punctual
  worker likewise. A reconciler that stalls past its lease is kept off only by its
  name: the store would accept it under the delivery's correlation id.
* `OneEffectAtMost`: premises `NoTtl`, `Prompt`, `Punctual`, `CallsAreAccountedFor`. The
  last rules out exactly the ways section 8 lists in which the code loses track of a
  call: a plain failure after the tool was called (`infer`, `slow`, `drop`,
  `bridge`, a deadline), a call applied after it was given up, and an unreported
  replay. `EffectsInv`, with `ChargeInv`: a vacant record has no effect behind it,
  a delivery at work is the only one that may have an effect, and a
  worker about to complete, or to replay, is right that there is an effect, or none.
* `SettledTruly` and `SettledTrulyWhenRefused` (both with the exception of a request an
  interrupted delivery completed, which `StoredTruth` carries along): two sets of premises, neither of which
  implies the other. Where every write goes through (`WritesGoThrough`) nothing is
  asked of leases, ttl or faults: `TruthInv` follows each claimed delivery to its
  settlement. Where writes may be refused, a request may be completed without an effect,
  which is true only if no other attempt took effect: that takes the premises of
  `OneEffectAtMost`.

A step of `Reconciliation` is one of `Workflow` that leaves the workers alone, or one
of a worker that leaves the deliveries alone, and the proofs are laid out by that.

### `CommandServiceProofs`

Assumptions: those of `CommandService` on its constants. Any ttl, lease, fencing
tokens and faults.

* `CommandInvariant`: `CommandInv` with `SucceededMeansDone` is inductive. The
  conditional commit accepts a delivery only at the version its command expects
  (`AcceptedIsFirst`), and `CommitsMoveOn` says the version never comes back. A
  command without an aggregate is carried out by its event alone (`CarriedOut`).
* `CommandAppliedOnce`: from `CommitsMoveOn` and cardinality, with no use of the
  claim, which is why it holds when claims are forgotten.
* `EventsAnnounceCommits`, `SuccessesAreDone`: from `EventsFollowCommits`.

### `ResilienceProofs`

Assumption: `ResilienceAssumption`.

* `PolicyInvariant`, `RetriesWithinBudget`, `OpenIsQuiet`: `PolicyInv` (with
  `SentInPast`, which `OpenMeansQuiet` needs when the circuit opens) and the two
  others are preserved together. Every action of a client is a case of `Moves`: its
  place decides what becomes of its slot (`HoldingChanges`, by cardinality), and
  what happens to the budget is one of three cases, a deposit, a withdrawal or
  neither (`SumKept`).

### `QueryServiceProofs`

Assumptions: `SingleFlightAssumption`, `NullErrorAssumption` (Null is no error) and
`QueryAssumption` (versions are positive numbers). Any threads, tasks, keys, values,
commands and number of calls, where the run makes two. First for the callers of
`SingleFlight` by themselves:

* `FlightsAreLed` (`FlightInv`), `InterruptionsStayHome`, `TasksFillOnce`: the
  inductive invariant `Inv` says besides what a call may hold at each place
  (`Shaped`), that no flight hands on the interruption its kind keeps (`NoneInterrupts`),
  and that
  a key a task loads is unfilled (`FillsStay`). A caller's step leaves the table of
  flights alone, enters its flight or takes it off (`Stays`, `Leads`, `Lands`),
  and `TableKept` treats these three for all actions. That a caller finds an
  unused flight object at all is a pigeonhole argument (`FreeFlightExists`).

Then for queries among commands:

* `ReadsFollowWrites` (`ReadAfterWrite`): the property speaks of answers, and an
  answer may come from the cache, a flight, a load under way or a command about to
  hydrate. `Underway` collects the versions that may yet surface. `VersionsAgree`
  says that they are the database's version unless the key was overtaken, and that
  the cache then is no older than what was acknowledged; `Floored`, that whatever
  may yet answer a query under way is no older than what it must see;
  `FlightsHeld`, that a flight object is used by one leader at a time, for one key,
  and empty before. `VersionsMove` is what any step may do to the versions of
  a key; the first two invariants follow from it once (`VersionsKept`,
  `FlooredKept`), and each action is shown to be such a move.
* `FlightsUnderCommands`: the first three hold among commands too, since every
  step of `QNext` is one of `Next` but for a command's synchronization and the
  latency check, which have lemmas of their own.

### `BuildPipelineProofs`

Assumptions: `BuildAssumption`, those of `ClaimRecord`, and `NoRecordAssumption` (Null is
neither a claim record nor an ownership record). Any builds, keys, tenants, permits
and compare-and-set tries; a build may die anywhere. `StepKinds` sorts the steps into
those that only move a build, those on permits, on files, on the claim and on the
ownership record, so that each invariant argues about the kinds that touch it.

* `BuildInvariant` (`BuildInv` and `LocalInv`): conservation of permits counts by place,
  and is inductive with what a build's place says of its phase, its success and
  what it read (`LocalInv`).
* `OneBuilderOfAKey`: `ClaimsInv`. A build at work owns the record of its key. It is
  never forgotten, as there is no ttl, nor recovered, as there is no reconciler.
* `OneDeleterOfAClass`: rights to delete the class are counted (`RightInv`). A build that
  generates it afresh brings one; the ownership record keeps it from the
  registration on, if that began the record, and the compensation that takes the last
  reference away takes the right. Deciding to delete uses one up, so no more do than
  builds generated it. `CurInv` makes compare-and-set sound: what a build read is the
  record or an older version, so a record of the same version is the one it read.
* `CompletedBuildsKeep`, and from it `ReferencesAreKept` and `ScaffoldsAreKept`: premise
  `KeysApart`, no two tenants share a generator key. `KeptInv` must speak of builds
  that may yet complete too. The premise is needed. The key is made of project,
  runtime, tool and platform (aidlc 375–378) while the claim's scope has the tenant
  in it, so two tenants may build one key at once, and the failing one deletes what
  the other has: TLC finds both properties violated with one key for both tenants.

### `LLMAdmissionProofs`

Assumptions: `AdmissionAssumption` and `NullAssumption` (Null is no entry, number or
Boolean). No premises: any requests, tenants, caps, rates, usages, budget and
conversations.

* `ContextAlwaysKept` (`ContextKept`): what the loop of `_manage_context_budget()` computes
  for every conversation. The loop is a recursive function; instead of an induction
  over data, its closed form `StateAt` is stated and the last message at which
  the loop departs from it is shown not to exist. `BudgetKeepsTheRecent` then needs the sums: the
  library has no theorem about folds, so `Cells` represents a sum as the
  cardinality of a set of pairs, and sums are added and compared by the theorems
  on cardinality.
* `AdmissionKept`, `TenantCapsHold`, `QuotaAlwaysConserved`: none is inductive. The
  inductive invariant has three parts. `PodInv`: pod permits are free or held by
  those in the places that hold them. `TenantInv`: what a request holds follows from its
  place, and the entry it is a user of is still its tenant's, since an entry is
  evicted or replaced only without users (`RequestKept`), and an entry's `active` is the
  number of its users (`TenantKept`). `QuotaInv`: the bucket as of its last
  refill rather than now, since that is when it was capped, and with the tokens used
  less those nobody paid (`Charged`). TLC checked all three on the instance of the run
  before they were proved.

### Model-checked only

Liveness (`StuckIsResolved`, `EventuallyPublished`, `FollowersServed`): the prover
has no rules for fairness and `ENABLED`. Everything else the passing runs check is
proved. Of the refinements, `ImplementsContract` is the only one stated.

---

## 7. Where the code and its documentation disagree

1. **A committed effect is repeated** (`MCWorkflowInferFails`, `AtMostOneEffect`).
   PLAYBOOK 627 says "A material request takes effect at most once". In
   `BaseAgent.run` the tool call of `_apply_policy()` comes before `_infer()`,
   the evaluation and the latency check. When one of these fails, the agent's key
   goes to `failed_keys` (base 1998) and `__settle_claim()` settles the claim
   as retryable although the tool call committed: the next delivery claims the
      key and calls again, although the first caller's answer carried the outcome
   COMMITTED (with failed keys beside it, base 1903–1907). The run has a failing
   model call as its only fault and no clock pressure. `MCWorkflow` has the same
   fault among others, and checks what still holds.

2. **A probe that is never recorded** (`MCResilienceProbe`, `ExactlyOneProbe`).
   The comment at base 570 says "exactly one half-open probe". `allow()` sets
   `_probing`, and only `record_success()` and `record_failure()` clear it. A
   probe that is cancelled, or ends with a deterministic or structural error,
   calls neither: the breaker counts a probe that no longer runs and refuses
   every call from then on. (Also, a call from before the circuit opened may fail
   during the probe and clear the flag while the probe still runs.)

The two above have a run that refutes the claim. The following were met in the same way;
the models have them, and the properties and premises are drawn around them:

3. **Some unknown outcomes are guessed.** PLAYBOOK 634: "An unknown outcome is never
   guessed"; 757 counts "a timeout, a dropped connection" as UNKNOWN; 769: "UNKNOWN is
   never routed to a blind retry". Only a timeout is typed UNKNOWN (base 2176). A
   connection that breaks after the request was sent is a plain failure (base 664), and
   so is a call whose bridge loop outlasts the agent's own bound (base 71): both are
   settled as retryable and sent again. `OnlyLostCallsAreRepeated`
   says that these two are all: it has them (`Lost`) as its exception, and without
   the exception the run violates it, with either fault alone.
   LANDING_ZONE 197 says the same of a commit "whose outcome is unknown after a
   timeout"; a store's exception is settled as retryable there too (cqrs 326–345,
   `CommitLost`), where the conditional commit makes the retry harmless
   (`AppliedOnce`).
4. **An interrupt is settled as success.** A `KeyboardInterrupt` or `SystemExit` passes
   `except Exception`, and `finally` finds neither failed keys nor an outcome:
   the record becomes SUCCEEDED although the call's fate is unknown (base 1888–1902),
   or although no commit was made (cqrs 326, 404–405). A redelivery replays an
   empty success, and no reconciler looks at it. `SettledTruthfully` and
   `SucceededMeansDone` name this as their exception.
5. **Unknown and abandoned requests are not queued.** PLAYBOOK 757–769 and LANDING_ZONE
   197 have an unknown outcome "parked as UNKNOWN for the reconciler", and the
   reconciler's work list is the dead-letter queue (`_fetch_dlq_entries`). A typed UNKNOWN
   appends nothing to `failed_keys`, a death appends nothing, so neither is queued
   (base 1903–1904): unless another failure of the request queued its key, or
   the deployment fills the queue by other means, nobody takes it over. Hence the
   premise `queued` of `StuckIsResolved`.
6. **A ttl decides correctness.** PLAYBOOK 718: "a store's TTL deletion is garbage
   collection only and must not decide correctness"; 709 gives an expired lease to
   reconcilers only. In the adapter the ttl runs out on a record that is UNKNOWN or in
   progress as on any other, and the key is claimable afresh although nobody knows
   its effect (adapters 38). `RecoveryIsReconcilers` ends at the expiry, and the
   theorems about `Workflow` have the premise `NoTtl`.
7. **Reads after writes.** LANDING_ZONE 189: a read immediately after a write "is
   guaranteed not to observe stale cached data". A load that was overtaken by a command
   leaves the older row in the cache until it expires (base 2595): see
   `ReadAfterWrite` in section 3.
8. **One loader.** PLAYBOOK 737 has "exactly one caller run the loader". Threads look the
   cache up before they take the lock, so one that missed early may load after
   another has filled the key; tasks do not (`OneFill`). Threads and tasks do not share
   flights.
9. **Followers may inherit an interruption.** The docstring of `_FlightAborted` (base
   2674–2675) says that followers "degrade instead of inheriting the cancellation". A
   task's leader converts `CancelledError` alone (base 2644–2649), a thread's
   `KeyboardInterrupt` and `SystemExit` alone (base 2685): a task's interrupt and a
   thread's `CancelledError` reach the followers as they are. `InterruptsStayHome` claims
   the two that are converted.

---

## 8. Behaviour seen that no property states

Consequences of the code met while modelling. The models contain those about
modelled parts. What a document speaks to is in section 7; of these none does.

* A key in FAILED_RETRYABLE is claimed without a look at the fingerprint
  (adapters 40).
* A replay refused by the fence, or whose answer was lost, is settled as
  retryable: a delivery may then repeat an effect that took place (base 2962).
* A write that the commit gate blocks is settled SUCCEEDED without an outcome and
  replays as that; nobody is told COMMITTED (`CommittedIsReal`). It returns no
  `physical_success` either (base 2131). A command that the gate rejects is settled
  SUCCEEDED too (cqrs 431), and a redelivery gets REPLAYED for a command that was
  never applied.
* `_get_agent` takes the score from its keyword arguments with 1.0 for none, where
  `_route_intent` takes it from the state, though a comment says they never drift
  apart (multimodal 333–336, 363).
* A caller may be told COMMITTED with a failed key beside it, and a later one
  NOT_COMMITTED (base 1900–1907): the first call committed, its model call failed,
  the record was released, and the second call was refused.
* A reconciler that is told NOT_COMMITTED of a delivery that is only slow replays
  what that delivery then sends as well: a delivery's call carries no fencing token
  (base 2954).
* A sweeper that dies or stalls after writing a record and before marking it leaves
  the record to be written again (base 2870). What "publish" means is the subclass's
  (PLAYBOOK 530), the consumer's de-duplication too.
* Fleet quota that a failing or cancelled hook took, or failed to give back, is
  returned by nobody (base 1639, 1667).
* `_resolve_tool_call` makes a fresh `MCPToolService`, and so a fresh policy, for
  each call of a wrapped MCP tool (base 2316), where the comment at base 2333 says why a
  policy must be shared. `Resilience` is about one policy, however it is shared.
* An attempt that the policy retries inside one inference request is charged to the
  requests-per-minute bucket once (base 1262).
* A deterministic failure that the agent swallows is settled as retryable
  (base 1772).
* The deadline is not looked at again after a backoff (base 685–690).
* `renew()` grants its default of 60 seconds because `sweep()` and `reconcile()`
  pass no ttl (adapters 170): with a longer lease a renewal shortens it. The
  models keep `RenewTtl` apart from `LeaseTtl` for that reason.
* A record whose hook always raises ends every sweep at that record: the records
  after it wait (base 2870).
* `drain()` returns True while a request that passed the draining check still
  waits for a permit; the request is sent afterwards (base 1205, 1558).
* A metrics hook that raises after admission leaks what was admitted
  (base 1614–1618); the models assume that hook returns.
* `set()` that fails after a successful load is told to the followers as the
  loader's failure (base 2595–2600).
* A loader's own `TimeoutError` is taken by the tasks that follow it for their
  wait timing out: each then loads by itself (base 2662).
* Two builds that both find no abstract class each generate it and may each delete it;
  the file may also be deleted after a later build registered anew, since deciding on
  the record and deleting the file are two steps (aidlc 519–528). The docstring (aidlc
  503–505) speaks of concurrent compensations of one record, which holds (`OneDeleter`).
* A build that failed before it claimed its key compensates from phase QUEUED and may
  delete the scaffold of the build that has it (aidlc 345).
* A build's claim has no ttl and nobody recovers it: a compensation that raises
  leaves the key unusable (aidlc 354).
* The generator key does not contain the tenant, the scope of its claim does
  (aidlc 375–378): two tenants with the same project, runtime, tool and
  platform share a scaffold and a reference to the class without excluding each other, and one's
  compensation undoes the other's build. The run and the theorems have keys of
  different tenants apart (`KeysApart`).

---

## 9. What is not modelled

* **Content of inference requests** but for the context budget (screening,
  redaction, tool schemas, output parsing, the hold-back of the streaming
  filter): string work on one request. A model of it would be the string, put
  together character by character.
* **A query without a cache store**: `fetch()` then runs a subclass's own hooks
  around the read, for one caller.
* **Preprocessing of modalities and the compiled graph** of the orchestrator, which
  `execute()` validates and does not run.
* **RAG, indexing, MCP server, prompts, memory, webhooks, schema transformation,
  validation**: one caller, hooks and pure functions.
* **Observability, configuration**: metrics are shipped out; configuration is
  immutable after import and appears as the constants.
* **Provisioning**: a sequence of cloud calls by one operator.
* **Optional collaborators that are absent.** The reconciler without an idempotency
  store, or for an entry without a key, replays with neither claim nor confirmation
  (base 2938, 2954): nothing then protects the replay, and no property could hold. The
  sweeper and the reconciler without a lock, or with `fencing_enabled` off, run
  unprotected likewise. A build without an idempotency store takes no claim (aidlc
  241), so `OneBuilder` would not hold; one without an artifact store keeps no
  ownership record and deletes no class (aidlc 408, 506). A command service without an
  entity key or a transactional store is modelled (`CommitNothing`); one without an
  idempotency store is not.
* **A load of one's own** after a wait that timed out (`cache_fill_on_timeout`) is
  modelled as ending in some way, with no flight behind it; how long waits last is
  not modelled: a wait may time out at any moment.
* **Inside modelled components**: `put` and `delete` of the transactional store
  (no modelled component calls them), the graph `_build_workflow` compiles, token
  accounting, logging. The system of record, the outbox table, governance
  decisions, loaders and all hooks are external: they may answer, refuse,
  raise or hang as the code that calls them allows.

---

## 10. Plan

The order was: the claim, since everything material rests on it; what uses it to
reach a system of record; what repairs it; the leased sweeper; then the shared
counters of a process; then the two further users of the claim.

*Proved* is said of all safety properties of the modules; liveness is checked.

| Step | Modules | State |
|---|---|---|
| 1 | `ClaimRecord`, `IdempotencyStore`, `ClaimContract` | checked and proved |
| 2 | `Workflow`, with routing and every kind of agent | checked and proved |
| 3 | `LeaseLock`, `Reconciliation` (composes `Workflow` and `LeaseLock`) | checked and proved |
| 4 | `OutboxSweeper` | checked and proved |
| 5 | `Resilience` | checked and proved |
| 6 | `LLMAdmission` with `ContextBudget` | checked and proved |
| 7 | `SingleFlight`, `QueryService` (composes it with the command path) | checked and proved |
| 8 | `CommandService` | checked and proved |
| 9 | `BuildPipeline` | checked and proved |
| 10 | an abstract specification of the workflow (one request, its effect and its answers), shown to be implemented where the code does | to do |
