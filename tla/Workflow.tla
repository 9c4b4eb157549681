------------------------------ MODULE Workflow ------------------------------
(***************************************************************************)
(* One request through BaseWorkflow.execute() of the multimodal            *)
(* orchestrator, the run() of the agent it is routed to, and a tool        *)
(* agent's call to a system of record.  The request is delivered several   *)
(* times (a client retry, a redelivered message), each delivery classified *)
(* anew and running execute() in a process of its own against one shared   *)
(* idempotency record.  Deliveries interleave at every point where another *)
(* process can see or change something: the claim, the tool call, the      *)
(* model call, the latency check and the settlement.                       *)
(***************************************************************************)
EXTENDS Integers

CONSTANTS
    Deliveries,
    Owners,        \* correlation ids
    OwnerOf,       \* each delivery's correlation id
    Contents,
    ContentOf,     \* each delivery's business content, without its intent
    RoutingsOf,    \* how the semantic router may classify each delivery
    Null,
    Governed,      \* the deliveries a governance engine gates
    Lease,         \* idempotency_lease_seconds
    Ttl,           \* idempotency_ttl_seconds
    Deadline,      \* request_deadline_seconds, 0 for none
    ToolTimeout,   \* timeout of a tool call
    Faults,        \* what may go wrong in this instance
    Prompt,        \* whether deliveries finish before their claim's lease lapses
    MaxTime        \* bound on the clock

AllFaults ==
    {"setup",      \* the graph, its validation or the agent lookup raises
     "agent",      \* something run() calls before the tool raises
     "blocked",    \* the tool service's commit gate refuses the write
     "rejected",   \* the system of record refuses the request
     "timeout",    \* no answer to the tool call in time
     "drop",       \* the tool call's connection breaks
     "bridge",     \* the loop that runs the tool call stalls past the agent's own bound
     "late",       \* a request nobody waits for any more may still be applied
     "infer",      \* the model call or the evaluation after it raises
     "slow",       \* run() exceeds max_latency
     "interrupt",  \* KeyboardInterrupt or SystemExit strikes execute() at work
     "crash"}      \* a process dies

\* The intents of agent_registry, and any other
ToolIntents == {"MCP_TOOL_CALL", "API_TOOL_CALL"}
AgentIntents == ToolIntents \cup {"RAG_GROUNDED", "LLM_ONLY"}
Intents == AgentIntents \cup {"NONE"}

\* confident: intent_score is at least min_confidence
Routings == [intent : Intents, confident : BOOLEAN]

ASSUME WorkflowAssumption ==
    /\ OwnerOf \in [Deliveries -> Owners]
    /\ ContentOf \in [Deliveries -> Contents]
    /\ RoutingsOf \in [Deliveries -> SUBSET Routings]
    /\ Governed \subseteq Deliveries
    /\ Lease \in Nat \ {0} /\ ToolTimeout \in Nat \ {0}
    /\ Ttl \in Nat /\ Deadline \in Nat /\ MaxTime \in Nat
    /\ Faults \subseteq AllFaults /\ Prompt \in BOOLEAN

Outcomes == {"COMMITTED", "NOT_COMMITTED", "UNKNOWN"}

\* _replayable_result(), reduced to the outcome it carries
ReplayableResults == {"COMMITTED", "NOT_COMMITTED", "NONE"}

\* _request_fingerprint(): the intent is part of the content, its score is not
Fingerprint(d, intent) == <<ContentOf[d], intent>>

Fingerprints ==
    UNION {{Fingerprint(d, r.intent) : r \in RoutingsOf[d]} : d \in Deliveries}

INSTANCE ClaimRecord WITH Results <- ReplayableResults

\* Null is neither a record nor a result
ASSUME NullIsNothing == Null \notin ClaimRecords \cup ReplayableResults

VARIABLES
    rec,           \* the request's idempotency record
    now,           \* monotonic clock
    pc,            \* where each delivery is in execute()
    att,           \* each delivery's local state
    reply,         \* what each delivery's caller got back
    inflight,      \* deliveries whose tool request the system of record has yet to handle
    committed      \* deliveries whose tool request took effect

vars == <<rec, now, pc, att, reply, inflight, committed>>

\* failed: failed_keys is not empty; error: what execute() itself caught;
\* interrupted: an exception that is no Exception is on its way out
Attempts ==
    [agent : AgentIntents \cup {"FALLBACK", "NONE"}, owned : BOOLEAN,
     outcome : Outcomes \cup {"NONE"}, failed : BOOLEAN, dehydrated : BOOLEAN,
     interrupted : BOOLEAN, error : {"none", "deterministic", "other"},
     deadline : Nat,  \* 0 for none
     leased : Nat,    \* when the claim's lease lapses
     until : Nat]     \* when the tool call's wait ends, 0 before it is sent

Places == {"new", "setup", "agent", "calling", "infer", "latency", "settle", "done", "dead"}

Replies ==
    ReplayableResults \cup {"none", "CONFLICT", "FAILED_FINAL", "IN_PROGRESS",
                            "RECOVERY_REQUIRED", "UNKNOWN", "FAILED", "AWAITING_WEBHOOK",
                            "INTERRUPTED"}

TypeOK ==
    /\ rec \in ClaimRecords \cup {Null}
    /\ now \in Nat
    /\ pc \in [Deliveries -> Places]
    /\ att \in [Deliveries -> Attempts]
    /\ reply \in [Deliveries -> Replies]
    /\ inflight \subseteq Deliveries
    /\ committed \subseteq Deliveries

NewAttempt ==
    [agent |-> "NONE", owned |-> FALSE,
     outcome |-> "NONE", failed |-> FALSE, dehydrated |-> FALSE,
     interrupted |-> FALSE, error |-> "none",
     deadline |-> 0, leased |-> 0, until |-> 0]

Init ==
    /\ rec = Null
    /\ now = 0
    /\ pc = [d \in Deliveries |-> "new"]
    /\ att = [d \in Deliveries |-> NewAttempt]
    /\ reply = [d \in Deliveries |-> "none"]
    /\ inflight = {}
    /\ committed = {}

-----------------------------------------------------------------------------
(* BaseWorkflow.execute() up to agent.run() *)

\* variant: the score is not looked at
AgentByIntent(r) == IF r.intent \in AgentIntents THEN r.intent ELSE "FALLBACK"

\* _get_agent()
AgentOf(r) == IF r.intent \in AgentIntents /\ r.confident THEN r.intent ELSE "FALLBACK"

\* _requires_idempotency_claim()
RequiresClaim(r) == r.intent \in ToolIntents /\ r.confident

Request(d, r) ==
    [owner |-> OwnerOf[d], fp |-> Fingerprint(d, r.intent), lease |-> Lease, ttl |-> Ttl,
     recover |-> FALSE]

Goto(d, place) == pc' = [pc EXCEPT ![d] = place]

ShortCircuit(d, status) ==
    /\ Goto(d, "done")
    /\ reply' = [reply EXCEPT ![d] = IF status = "REPLAY" THEN rec.result ELSE status]
    /\ UNCHANGED <<rec, att>>

StartWork(d, r) ==
    /\ Goto(d, "setup")
    /\ att' = [att EXCEPT ![d].agent = AgentOf(r),
                          ![d].owned = RequiresClaim(r),
                          ![d].deadline = IF Deadline = 0 THEN 0 ELSE now + Deadline,
                          ![d].leased = IF RequiresClaim(r) THEN now + Lease ELSE 0]
    /\ UNCHANGED reply

\* A generative read claims nothing
StartUnclaimed(d, r) ==
    /\ ~RequiresClaim(r)
    /\ StartWork(d, r)
    /\ UNCHANGED rec

Claim(d, r) ==
    LET status == ClaimStatus(rec, Request(d, r), now)
    IN  /\ RequiresClaim(r)
        /\ IF status = "CLAIMED"
           THEN StartWork(d, r) /\ rec' = AfterClaim(rec, Request(d, r), now)
           ELSE ShortCircuit(d, status)

Start(d) ==
    /\ pc[d] = "new"
    /\ \E r \in RoutingsOf[d] : StartUnclaimed(d, r) \/ Claim(d, r)
    /\ UNCHANGED <<now, inflight, committed>>

\* execute()'s own except clause: it sees the error
SetupFails(d, kind) ==
    /\ pc[d] = "setup" /\ "setup" \in Faults
    /\ att' = [att EXCEPT ![d].failed = TRUE, ![d].error = kind]
    /\ Goto(d, "settle")
    /\ UNCHANGED <<rec, now, reply, inflight, committed>>

SetupDone(d) ==
    /\ pc[d] = "setup"
    /\ Goto(d, "agent")
    /\ UNCHANGED <<rec, now, att, reply, inflight, committed>>

-----------------------------------------------------------------------------
(* BaseAgent.run() and LLMOnlyAgent.run() *)

\* run()'s except clause: the failure is recorded, the exception goes no further
Swallow(d) ==
    /\ att' = [att EXCEPT ![d].failed = TRUE]
    /\ Goto(d, "latency")

PastDeadline(d) == att[d].deadline # 0 /\ now >= att[d].deadline

\* An agent that is the model alone: neither gated nor timed
LLMOnlyRuns(d) ==
    /\ pc[d] = "agent" /\ att[d].agent = "LLM_ONLY"
    /\ \/ ~PastDeadline(d) /\ UNCHANGED att
       \/ ("infer" \in Faults \/ PastDeadline(d)) /\ att' = [att EXCEPT ![d].failed = TRUE]
    /\ Goto(d, "settle")
    /\ UNCHANGED <<rec, now, reply, inflight, committed>>

AtAgent(d) == pc[d] = "agent" /\ att[d].agent # "LLM_ONLY"

AgentRaises(d) ==
    /\ AtAgent(d) /\ "agent" \in Faults
    /\ Swallow(d)
    /\ UNCHANGED <<rec, now, reply, inflight, committed>>

\* The gate pauses the request for approval, or lets it through to the model
Dehydrate(d) ==
    /\ AtAgent(d) /\ d \in Governed
    /\ att' = [att EXCEPT ![d].dehydrated = TRUE]
    /\ Goto(d, "settle")
    /\ UNCHANGED <<rec, now, reply, inflight, committed>>

GatePasses(d) ==
    /\ AtAgent(d) /\ d \in Governed
    /\ Goto(d, "infer")
    /\ UNCHANGED <<rec, now, att, reply, inflight, committed>>

\* _apply_policy() of the RAG and the fallback agent does nothing
NoTool(d) ==
    /\ AtAgent(d) /\ d \notin Governed
    /\ att[d].agent \notin ToolIntents
    /\ Goto(d, "infer")
    /\ UNCHANGED <<rec, now, att, reply, inflight, committed>>

\* _apply_policy() of the tool agents calls the tool service
AtTool(d) == AtAgent(d) /\ d \notin Governed /\ att[d].agent \in ToolIntents

\* _commit_gate(): a stale version sends nothing, and the refusal is a result
\* without an outcome
GateBlocks(d) ==
    /\ AtTool(d) /\ "blocked" \in Faults
    /\ Goto(d, "infer")
    /\ UNCHANGED <<rec, now, att, reply, inflight, committed>>

\* ResiliencePolicy.call() checks the deadline before it sends anything
DeadlineRefusesCall(d) ==
    /\ AtTool(d) /\ PastDeadline(d)
    /\ Swallow(d)
    /\ UNCHANGED <<rec, now, reply, inflight, committed>>

\* The wait for the answer is bounded by the timeout and the deadline
CallEnds(d) ==
    IF att[d].deadline # 0 /\ att[d].deadline < now + ToolTimeout
    THEN att[d].deadline ELSE now + ToolTimeout

CallTool(d) ==
    /\ AtTool(d) /\ ~PastDeadline(d)
    /\ att' = [att EXCEPT ![d].until = CallEnds(d)]
    /\ inflight' = inflight \cup {d}
    /\ Goto(d, "calling")
    /\ UNCHANGED <<rec, now, reply, committed>>

\* Once nobody waits for it, a request is applied only if it may arrive late
Abandon(d) ==
    inflight' = IF "late" \in Faults THEN inflight ELSE inflight \ {d}

\* variant: the answer is believed without its physical_success
ReportedAnyway(d) == "COMMITTED"

\* the typed outcome of an answered call
Reported(d) == IF d \in committed THEN "COMMITTED" ELSE "NOT_COMMITTED"

ToolAnswers(d) ==
    /\ pc[d] = "calling" /\ d \notin inflight
    /\ att' = [att EXCEPT ![d].outcome = Reported(d)]
    /\ Goto(d, "infer")
    /\ UNCHANGED <<rec, now, reply, inflight, committed>>

\* variant: a timeout is a plain failure
OutcomeOfTimeoutPlain == "NOT_COMMITTED"

\* __http_post(): a timeout is a typed UNKNOWN, whatever became of the request
OutcomeOfTimeout == "UNKNOWN"

ToolTimesOut(d) ==
    /\ pc[d] = "calling" /\ "timeout" \in Faults
    /\ att' = [att EXCEPT ![d].outcome = OutcomeOfTimeout]
    /\ Abandon(d)
    /\ Goto(d, "infer")
    /\ UNCHANGED <<rec, now, reply, committed>>

\* any other transport error is raised through _apply_policy(): no outcome
ToolDrops(d) ==
    /\ pc[d] = "calling" /\ "drop" \in Faults
    /\ Abandon(d)
    /\ Swallow(d)
    /\ UNCHANGED <<rec, now, reply, committed>>

\* _run_on_bridge_loop(): the agent's thread stops waiting for the loop, the call
\* is cancelled or its late answer dropped, and no outcome is known
BridgeExpires(d) ==
    /\ pc[d] = "calling" /\ "bridge" \in Faults
    /\ now >= att[d].until
    /\ Abandon(d)
    /\ Swallow(d)
    /\ UNCHANGED <<rec, now, reply, committed>>

\* the model service rejects a request past its deadline
InferFails(d) ==
    /\ pc[d] = "infer"
    /\ "infer" \in Faults \/ PastDeadline(d)
    /\ Swallow(d)
    /\ UNCHANGED <<rec, now, reply, inflight, committed>>

\* response, evaluation, and the fallback answer of an effect not committed
InferDone(d) ==
    /\ pc[d] = "infer" /\ ~PastDeadline(d)
    /\ Goto(d, "latency")
    /\ UNCHANGED <<rec, now, att, reply, inflight, committed>>

\* the latency SLO is checked last, outside run()'s try
SloBreached(d) ==
    /\ pc[d] = "latency" /\ "slow" \in Faults
    /\ att' = [att EXCEPT ![d].failed = TRUE, ![d].error = "other"]
    /\ Goto(d, "settle")
    /\ UNCHANGED <<rec, now, reply, inflight, committed>>

SloMet(d) ==
    /\ pc[d] = "latency"
    /\ Goto(d, "settle")
    /\ UNCHANGED <<rec, now, att, reply, inflight, committed>>

\* An interrupt is no Exception: neither except clause sees it, failed_keys stays
\* as it is, the bridge cancels the call under way, and execute()'s finally settles
Interrupt(d) ==
    /\ pc[d] \in {"setup", "agent", "calling", "infer", "latency"} /\ "interrupt" \in Faults
    /\ att' = [att EXCEPT ![d].interrupted = TRUE]
    /\ Abandon(d)
    /\ Goto(d, "settle")
    /\ UNCHANGED <<rec, now, reply, committed>>

-----------------------------------------------------------------------------
(* __settle_claim() and the return of execute() *)

ReplayableResult(a) == IF a.outcome = "UNKNOWN" THEN "NONE" ELSE a.outcome

\* variant: an unknown outcome is claimable again
SettledUnparked(r, o, a) ==
    IF a.dehydrated \/ a.outcome = "UNKNOWN" THEN AfterFail(r, o, TRUE, FALSE)
    ELSE IF a.failed THEN AfterFail(r, o, a.error # "deterministic", FALSE)
    ELSE AfterComplete(r, o, ReplayableResult(a))

Settled(r, o, a) ==
    IF a.dehydrated THEN AfterFail(r, o, TRUE, FALSE)
    ELSE IF a.outcome = "UNKNOWN" THEN AfterFail(r, o, FALSE, TRUE)
    ELSE IF a.failed THEN AfterFail(r, o, a.error # "deterministic", FALSE)
    ELSE AfterComplete(r, o, ReplayableResult(a))

\* The state returned keeps its outcome, even when the call's request failed later
Answer(a) ==
    IF a.interrupted THEN "INTERRUPTED"
    ELSE IF a.dehydrated THEN "AWAITING_WEBHOOK"
    ELSE IF a.outcome = "NONE" /\ a.failed THEN "FAILED" ELSE a.outcome

\* The locals go; failed_keys is returned with the state; history: what the
\* properties ask of a call made
Remembered(a) ==
    [NewAttempt EXCEPT !.owned = a.owned, !.outcome = a.outcome, !.until = a.until,
                       !.failed = a.failed, !.interrupted = a.interrupted]

Settle(d) ==
    /\ pc[d] = "settle"
    /\ rec' = IF att[d].owned THEN Settled(rec, OwnerOf[d], att[d]) ELSE rec
    /\ reply' = [reply EXCEPT ![d] = Answer(att[d])]
    /\ att' = [att EXCEPT ![d] = Remembered(@)]
    /\ Goto(d, "done")
    /\ UNCHANGED <<now, inflight, committed>>

-----------------------------------------------------------------------------
(* The system of record, process deaths and time *)

Apply(d) ==
    /\ d \in inflight
    /\ committed' = committed \cup {d}
    /\ inflight' = inflight \ {d}
    /\ UNCHANGED <<rec, now, pc, att, reply>>

Reject(d) ==
    /\ d \in inflight /\ "rejected" \in Faults
    /\ inflight' = inflight \ {d}
    /\ UNCHANGED <<rec, now, pc, att, reply, committed>>

Working(d) == pc[d] \notin {"new", "done", "dead"}

Crash(d) ==
    /\ Working(d) /\ "crash" \in Faults
    /\ Goto(d, "dead")
    /\ Abandon(d)
    /\ UNCHANGED <<rec, now, att, reply, committed>>

\* asyncio.wait_for() ends a tool call at its bound.  A prompt instance sizes
\* the claim's lease above the longest execution; in any other, a delivery may
\* stall at any point for as long as the clock runs.
Tick ==
    /\ now < MaxTime
    /\ \A d \in Deliveries : pc[d] = "calling" => now < att[d].until
    /\ Prompt => \A d \in Deliveries : Working(d) /\ att[d].owned => now + 1 < att[d].leased
    /\ now' = now + 1
    /\ UNCHANGED <<rec, pc, att, reply, inflight, committed>>

Step(d) ==
    \/ Start(d) \/ SetupDone(d) \/ Dehydrate(d) \/ GatePasses(d)
    \/ AgentRaises(d) \/ LLMOnlyRuns(d) \/ NoTool(d)
    \/ GateBlocks(d) \/ DeadlineRefusesCall(d) \/ CallTool(d)
    \/ ToolAnswers(d) \/ ToolTimesOut(d) \/ ToolDrops(d) \/ BridgeExpires(d)
    \/ InferFails(d) \/ InferDone(d) \/ SloBreached(d) \/ SloMet(d) \/ Settle(d)
    \/ Interrupt(d)
    \/ \E kind \in {"deterministic", "other"} : SetupFails(d, kind)

\* Every delivery has been answered or has died
Finished ==
    /\ \A d \in Deliveries : pc[d] \in {"done", "dead"}
    /\ UNCHANGED vars

Next ==
    \/ \E d \in Deliveries : Step(d) \/ Apply(d) \/ Reject(d) \/ Crash(d)
    \/ Tick
    \/ Finished

Spec == Init /\ [][Next]_vars

-----------------------------------------------------------------------------
(* Properties *)

\* A material request takes effect at most once, however often it is delivered
\* and wherever deliveries fail.
AtMostOneEffect == \A d, e \in committed : d = e

\* d's tool request left and no answer says what became of it: a timeout, a broken
\* connection, a bridge that gave up, an interrupt, or d died or still works
Uncertain(d) ==
    /\ att[d].until # 0
    /\ att[d].outcome \notin {"COMMITTED", "NOT_COMMITTED"} \/ Working(d) \/ pc[d] = "dead"

\* d's answer was lost to a broken connection or a bridge that gave up, and d was
\* settled as a plain failure
Lost(d) == pc[d] = "done" /\ att[d].failed /\ att[d].outcome = "NONE"

\* "An unknown outcome is never guessed": no delivery sends the tool request
\* while an earlier one's has no answer, but after a broken connection or a bridge
\* that gave up.  These two the code settles as failures and sends again.
OnlyLostCallsAreRepeated ==
    [][\A d, e \in Deliveries :
          pc[d] = "agent" /\ pc'[d] = "calling" /\ e # d /\ Uncertain(e) => Lost(e)]_vars

\* d's caller was answered o, with no failed_keys beside it
Told(d, o) == reply[d] = o /\ ~att[d].failed

\* No two callers are told contradicting outcomes of the one request, but by
\* answers that carry failed_keys.
RepliesAgree ==
    \A d, e \in Deliveries : ~(Told(d, "COMMITTED") /\ Told(e, "NOT_COMMITTED"))

\* A caller told COMMITTED has its effect, whatever fails, its own request included.
CommittedIsReal ==
    \A d \in Deliveries : reply[d] = "COMMITTED" => committed # {}

\* d's claim is not done with: d works, died at work, or left it unknown
Holds(d) ==
    att[d].owned /\ (Working(d) \/ pc[d] = "dead" \/ att[d].outcome = "UNKNOWN")

\* Two deliveries never hold the claim at a time, however long one of them
\* stalls, dies or leaves its outcome unknown: without a reconciler (and without
\* a ttl) an expired claim is handed to nobody.
OneHolder == \A d, e \in Deliveries : Holds(d) /\ Holds(e) => d = e

\* A claim held is a record in progress or unknown, and its holder's while the
\* holder works; no record is forgotten.
HeldClaim ==
    /\ rec # Null => rec.expires_at = 0
    /\ \A d \in Deliveries :
          /\ Holds(d) => rec # Null /\ rec.state \in {"IN_PROGRESS", "UNKNOWN"}
          /\ att[d].owned /\ Working(d) =>
                rec # Null /\ rec.state = "IN_PROGRESS" /\ rec.owner = OwnerOf[d]

\* Nothing reaches a tool but under a claim, for the claim and the dispatch judge
\* the intent and its score alike; and nothing follows a pause.
EffectsAreClaimed ==
    \A d \in Deliveries :
        /\ \/ att[d].agent \in ToolIntents \/ pc[d] = "calling" \/ att[d].until # 0
           \/ att[d].outcome # "NONE" \/ d \in inflight \cup committed
           => att[d].owned
        /\ pc[d] \in {"new", "setup", "agent"} =>
              att[d].outcome = "NONE" /\ att[d].until = 0 /\ d \notin inflight \cup committed
        /\ att[d].dehydrated => pc[d] \in {"settle", "dead"} /\ att[d].outcome = "NONE"

\* What is stored and what callers were told is the outcome the calls had.
AnswersAreStored ==
    /\ \A d \in Deliveries : att[d].outcome = "COMMITTED" => d \in committed
    /\ rec # Null /\ rec.state = "SUCCEEDED" =>
          rec.result \in ReplayableResults /\ (rec.result = "COMMITTED" => committed # {})
    /\ \A d \in Deliveries, o \in {"COMMITTED", "NOT_COMMITTED"} :
          Told(d, o) => rec # Null /\ rec.state = "SUCCEEDED" /\ rec.result = o
    /\ CommittedIsReal

\* Whose the claim is, what the record says and what calls were made agree: the
\* inductive invariant of an instance without a ttl.
WorkflowInv ==
    TypeOK /\ OneHolder /\ HeldClaim /\ EffectsAreClaimed /\ AnswersAreStored
=============================================================================
