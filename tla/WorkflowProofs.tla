--------------------------- MODULE WorkflowProofs ---------------------------
(***************************************************************************)
(* Theorems about the workflow, for any deliveries, routings, faults,      *)
(* leases, deadlines and clock bounds, when records do not expire; and,    *)
(* in its second half, about the workflow with any reconcilers beside it.  *)
(***************************************************************************)
EXTENDS Reconciliation, TLAPS

\* idempotency_ttl_seconds = 0
NoTtl == Ttl = 0

-----------------------------------------------------------------------------
(* The claim *)

\* A claim of a delivery is granted on a vacant record only.
LEMMA GrantedOnVacant ==
    ASSUME NEW d \in Deliveries, NEW r \in Routings,
           ClaimStatus(rec, Request(d, r), now) = "CLAIMED"
    PROVE  Vacant(rec, now) /\ AfterClaim(rec, Request(d, r), now) = FreshRecord(Request(d, r), now)
<1>1. ~Request(d, r).recover
  BY DEF Request
<1>2. Vacant(rec, now)
  BY <1>1 DEF ClaimStatus
<1> QED
  BY <1>2 DEF AfterClaim

\* The record it leaves is a new one of the delivery's owner.
LEMMA FreshClaim ==
    ASSUME NEW d \in Deliveries, NEW r \in RoutingsOf[d], now \in Nat
    PROVE  /\ FreshRecord(Request(d, r), now) \in ClaimRecords
           /\ FreshRecord(Request(d, r), now) # Null
           /\ FreshRecord(Request(d, r), now).state = "IN_PROGRESS"
           /\ FreshRecord(Request(d, r), now).owner = OwnerOf[d]
           /\ FreshRecord(Request(d, r), now).lease_until = now + Lease
           /\ NoTtl => FreshRecord(Request(d, r), now).expires_at = 0
<1>1. /\ OwnerOf[d] \in Owners /\ Fingerprint(d, r.intent) \in Fingerprints
      /\ Lease \in Nat /\ Ttl \in Nat
  BY WorkflowAssumption DEF Fingerprints
<1>2. now + Lease \in Nat /\ now + Ttl \in Nat
  BY <1>1
<1>3. FreshRecord(Request(d, r), now) \in ClaimRecords
  BY <1>1, <1>2 DEF FreshRecord, Request, ClaimRecords, ClaimStates
<1> QED
  BY <1>3, NullIsNothing DEF FreshRecord, Request, NoTtl

\* What a settlement leaves of a record.
LEMMA SettledRecord ==
    ASSUME NEW rc \in ClaimRecords \cup {Null}, NEW o \in Owners, NEW a \in Attempts
    PROVE  /\ Settled(rc, o, a) \in ClaimRecords \cup {Null}
           /\ ~OwnedBy(rc, o) => Settled(rc, o, a) = rc
           /\ OwnedBy(rc, o) =>
                 /\ Settled(rc, o, a) # Null
                 /\ Settled(rc, o, a).expires_at = rc.expires_at
                 /\ IF ~a.dehydrated /\ a.outcome # "UNKNOWN" /\ ~a.failed
                    THEN /\ Settled(rc, o, a).state = "SUCCEEDED"
                         /\ Settled(rc, o, a).result = ReplayableResult(a)
                    ELSE Settled(rc, o, a).state # "SUCCEEDED"
                 /\ ~a.dehydrated /\ a.outcome = "UNKNOWN" =>
                       Settled(rc, o, a).state = "UNKNOWN"
<1>1. ReplayableResult(a) \in ReplayableResults
  BY DEF ReplayableResult, ReplayableResults, Attempts, Outcomes
<1>2. ASSUME ~OwnedBy(rc, o) PROVE Settled(rc, o, a) = rc
  BY <1>2 DEF Settled, AfterFail, AfterComplete
<1>3. ASSUME OwnedBy(rc, o), NEW st \in ClaimStates
      PROVE  /\ [rc EXCEPT !.state = st] \in ClaimRecords
             /\ [rc EXCEPT !.state = st].state = st
             /\ [rc EXCEPT !.state = st].expires_at = rc.expires_at
  BY <1>3 DEF OwnedBy, ClaimRecords
<1>4. ASSUME OwnedBy(rc, o)
      PROVE  /\ AfterComplete(rc, o, ReplayableResult(a)) \in ClaimRecords
             /\ AfterComplete(rc, o, ReplayableResult(a)).state = "SUCCEEDED"
             /\ AfterComplete(rc, o, ReplayableResult(a)).result = ReplayableResult(a)
             /\ AfterComplete(rc, o, ReplayableResult(a)).expires_at = rc.expires_at
  BY <1>1, <1>4 DEF OwnedBy, AfterComplete, ClaimRecords, ClaimStates
<1>5. ASSUME OwnedBy(rc, o), NEW retryable \in BOOLEAN, NEW unknown \in BOOLEAN
      PROVE  /\ AfterFail(rc, o, retryable, unknown) \in ClaimRecords
             /\ AfterFail(rc, o, retryable, unknown).state = FailureState(retryable, unknown)
             /\ AfterFail(rc, o, retryable, unknown).expires_at = rc.expires_at
  <2>1. FailureState(retryable, unknown) \in ClaimStates
    BY DEF FailureState, ClaimStates
  <2> QED
    BY <1>3, <1>5, <2>1 DEF AfterFail
<1>6. CASE OwnedBy(rc, o)
  <2>1. CASE a.dehydrated
    BY <1>5, <1>6, <2>1, NullIsNothing DEF Settled, FailureState
  <2>2. CASE ~a.dehydrated /\ a.outcome = "UNKNOWN"
    BY <1>5, <1>6, <2>2, NullIsNothing DEF Settled, FailureState
  <2>3. CASE ~a.dehydrated /\ a.outcome # "UNKNOWN" /\ a.failed
    BY <1>5, <1>6, <2>3, NullIsNothing DEF Settled, FailureState
  <2>4. CASE ~a.dehydrated /\ a.outcome # "UNKNOWN" /\ ~a.failed
    BY <1>4, <1>6, <2>4, NullIsNothing DEF Settled
  <2> QED
    BY <2>1, <2>2, <2>3, <2>4 DEF Attempts
<1> QED
  BY <1>2, <1>6

-----------------------------------------------------------------------------
(* Steps of a delivery at work *)

\* What calls were made, and what is stored of them, whoever shares the record.
CallsInv ==
    /\ TypeOK
    /\ EffectsAreClaimed
    /\ \A d \in Deliveries : att[d].outcome = "COMMITTED" => d \in committed
    /\ rec # Null /\ rec.state = "SUCCEEDED" => rec.result \in ReplayableResults

\* d goes from its place of work to another or dies, its local state becomes a,
\* and neither the record nor an answer changes.
Moves(d, a, place) ==
    /\ Working(d) /\ a \in Attempts /\ place \in Places \ {"new", "done"}
    /\ att' = [att EXCEPT ![d] = a]
    /\ pc' = [pc EXCEPT ![d] = place]
    /\ rec' = rec /\ now' = now /\ reply' = reply /\ committed' = committed
    /\ inflight' \subseteq inflight \cup {d}
    /\ d \in inflight' => a.owned
    /\ a.owned = att[d].owned /\ a.agent = att[d].agent /\ a.leased = att[d].leased
    /\ place = "calling" \/ a.until # 0 \/ a.outcome # "NONE" => a.owned
    /\ place \in {"setup", "agent"} =>
          a.outcome = "NONE" /\ a.until = 0 /\ d \notin inflight' \cup committed
    /\ a.dehydrated => place \in {"settle", "dead"} /\ a.outcome = "NONE"
    /\ a.outcome = "COMMITTED" => d \in committed
    /\ (att[d].failed => a.failed) /\ (att[d].interrupted => a.interrupted)

\* Such a step keeps CallsInv,
LEMMA MovesKeepCalls ==
    ASSUME CallsInv, NEW d \in Deliveries, NEW a, NEW place, Moves(d, a, place)
    PROVE  CallsInv'
<1>1. /\ att'[d] = a /\ pc'[d] = place
      /\ \A e \in Deliveries \ {d} : att'[e] = att[e] /\ pc'[e] = pc[e]
  BY DEF Moves, CallsInv, TypeOK
<1>2. TypeOK'
  BY DEF Moves, CallsInv, TypeOK
<1>3. EffectsAreClaimed'
  BY <1>1 DEF EffectsAreClaimed, CallsInv, Moves, Working
<1> QED
  BY <1>1, <1>2, <1>3 DEF CallsInv, Moves

\* and the workflow's invariant.
LEMMA MovesKeep ==
    ASSUME WorkflowInv, NEW d \in Deliveries, NEW a, NEW place, Moves(d, a, place)
    PROVE  WorkflowInv'
<1> USE DEF WorkflowInv
<1>1. /\ att'[d] = a /\ pc'[d] = place
      /\ \A e \in Deliveries \ {d} : att'[e] = att[e] /\ pc'[e] = pc[e]
  BY DEF Moves, TypeOK
<1>2. CallsInv'
  BY MovesKeepCalls DEF CallsInv, AnswersAreStored
<1>3. \A e \in Deliveries : Holds(e)' => Holds(e)
  BY <1>1 DEF Moves, Holds, Working
<1>4. \A e \in Deliveries : Working(e)' => Working(e) /\ att'[e].owned = att[e].owned
  BY <1>1 DEF Moves, Working
<1>5. OneHolder'
  BY <1>3 DEF OneHolder
<1>6. HeldClaim'
  BY <1>3, <1>4 DEF HeldClaim, Moves
<1>7. AnswersAreStored'
  <2>1. \A e \in Deliveries, o \in {"COMMITTED", "NOT_COMMITTED"} : Told(e, o)' => Told(e, o)
    BY <1>1 DEF Told, Moves
  <2> QED
    BY <1>1, <2>1 DEF AnswersAreStored, CommittedIsReal, Moves
<1> QED
  BY <1>2, <1>5, <1>6, <1>7 DEF CallsInv

\* A delivery at work that leaves its record of the call alone.
LEMMA PlainMove ==
    ASSUME CallsInv, NEW d \in Deliveries, Working(d), NEW place \in Places \ {"new", "done"},
           place = "calling" => pc[d] = "calling",
           place \in {"setup", "agent"} => pc[d] \in {"setup", "agent"},
           att[d].dehydrated => place \in {"settle", "dead"},
           NEW f \in BOOLEAN, NEW err \in {"none", "deterministic", "other"},
           att[d].failed => f,
           att' = [att EXCEPT ![d] = [@ EXCEPT !.failed = f, !.error = err]],
           Goto(d, place), inflight' \subseteq inflight,
           UNCHANGED <<rec, now, reply, committed>>
    PROVE  \E a, pl : Moves(d, a, pl)
<1> DEFINE a == [att[d] EXCEPT !.failed = f, !.error = err]
<1>1. att[d] \in Attempts
  BY DEF CallsInv, TypeOK
<1>2. /\ a \in Attempts
      /\ a.owned = att[d].owned /\ a.agent = att[d].agent /\ a.leased = att[d].leased
      /\ a.until = att[d].until /\ a.failed = f /\ a.interrupted = att[d].interrupted
      /\ a.outcome = att[d].outcome /\ a.dehydrated = att[d].dehydrated
  BY <1>1 DEF Attempts
<1>3. att' = [att EXCEPT ![d] = a]
  BY DEF CallsInv, TypeOK
<1> HIDE DEF a
<1>4. Moves(d, a, place)
  BY <1>2, <1>3 DEF Moves, CallsInv, EffectsAreClaimed, Goto
<1> QED
  BY <1>4

\* Swallow() is such a move, to the latency check.
LEMMA SwallowMoves ==
    ASSUME CallsInv, NEW d \in Deliveries, pc[d] \in {"agent", "calling", "infer"},
           Swallow(d), inflight' \subseteq inflight, UNCHANGED <<rec, now, reply, committed>>
    PROVE  \E a, place : Moves(d, a, place)
<1>1. Working(d) /\ ~att[d].dehydrated
  BY DEF Working, CallsInv, EffectsAreClaimed
<1>2. att[d].error \in {"none", "deterministic", "other"} /\ att[d] \in Attempts
  BY DEF CallsInv, TypeOK, Attempts
<1>3. [att[d] EXCEPT !.failed = TRUE, !.error = att[d].error] = [att[d] EXCEPT !.failed = TRUE]
  BY <1>2 DEF Attempts
<1>4. att' = [att EXCEPT ![d] = [@ EXCEPT !.failed = TRUE, !.error = att[d].error]]
  BY <1>3 DEF Swallow, CallsInv, TypeOK
<1> QED
  BY <1>1, <1>2, <1>4, PlainMove DEF Swallow, Places

\* A delivery that only goes on.
LEMMA GoesOn ==
    ASSUME CallsInv, NEW d \in Deliveries, Working(d),
           NEW place \in Places \ {"new", "done", "calling"},
           place \in {"setup", "agent"} => pc[d] = "setup",
           pc[d] # "settle" \/ place = "dead", Goto(d, place),
           att' = att, inflight' \subseteq inflight, UNCHANGED <<rec, now, reply, committed>>
    PROVE  \E a, pl : Moves(d, a, pl)
<1>1. att[d].dehydrated => place \in {"settle", "dead"}
  BY DEF Working, CallsInv, EffectsAreClaimed
<1>2. /\ att[d].error \in {"none", "deterministic", "other"} /\ att[d].failed \in BOOLEAN
      /\ att[d] \in Attempts
  BY DEF CallsInv, TypeOK, Attempts
<1>3. [att[d] EXCEPT !.failed = att[d].failed, !.error = att[d].error] = att[d]
  BY <1>2 DEF Attempts
<1>4. att' = [att EXCEPT ![d] = [@ EXCEPT !.failed = att[d].failed, !.error = att[d].error]]
  BY <1>3 DEF CallsInv, TypeOK
<1> QED
  BY <1>1, <1>2, <1>4, PlainMove

\* A new outcome of the call, reported by a delivery that waits for it.
LEMMA OutcomeMoves ==
    ASSUME CallsInv, NEW d \in Deliveries, pc[d] = "calling",
           NEW o \in Outcomes, o = "COMMITTED" => d \in committed,
           att' = [att EXCEPT ![d].outcome = o], Goto(d, "infer"),
           inflight' \subseteq inflight, UNCHANGED <<rec, now, reply, committed>>
    PROVE  \E a, place : Moves(d, a, place)
<1> DEFINE a == [att[d] EXCEPT !.outcome = o]
<1>1. att[d] \in Attempts /\ att[d].owned /\ ~att[d].dehydrated
  BY DEF CallsInv, TypeOK, EffectsAreClaimed
<1>2. /\ a \in Attempts /\ a.outcome = o
      /\ a.owned = att[d].owned /\ a.agent = att[d].agent /\ a.leased = att[d].leased
      /\ a.dehydrated = att[d].dehydrated /\ a.failed = att[d].failed
      /\ a.interrupted = att[d].interrupted
  BY <1>1 DEF Attempts
<1>3. att' = [att EXCEPT ![d] = a]
  BY DEF CallsInv, TypeOK
<1> HIDE DEF a
<1>4. Moves(d, a, "infer")
  BY <1>1, <1>2, <1>3 DEF Moves, Goto, Working, Places
<1> QED
  BY <1>4

\* The tool call is sent under the claim.
LEMMA CallMoves ==
    ASSUME CallsInv, NEW d \in Deliveries, CallTool(d)
    PROVE  \E a, place : Moves(d, a, place)
<1> DEFINE a == [att[d] EXCEPT !.until = CallEnds(d)]
<1>1. att[d] \in Attempts /\ att[d].owned /\ ~att[d].dehydrated /\ att[d].outcome = "NONE"
  BY DEF CallsInv, TypeOK, EffectsAreClaimed, CallTool, AtTool, AtAgent
<1>2. CallEnds(d) \in Nat
  BY <1>1, WorkflowAssumption DEF CallEnds, CallsInv, TypeOK, Attempts
<1>3. /\ a \in Attempts /\ a.outcome = "NONE"
      /\ a.owned = att[d].owned /\ a.agent = att[d].agent /\ a.leased = att[d].leased
      /\ a.dehydrated = att[d].dehydrated /\ a.failed = att[d].failed
      /\ a.interrupted = att[d].interrupted
  BY <1>1, <1>2 DEF Attempts
<1>4. att' = [att EXCEPT ![d] = a] /\ inflight' = inflight \cup {d}
  BY DEF CallsInv, TypeOK, CallTool
<1> HIDE DEF a
<1>5. Moves(d, a, "calling")
  BY <1>1, <1>3, <1>4 DEF Moves, Goto, Working, Places, CallTool, AtTool, AtAgent
<1> QED
  BY <1>5

\* The gate pauses a delivery that has called nothing.
LEMMA PauseMoves ==
    ASSUME CallsInv, NEW d \in Deliveries, Dehydrate(d)
    PROVE  \E a, place : Moves(d, a, place)
<1> DEFINE a == [att[d] EXCEPT !.dehydrated = TRUE]
<1>1. att[d] \in Attempts /\ att[d].outcome = "NONE"
  BY DEF CallsInv, TypeOK, EffectsAreClaimed, Dehydrate, AtAgent
<1>2. /\ a \in Attempts /\ a.outcome = "NONE" /\ a.until = att[d].until
      /\ a.owned = att[d].owned /\ a.agent = att[d].agent /\ a.leased = att[d].leased
      /\ a.failed = att[d].failed /\ a.interrupted = att[d].interrupted
  BY <1>1 DEF Attempts
<1>3. att' = [att EXCEPT ![d] = a]
  BY DEF CallsInv, TypeOK, Dehydrate
<1> HIDE DEF a
<1>4. Moves(d, a, "settle")
  BY <1>1, <1>2, <1>3 DEF Moves, Goto, Working, Places, Dehydrate, AtAgent, CallsInv,
     EffectsAreClaimed
<1> QED
  BY <1>4

\* An error that execute() or its caller's latency check sees.
LEMMA ErrorMoves ==
    ASSUME CallsInv, NEW d \in Deliveries, pc[d] \in {"setup", "latency"},
           NEW kind \in {"deterministic", "other"},
           att' = [att EXCEPT ![d].failed = TRUE, ![d].error = kind], Goto(d, "settle"),
           UNCHANGED <<rec, now, reply, inflight, committed>>
    PROVE  \E a, place : Moves(d, a, place)
<1>1. att[d] \in Attempts /\ Working(d)
  BY DEF CallsInv, TypeOK, Working
<1>2. att' = [att EXCEPT ![d] = [@ EXCEPT !.failed = TRUE, !.error = kind]]
  BY DEF CallsInv, TypeOK
<1> QED
  BY <1>1, <1>2, PlainMove DEF Places

\* Once nobody waits for it, no request is sent anew.
LEMMA AbandonedOnly ==
    ASSUME NEW d \in Deliveries, Abandon(d)
    PROVE  inflight' \subseteq inflight
  BY DEF Abandon

\* An interrupt sends a delivery to its settlement.
LEMMA InterruptMoves ==
    ASSUME CallsInv, NEW d \in Deliveries, Interrupt(d)
    PROVE  \E a, place : Moves(d, a, place)
<1> DEFINE a == [att[d] EXCEPT !.interrupted = TRUE]
<1>1. att[d] \in Attempts /\ ~att[d].dehydrated /\ Working(d)
  BY DEF CallsInv, TypeOK, EffectsAreClaimed, Interrupt, Working
<1>2. /\ a \in Attempts /\ a.interrupted /\ a.failed = att[d].failed
      /\ a.until = att[d].until /\ a.outcome = att[d].outcome
      /\ a.owned = att[d].owned /\ a.agent = att[d].agent /\ a.leased = att[d].leased
      /\ a.dehydrated = att[d].dehydrated
  BY <1>1 DEF Attempts
<1>3. att' = [att EXCEPT ![d] = a] /\ inflight' \subseteq inflight
  BY AbandonedOnly DEF CallsInv, TypeOK, Interrupt
<1> HIDE DEF a
<1>4. Moves(d, a, "settle")
  BY <1>1, <1>2, <1>3 DEF Moves, Goto, Places, Interrupt, CallsInv, EffectsAreClaimed
<1> QED
  BY <1>4

\* Every step of a delivery but its first and its last is such a move.
LEMMA StepCases ==
    ASSUME CallsInv, NEW d \in Deliveries, Step(d) \/ Crash(d)
    PROVE  Start(d) \/ Settle(d) \/ \E a, place : Moves(d, a, place)
<1>1. CASE SetupDone(d) \/ GatePasses(d) \/ NoTool(d) \/ GateBlocks(d) \/ InferDone(d) \/ SloMet(d)
  BY <1>1, GoesOn DEF SetupDone, GatePasses, NoTool, GateBlocks, InferDone, SloMet, AtTool,
     AtAgent, Working, Places
<1>2. CASE AgentRaises(d) \/ DeadlineRefusesCall(d) \/ ToolDrops(d) \/ BridgeExpires(d) \/ InferFails(d)
  BY <1>2, SwallowMoves, AbandonedOnly DEF AgentRaises, DeadlineRefusesCall, ToolDrops,
     BridgeExpires, InferFails, AtTool, AtAgent
<1>3. CASE LLMOnlyRuns(d)
  <2>1. CASE att' = att
    BY <1>3, <2>1, GoesOn DEF LLMOnlyRuns, Working, Places
  <2>2. CASE att' = [att EXCEPT ![d].failed = TRUE]
    <3>1. att[d] \in Attempts /\ att[d].error \in {"none", "deterministic", "other"}
      BY DEF CallsInv, TypeOK, Attempts
    <3>2. [att[d] EXCEPT !.failed = TRUE, !.error = att[d].error] = [att[d] EXCEPT !.failed = TRUE]
      BY <3>1 DEF Attempts
    <3>3. att' = [att EXCEPT ![d] = [@ EXCEPT !.failed = TRUE, !.error = att[d].error]]
      BY <2>2, <3>2 DEF CallsInv, TypeOK
    <3> QED
      BY <1>3, <3>1, <3>3, PlainMove DEF LLMOnlyRuns, Working, Places
  <2> QED
    BY <1>3, <2>1, <2>2 DEF LLMOnlyRuns
<1>4. CASE CallTool(d)
  BY <1>4, CallMoves
<1>5. CASE ToolAnswers(d)
  BY <1>5, OutcomeMoves DEF ToolAnswers, Reported, Outcomes
<1>6. CASE ToolTimesOut(d)
  BY <1>6, OutcomeMoves, AbandonedOnly DEF ToolTimesOut, OutcomeOfTimeout, Outcomes
<1>7. CASE Dehydrate(d)
  BY <1>7, PauseMoves
<1>8. CASE SloBreached(d) \/ \E kind \in {"deterministic", "other"} : SetupFails(d, kind)
  BY <1>8, ErrorMoves DEF SloBreached, SetupFails
<1>9. CASE Crash(d)
  BY <1>9, GoesOn, AbandonedOnly DEF Crash, Places
<1>10. CASE Interrupt(d)
  BY <1>10, InterruptMoves
<1> QED
  BY <1>1, <1>2, <1>3, <1>4, <1>5, <1>6, <1>7, <1>8, <1>9, <1>10 DEF Step

-----------------------------------------------------------------------------
(* The first and the last step of a delivery, and those of its environment *)

\* The workflow's invariant says as much of the calls.
LEMMA WorkflowCalls == WorkflowInv => CallsInv
  BY DEF WorkflowInv, CallsInv, AnswersAreStored

\* A record that is not in progress or unknown is nobody's; one that is, or that
\* holds a result, is not vacant.
LEMMA VacantIsFree ==
    ASSUME WorkflowInv, Vacant(rec, now)
    PROVE  /\ \A d \in Deliveries : ~Holds(d)
           /\ \A d \in Deliveries, o \in {"COMMITTED", "NOT_COMMITTED"} : ~Told(d, o)
  BY DEF WorkflowInv, HeldClaim, AnswersAreStored, Vacant, Forgotten

\* The local state a delivery sets out with.
LEMMA StartingState ==
    ASSUME CallsInv, NEW d \in Deliveries, NEW r \in RoutingsOf[d], pc[d] = "new",
           StartWork(d, r)
    PROVE  \E a \in Attempts :
              /\ att' = [att EXCEPT ![d] = a]
              /\ a.owned = RequiresClaim(r)
              /\ a.agent \in ToolIntents => RequiresClaim(r)
              /\ a.until = 0 /\ a.outcome = "NONE" /\ ~a.dehydrated
              /\ RequiresClaim(r) => a.leased = now + Lease /\ a.agent \in ToolIntents
              /\ Deadline = 0 => a.deadline = 0
              /\ a.failed = att[d].failed /\ a.interrupted = att[d].interrupted
<1> DEFINE dl == IF Deadline = 0 THEN 0 ELSE now + Deadline
           ls == IF RequiresClaim(r) THEN now + Lease ELSE 0
           a == [att[d] EXCEPT !.agent = AgentOf(r), !.owned = RequiresClaim(r),
                               !.deadline = dl, !.leased = ls]
<1>1. /\ att[d] \in Attempts /\ ~att[d].dehydrated
      /\ att[d].outcome = "NONE" /\ att[d].until = 0
  BY DEF CallsInv, TypeOK, EffectsAreClaimed
<1>2. r \in Routings /\ now \in Nat /\ Deadline \in Nat /\ Lease \in Nat
  BY WorkflowAssumption DEF CallsInv, TypeOK
<1>3. dl \in Nat /\ ls \in Nat /\ RequiresClaim(r) \in BOOLEAN
  BY <1>2 DEF RequiresClaim
<1>4. AgentOf(r) \in AgentIntents \cup {"FALLBACK", "NONE"}
  BY DEF AgentOf
<1>5. AgentOf(r) \in ToolIntents <=> RequiresClaim(r)
  BY <1>2 DEF AgentOf, RequiresClaim, ToolIntents, AgentIntents
<1>6. att' = [att EXCEPT ![d] = a]
  BY DEF CallsInv, TypeOK, StartWork
<1> HIDE DEF dl, ls
<1>7. /\ a \in Attempts /\ a.owned = RequiresClaim(r) /\ a.agent = AgentOf(r)
      /\ a.until = att[d].until /\ a.outcome = att[d].outcome /\ a.dehydrated = att[d].dehydrated
      /\ a.leased = ls /\ a.deadline = dl /\ a.failed = att[d].failed
      /\ a.interrupted = att[d].interrupted
  BY <1>1, <1>3, <1>4 DEF Attempts
<1> HIDE DEF a
<1>8. (RequiresClaim(r) => a.leased = now + Lease) /\ (Deadline = 0 => a.deadline = 0)
  BY <1>7 DEF ls, dl
<1> QED
  BY <1>1, <1>5, <1>6, <1>7, <1>8

\* A delivery sets out, on a new claim or on none, or is answered from the record.
LEMMA StartKeeps ==
    ASSUME NoTtl, WorkflowInv, NEW d \in Deliveries, Start(d)
    PROVE  WorkflowInv'
<1> USE DEF WorkflowInv
<1>1. PICK r \in RoutingsOf[d] : StartUnclaimed(d, r) \/ Claim(d, r)
  BY DEF Start
<1>2. /\ pc[d] = "new" /\ ~Holds(d) /\ ~Working(d)
      /\ att[d] \in Attempts /\ OwnerOf[d] \in Owners /\ r \in Routings
      /\ UNCHANGED <<now, inflight, committed>>
  BY WorkflowAssumption DEF Start, Holds, Working, EffectsAreClaimed, TypeOK
<1>3. CASE StartWork(d, r) /\ ~RequiresClaim(r) /\ rec' = rec
  <2>1. PICK a \in Attempts :
            /\ att' = [att EXCEPT ![d] = a]
            /\ a.owned = RequiresClaim(r)
            /\ a.agent \in ToolIntents => RequiresClaim(r)
            /\ a.until = 0 /\ a.outcome = "NONE" /\ ~a.dehydrated
            /\ a.failed = att[d].failed
    BY <1>2, <1>3, StartingState, WorkflowCalls
  <2>2. pc' = [pc EXCEPT ![d] = "setup"] /\ reply' = reply
    BY <1>3 DEF StartWork, Goto
  <2>3. TypeOK'
    BY <1>2, <1>3, <2>1, <2>2 DEF TypeOK, Places
  <2>4. /\ att'[d] = a /\ pc'[d] = "setup" /\ ~att'[d].owned
        /\ \A e \in Deliveries \ {d} : att'[e] = att[e] /\ pc'[e] = pc[e]
    BY <1>3, <2>1, <2>2 DEF TypeOK
  <2>5. \A e \in Deliveries : Holds(e)' => Holds(e)
    BY <2>4 DEF Holds, Working
  <2>6. OneHolder'
    BY <2>5 DEF OneHolder
  <2>7. HeldClaim'
    BY <1>3, <2>4, <2>5 DEF HeldClaim, Working
  <2>8. EffectsAreClaimed'
    BY <1>2, <1>3, <2>1, <2>4 DEF EffectsAreClaimed
  <2>9. AnswersAreStored'
    BY <1>2, <1>3, <2>1, <2>2, <2>4 DEF AnswersAreStored, CommittedIsReal, Told
  <2> QED
    BY <2>3, <2>6, <2>7, <2>8, <2>9
<1>4. CASE StartWork(d, r) /\ RequiresClaim(r) /\ ClaimStatus(rec, Request(d, r), now) = "CLAIMED"
           /\ rec' = AfterClaim(rec, Request(d, r), now)
  <2>1. PICK a \in Attempts :
            /\ att' = [att EXCEPT ![d] = a]
            /\ a.owned = RequiresClaim(r)
            /\ a.agent \in ToolIntents => RequiresClaim(r)
            /\ a.until = 0 /\ a.outcome = "NONE" /\ ~a.dehydrated
            /\ a.failed = att[d].failed
    BY <1>2, <1>4, StartingState, WorkflowCalls
  <2>2. pc' = [pc EXCEPT ![d] = "setup"] /\ reply' = reply
    BY <1>4 DEF StartWork, Goto
  <2>3. Vacant(rec, now) /\ rec' = FreshRecord(Request(d, r), now)
    BY <1>2, <1>4, GrantedOnVacant
  <2>4. /\ rec' \in ClaimRecords /\ rec' # Null /\ rec'.state = "IN_PROGRESS"
        /\ rec'.owner = OwnerOf[d] /\ rec'.expires_at = 0
    BY <2>3, FreshClaim DEF TypeOK
  <2>5. TypeOK'
    BY <1>2, <2>1, <2>2, <2>4 DEF TypeOK, Places
  <2>6. /\ att'[d] = a /\ pc'[d] = "setup" /\ att'[d].owned
        /\ \A e \in Deliveries \ {d} : att'[e] = att[e] /\ pc'[e] = pc[e]
    BY <1>4, <2>1, <2>2 DEF TypeOK
  <2>7. \A e \in Deliveries : Holds(e)' => e = d
    BY <2>3, <2>6, VacantIsFree DEF Holds, Working
  <2>8. OneHolder'
    BY <2>7 DEF OneHolder
  <2>9. HeldClaim'
    BY <2>4, <2>7 DEF HeldClaim, Holds, Working
  <2>10. EffectsAreClaimed'
    BY <1>2, <1>4, <2>1, <2>6 DEF EffectsAreClaimed
  <2>11. AnswersAreStored'
    BY <1>2, <2>1, <2>2, <2>3, <2>4, <2>6, VacantIsFree DEF AnswersAreStored, CommittedIsReal, Told
  <2> QED
    BY <2>5, <2>8, <2>9, <2>10, <2>11
<1>5. CASE ClaimStatus(rec, Request(d, r), now) # "CLAIMED"
           /\ ShortCircuit(d, ClaimStatus(rec, Request(d, r), now))
  <2> DEFINE st == ClaimStatus(rec, Request(d, r), now)
             ans == IF st = "REPLAY" THEN rec.result ELSE st
  <2>1. /\ pc' = [pc EXCEPT ![d] = "done"] /\ reply' = [reply EXCEPT ![d] = ans]
        /\ rec' = rec /\ att' = att
    BY <1>5 DEF ShortCircuit, Goto
  <2>2. ~Vacant(rec, now) /\ st \in {"CONFLICT", "REPLAY", "FAILED_FINAL", "IN_PROGRESS", "RECOVERY_REQUIRED"}
    BY <1>5 DEF ClaimStatus, Request
  <2>3. st = "REPLAY" => rec # Null /\ rec.state = "SUCCEEDED"
    BY <2>2 DEF ClaimStatus, Vacant
  <2>4. ans \in Replies
    BY <2>2, <2>3 DEF AnswersAreStored, Replies
  <2>5. ans \in {"COMMITTED", "NOT_COMMITTED"} =>
            rec # Null /\ rec.state = "SUCCEEDED" /\ rec.result = ans
    BY <2>2, <2>3
  <2> HIDE DEF ans, st
  <2>6. TypeOK'
    BY <1>2, <2>1, <2>4 DEF TypeOK, Places
  <2>7. \A e \in Deliveries : (Holds(e)' => Holds(e)) /\ (Working(e)' => Working(e))
    BY <1>2, <2>1 DEF Holds, Working, TypeOK, EffectsAreClaimed
  <2>8. OneHolder'
    BY <2>7 DEF OneHolder
  <2>9. HeldClaim'
    BY <2>1, <2>7 DEF HeldClaim
  <2>10. EffectsAreClaimed'
    BY <1>2, <2>1 DEF EffectsAreClaimed, TypeOK
  <2>11. AnswersAreStored'
    BY <1>2, <2>1, <2>5 DEF AnswersAreStored, CommittedIsReal, Told, TypeOK
  <2> QED
    BY <2>6, <2>8, <2>9, <2>10, <2>11
<1> QED
  BY <1>1, <1>3, <1>4, <1>5 DEF StartUnclaimed, Claim

\* A delivery settles the claim it holds, if any, and answers.
LEMMA SettleKeeps ==
    ASSUME WorkflowInv, NEW d \in Deliveries, Settle(d)
    PROVE  WorkflowInv'
<1> USE DEF WorkflowInv
<1> DEFINE a == att[d]
           m == Remembered(a)
           ans == Answer(a)
<1>1. /\ a \in Attempts /\ Working(d) /\ OwnerOf[d] \in Owners
      /\ rec \in ClaimRecords \cup {Null}
  BY WorkflowAssumption DEF TypeOK, Settle, Working
<1>2. /\ m \in Attempts /\ m.owned = a.owned /\ m.outcome = a.outcome /\ m.until = a.until
      /\ m.agent = "NONE" /\ ~m.dehydrated /\ m.failed = a.failed
  BY <1>1 DEF Remembered, NewAttempt, Attempts
<1>3. /\ ans \in Replies
      /\ ans \in {"COMMITTED", "NOT_COMMITTED"} => ~a.dehydrated /\ ans = a.outcome
      /\ a.outcome \in {"COMMITTED", "NOT_COMMITTED"} => ReplayableResult(a) = a.outcome
      /\ ReplayableResult(a) \in ReplayableResults
      /\ ReplayableResult(a) = "COMMITTED" => a.outcome = "COMMITTED"
  BY <1>1 DEF Answer, ReplayableResult, ReplayableResults, Replies, Attempts, Outcomes
<1>4. /\ rec' = IF a.owned THEN Settled(rec, OwnerOf[d], a) ELSE rec
      /\ reply' = [reply EXCEPT ![d] = ans] /\ att' = [att EXCEPT ![d] = m]
      /\ pc' = [pc EXCEPT ![d] = "done"] /\ UNCHANGED <<now, inflight, committed>>
  BY DEF Settle, Goto, TypeOK
<1>5. a.outcome # "NONE" => a.owned
  BY DEF EffectsAreClaimed
<1>6. a.outcome = "UNKNOWN" => ~a.dehydrated
  BY DEF EffectsAreClaimed
<1>7. a.outcome = "COMMITTED" => d \in committed
  BY DEF AnswersAreStored
<1> HIDE DEF m, ans
<1>8. TypeOK'
  BY <1>1, <1>2, <1>3, <1>4, SettledRecord DEF TypeOK, Places
<1>9. /\ att'[d] = m /\ pc'[d] = "done" /\ reply'[d] = ans
      /\ \A e \in Deliveries \ {d} : att'[e] = att[e] /\ pc'[e] = pc[e] /\ reply'[e] = reply[e]
  BY <1>4 DEF TypeOK
<1>10. EffectsAreClaimed'
  BY <1>2, <1>4, <1>9 DEF EffectsAreClaimed, ToolIntents
<1>11. \A e \in Deliveries : (Holds(e)' => Holds(e)) /\ (Working(e)' => Working(e) /\ e # d)
  BY <1>1, <1>2, <1>9 DEF Holds, Working
<1>12. OneHolder'
  BY <1>11 DEF OneHolder
<1>13. CASE ~a.owned
  <2>1. rec' = rec /\ ans \notin {"COMMITTED", "NOT_COMMITTED"}
    BY <1>3, <1>4, <1>5, <1>13
  <2>2. HeldClaim'
    BY <2>1, <1>9, <1>11 DEF HeldClaim
  <2>3. AnswersAreStored'
    BY <2>1, <1>2, <1>4, <1>7, <1>9 DEF AnswersAreStored, CommittedIsReal, Told
  <2> QED
    BY <1>8, <1>10, <1>12, <2>2, <2>3
<1>14. CASE a.owned
  <2>1. /\ Holds(d) /\ OwnedBy(rec, OwnerOf[d]) /\ rec.state = "IN_PROGRESS"
        /\ rec # Null /\ rec.expires_at = 0
    BY <1>1, <1>14 DEF Holds, HeldClaim, OwnedBy
  <2>2. \A e \in Deliveries : Holds(e)' => e = d /\ a.outcome = "UNKNOWN"
    BY <2>1, <1>2, <1>9, <1>11 DEF OneHolder, Holds, Working
  <2>3. rec' = Settled(rec, OwnerOf[d], a)
    BY <1>4, <1>14
  <2>4. /\ rec' # Null /\ rec'.expires_at = 0
        /\ IF ~a.dehydrated /\ a.outcome # "UNKNOWN" /\ ~a.failed
           THEN rec'.state = "SUCCEEDED" /\ rec'.result = ReplayableResult(a)
           ELSE rec'.state # "SUCCEEDED"
        /\ ~a.dehydrated /\ a.outcome = "UNKNOWN" => rec'.state = "UNKNOWN"
    BY <2>1, <2>3, <1>1, SettledRecord
  <2>5. HeldClaim'
    BY <2>2, <2>4, <1>6, <1>11 DEF HeldClaim, Holds
  <2>6. \A e \in Deliveries, o \in {"COMMITTED", "NOT_COMMITTED"} : ~Told(e, o)
    BY <2>1 DEF AnswersAreStored
  <2>7. AnswersAreStored'
    <3>1. \A e \in Deliveries : reply'[e] = "COMMITTED" => committed' # {}
      BY <1>3, <1>4, <1>7, <1>9 DEF AnswersAreStored, CommittedIsReal
    <3>2. \A e \in Deliveries, o \in {"COMMITTED", "NOT_COMMITTED"} :
             Told(e, o)' => e = d /\ o = ans /\ ~a.failed
      BY <2>6, <1>2, <1>9 DEF Told
    <3>3. ans \in {"COMMITTED", "NOT_COMMITTED"} /\ ~a.failed =>
             rec'.state = "SUCCEEDED" /\ rec'.result = ans
      BY <1>3, <2>4
    <3>4. rec'.state = "SUCCEEDED" =>
             rec'.result \in ReplayableResults /\ (rec'.result = "COMMITTED" => committed' # {})
      BY <1>3, <1>4, <1>7, <2>4
    <3> QED
      BY <2>4, <3>1, <3>2, <3>3, <3>4, <1>2, <1>4, <1>7, <1>9
         DEF AnswersAreStored, CommittedIsReal
  <2> QED
    BY <1>8, <1>10, <1>12, <2>5, <2>7
<1> QED
  BY <1>13, <1>14 DEF Attempts

\* The system of record and the clock change neither the record nor the claim.
LEMMA EnvironmentKeeps ==
    ASSUME WorkflowInv,
           (\E d \in Deliveries : Apply(d) \/ Reject(d)) \/ Tick \/ UNCHANGED vars
    PROVE  WorkflowInv'
<1> USE DEF WorkflowInv
<1>1. /\ UNCHANGED <<rec, pc, att, reply>>
      /\ now' \in Nat
      /\ committed \subseteq committed'
      /\ inflight' \cup committed' \subseteq inflight \cup committed
  BY DEF Apply, Reject, Tick, vars, TypeOK
<1>2. TypeOK'
  BY <1>1 DEF TypeOK
<1>3. OneHolder' /\ HeldClaim'
  BY <1>1 DEF OneHolder, HeldClaim, Holds, Working
<1>4. EffectsAreClaimed'
  BY <1>1 DEF EffectsAreClaimed
<1>5. AnswersAreStored'
  BY <1>1 DEF AnswersAreStored, CommittedIsReal, Told
<1> QED
  BY <1>2, <1>3, <1>4, <1>5

-----------------------------------------------------------------------------
(* Invariance *)

\* Nothing is claimed, sent or answered at first.
LEMMA WorkflowInit == Init => WorkflowInv
<1> SUFFICES ASSUME Init PROVE WorkflowInv
  OBVIOUS
<1>1. NewAttempt \in Attempts
  BY DEF NewAttempt, Attempts
<1>2. TypeOK
  BY <1>1 DEF Init, TypeOK, Places, Replies
<1>3. \A d \in Deliveries : ~Holds(d) /\ ~Working(d) /\ att[d] = NewAttempt /\ pc[d] = "new"
  BY DEF Init, Holds, Working, NewAttempt
<1> QED
  BY <1>2, <1>3 DEF Init, WorkflowInv, OneHolder, HeldClaim, EffectsAreClaimed, AnswersAreStored,
     CommittedIsReal, Told, NewAttempt, ToolIntents

\* WorkflowInv is inductive.
LEMMA WorkflowStep ==
    ASSUME NoTtl, WorkflowInv, [Next]_vars
    PROVE  WorkflowInv'
<1>1. ASSUME NEW d \in Deliveries, Step(d) \/ Crash(d)
      PROVE  WorkflowInv'
  BY <1>1, StepCases, MovesKeep, StartKeeps, SettleKeeps, WorkflowCalls
<1>2. ASSUME NEW d \in Deliveries, Apply(d) \/ Reject(d)
      PROVE  WorkflowInv'
  BY <1>2, EnvironmentKeeps
<1>3. CASE Tick \/ Finished \/ UNCHANGED vars
  BY <1>3, EnvironmentKeeps DEF Finished
<1> QED
  BY <1>1, <1>2, <1>3 DEF Next

\* Without a ttl, and whatever fails, one delivery at most holds the claim, no tool
\* is called without it, and what is stored and told is the outcome of the calls.
THEOREM WorkflowInvariant ==
    ASSUME NoTtl
    PROVE  Spec => []WorkflowInv
<1>1. WorkflowInv /\ [Next]_vars => WorkflowInv'
  BY WorkflowStep
<1> QED
  BY <1>1, WorkflowInit, PTL DEF Spec

\* However many callers the deliveries of one request answer, no two of them are
\* told contradicting outcomes without failed_keys beside one.
THEOREM AnswersAgree ==
    ASSUME NoTtl
    PROVE  Spec => []RepliesAgree
<1>1. WorkflowInv => RepliesAgree
  BY DEF WorkflowInv, AnswersAreStored, RepliesAgree
<1> QED
  BY <1>1, WorkflowInvariant, PTL

\* A caller told COMMITTED has its effect.
THEOREM CommittedAnswersTrue ==
    ASSUME NoTtl
    PROVE  Spec => []CommittedIsReal
<1>1. WorkflowInv => CommittedIsReal
  BY DEF WorkflowInv, AnswersAreStored, CommittedIsReal
<1> QED
  BY <1>1, WorkflowInvariant, PTL

-----------------------------------------------------------------------------
(* What deliveries keep whoever shares the record with them *)

\* A delivery that sets out leaves the calls made as they are.
LEMMA StartKeepsCalls ==
    ASSUME CallsInv, NEW d \in Deliveries, Start(d)
    PROVE  CallsInv'
<1> USE DEF CallsInv
<1>1. PICK r \in RoutingsOf[d] : StartUnclaimed(d, r) \/ Claim(d, r)
  BY DEF Start
<1>2. /\ pc[d] = "new" /\ att[d] \in Attempts /\ r \in Routings
      /\ UNCHANGED <<now, inflight, committed>>
  BY WorkflowAssumption DEF Start, TypeOK
<1>3. CASE /\ StartWork(d, r)
           /\ \/ rec' = rec
              \/ rec' = AfterClaim(rec, Request(d, r), now)
                 /\ ClaimStatus(rec, Request(d, r), now) = "CLAIMED"
  <2>1. PICK a \in Attempts :
            /\ att' = [att EXCEPT ![d] = a]
            /\ a.owned = RequiresClaim(r)
            /\ a.agent \in ToolIntents => RequiresClaim(r)
            /\ a.until = 0 /\ a.outcome = "NONE" /\ ~a.dehydrated
    BY <1>2, <1>3, StartingState
  <2>2. pc' = [pc EXCEPT ![d] = "setup"] /\ reply' = reply
    BY <1>3 DEF StartWork, Goto
  <2>3. rec' = rec \/ (rec' \in ClaimRecords /\ rec'.state = "IN_PROGRESS")
    BY <1>2, <1>3, GrantedOnVacant, FreshClaim DEF TypeOK
  <2>4. TypeOK'
    BY <1>2, <2>1, <2>2, <2>3 DEF TypeOK, Places
  <2>5. /\ att'[d] = a /\ pc'[d] = "setup"
        /\ \A e \in Deliveries \ {d} : att'[e] = att[e] /\ pc'[e] = pc[e]
    BY <2>1, <2>2 DEF TypeOK
  <2>6. EffectsAreClaimed'
    BY <1>2, <2>1, <2>5 DEF EffectsAreClaimed
  <2> QED
    BY <1>2, <2>1, <2>3, <2>4, <2>5, <2>6
<1>4. CASE ShortCircuit(d, ClaimStatus(rec, Request(d, r), now))
           /\ ClaimStatus(rec, Request(d, r), now) # "CLAIMED"
  <2> DEFINE st == ClaimStatus(rec, Request(d, r), now)
             ans == IF st = "REPLAY" THEN rec.result ELSE st
  <2>1. /\ pc' = [pc EXCEPT ![d] = "done"] /\ reply' = [reply EXCEPT ![d] = ans]
        /\ rec' = rec /\ att' = att
    BY <1>4 DEF ShortCircuit, Goto
  <2>2. st \in {"CONFLICT", "REPLAY", "FAILED_FINAL", "IN_PROGRESS", "RECOVERY_REQUIRED"}
    BY <1>4 DEF ClaimStatus, Request
  <2>3. st = "REPLAY" => rec # Null /\ rec.state = "SUCCEEDED"
    BY <2>2 DEF ClaimStatus, Vacant
  <2>4. ans \in Replies
    BY <2>2, <2>3 DEF Replies
  <2> HIDE DEF ans, st
  <2>5. TypeOK'
    BY <1>2, <2>1, <2>4 DEF TypeOK, Places
  <2>6. EffectsAreClaimed'
    BY <1>2, <2>1 DEF EffectsAreClaimed, TypeOK
  <2> QED
    BY <1>2, <2>1, <2>5, <2>6
<1> QED
  BY <1>1, <1>3, <1>4 DEF StartUnclaimed, Claim

\* One that settles stores what its call reported, if the record is still its own.
LEMMA SettleKeepsCalls ==
    ASSUME CallsInv, NEW d \in Deliveries, Settle(d)
    PROVE  CallsInv'
<1> USE DEF CallsInv
<1> DEFINE a == att[d]
           m == Remembered(a)
<1>1. a \in Attempts /\ OwnerOf[d] \in Owners /\ rec \in ClaimRecords \cup {Null}
  BY WorkflowAssumption DEF TypeOK
<1>2. /\ m \in Attempts /\ m.owned = a.owned /\ m.outcome = a.outcome /\ m.until = a.until
      /\ m.agent = "NONE" /\ ~m.dehydrated
  BY <1>1 DEF Remembered, NewAttempt, Attempts
<1>3. Answer(a) \in Replies /\ ReplayableResult(a) \in ReplayableResults
  BY <1>1 DEF Answer, ReplayableResult, ReplayableResults, Replies, Attempts, Outcomes
<1>4. /\ rec' = (IF a.owned THEN Settled(rec, OwnerOf[d], a) ELSE rec)
      /\ reply' = [reply EXCEPT ![d] = Answer(a)] /\ att' = [att EXCEPT ![d] = m]
      /\ pc' = [pc EXCEPT ![d] = "done"] /\ UNCHANGED <<now, inflight, committed>>
  BY DEF Settle, Goto, TypeOK
<1> HIDE DEF m, a
<1>5. /\ rec' \in ClaimRecords \cup {Null}
      /\ rec' # Null /\ rec'.state = "SUCCEEDED" => rec'.result \in ReplayableResults
  BY <1>1, <1>3, <1>4, SettledRecord DEF OwnedBy
<1>6. TypeOK'
  BY <1>1, <1>2, <1>3, <1>4, <1>5 DEF TypeOK, Places
<1>7. /\ att'[d] = m /\ pc'[d] = "done"
      /\ \A e \in Deliveries \ {d} : att'[e] = att[e] /\ pc'[e] = pc[e]
  BY <1>4 DEF TypeOK
<1>8. EffectsAreClaimed'
  <2>1. \A e \in Deliveries : e \in inflight' \cup committed' <=> e \in inflight \cup committed
    BY <1>4
  <2>2. (a.until # 0 \/ a.outcome # "NONE" \/ d \in inflight \cup committed) => a.owned
    BY DEF EffectsAreClaimed, a
  <2> QED
    BY <1>2, <1>7, <2>1, <2>2 DEF EffectsAreClaimed, ToolIntents
<1> QED
  BY <1>2, <1>4, <1>5, <1>6, <1>7, <1>8 DEF a

\* Every step of the workflow keeps CallsInv, whatever the record holds.
LEMMA CallsStep ==
    ASSUME CallsInv, [Next]_vars
    PROVE  CallsInv'
<1>1. ASSUME NEW d \in Deliveries, Step(d) \/ Crash(d)
      PROVE  CallsInv'
  BY <1>1, StepCases, MovesKeepCalls, StartKeepsCalls, SettleKeepsCalls
<1>2. CASE (\E d \in Deliveries : Apply(d) \/ Reject(d)) \/ Tick \/ UNCHANGED vars
  <2>1. /\ UNCHANGED <<rec, pc, att, reply>> /\ now' \in Nat
        /\ committed \subseteq committed'
        /\ inflight' \cup committed' \subseteq inflight \cup committed
    BY <1>2 DEF Apply, Reject, Tick, vars, TypeOK, CallsInv
  <2> QED
    BY <2>1 DEF CallsInv, TypeOK, EffectsAreClaimed
<1> QED
  BY <1>1, <1>2 DEF Next, Finished

-----------------------------------------------------------------------------
(* Types of the workflow with its reconcilers *)

\* What a takeover leaves of the record: the worker's claim, or the record as it was.
LEMMA TakenRecord ==
    ASSUME CallsInv, NEW w \in Workers, NEW fp \in Fingerprints \cup {Null}
    PROVE  LET c == Recovery(w, fp)
               r == AfterClaim(rec, c, now)
           IN  /\ r \in ClaimRecords \cup {Null}
               /\ ClaimStatus(rec, c, now) # "CLAIMED" => r = rec
               /\ ClaimStatus(rec, c, now) = "CLAIMED" =>
                     /\ Vacant(rec, now) \/ Unresolved(rec, now)
                     /\ r # Null /\ r.state = "IN_PROGRESS" /\ r.owner = WorkerOwner[w]
                     /\ r.lease_until = now + Lease
                     /\ r.expires_at = 0 \/ (rec # Null /\ r.expires_at = rec.expires_at)
<1> DEFINE c == Recovery(w, fp)
           r == AfterClaim(rec, c, now)
<1>1. /\ WorkerOwner[w] \in Owners /\ Lease \in Nat /\ now \in Nat /\ now + Lease \in Nat
      /\ rec \in ClaimRecords \cup {Null}
  BY WorkflowAssumption, ReconciliationAssumption DEF CallsInv, TypeOK
<1>2. c.owner = WorkerOwner[w] /\ c.fp = fp /\ c.lease = Lease /\ c.ttl = 0 /\ c.recover
  BY DEF Recovery
<1> HIDE DEF c
<1>3. CASE ClaimStatus(rec, c, now) # "CLAIMED"
  BY <1>1, <1>3 DEF AfterClaim, c
<1>4. CASE ClaimStatus(rec, c, now) = "CLAIMED" /\ Vacant(rec, now)
  <2>1. r = FreshRecord(c, now)
    BY <1>4 DEF AfterClaim
  <2>2. FreshRecord(c, now) \in ClaimRecords
    BY <1>1, <1>2 DEF FreshRecord, ClaimRecords, ClaimStates
  <2> QED
    BY <1>2, <1>4, <2>1, <2>2, NullIsNothing DEF FreshRecord, c
<1>5. CASE ClaimStatus(rec, c, now) = "CLAIMED" /\ ~Vacant(rec, now)
  <2>1. r = TakenOver(rec, c, now) /\ Unresolved(rec, now) /\ rec # Null
    BY <1>5 DEF AfterClaim, ClaimStatus, Vacant
  <2>2. /\ TakenOver(rec, c, now) \in ClaimRecords
        /\ TakenOver(rec, c, now).state = "IN_PROGRESS"
        /\ TakenOver(rec, c, now).owner = WorkerOwner[w]
        /\ TakenOver(rec, c, now).lease_until = now + Lease
        /\ TakenOver(rec, c, now).expires_at = rec.expires_at
    BY <1>1, <1>2, <2>1 DEF TakenOver, ClaimRecords, ClaimStates
  <2> QED
    BY <1>2, <1>5, <2>1, <2>2, NullIsNothing DEF c
<1> QED
  BY <1>3, <1>4, <1>5 DEF c

\* What a worker's settlement leaves of it.
LEMMA EntrySettled ==
    ASSUME CallsInv, NEW w \in Workers, rpc[w] \in {"complete", "park", "fail"}
    PROVE  /\ AfterSettlement(w) \in ClaimRecords \cup {Null}
           /\ ~OwnedBy(rec, WorkerOwner[w]) => AfterSettlement(w) = rec
           /\ OwnedBy(rec, WorkerOwner[w]) =>
                 /\ AfterSettlement(w) # Null
                 /\ AfterSettlement(w).expires_at = rec.expires_at
                 /\ rpc[w] = "complete" =>
                       AfterSettlement(w).state = "SUCCEEDED" /\ AfterSettlement(w).result = "COMMITTED"
                 /\ rpc[w] = "park" => AfterSettlement(w).state = "UNKNOWN"
                 /\ rpc[w] = "fail" => AfterSettlement(w).state = "FAILED_RETRYABLE"
<1>1. rec \in ClaimRecords \cup {Null} /\ "COMMITTED" \in ReplayableResults
  BY DEF CallsInv, TypeOK, ReplayableResults
<1>2. CASE ~OwnedBy(rec, WorkerOwner[w])
  BY <1>1, <1>2 DEF AfterSettlement, AfterComplete, AfterFail
<1>3. CASE OwnedBy(rec, WorkerOwner[w]) /\ rpc[w] = "complete"
  <2>1. AfterSettlement(w) = [rec EXCEPT !.state = "SUCCEEDED", !.result = "COMMITTED"]
    BY <1>3 DEF AfterSettlement, AfterComplete
  <2>2. rec \in ClaimRecords
    BY <1>1, <1>3 DEF OwnedBy
  <2>3. AfterSettlement(w) \in ClaimRecords
    BY <1>1, <2>1, <2>2 DEF ClaimRecords, ClaimStates
  <2> QED
    BY <1>3, <2>1, <2>2, <2>3, NullIsNothing DEF ClaimRecords
<1>4. CASE OwnedBy(rec, WorkerOwner[w]) /\ rpc[w] \in {"park", "fail"}
  <2>1. PICK st \in {"UNKNOWN", "FAILED_RETRYABLE"} :
            /\ AfterSettlement(w) = [rec EXCEPT !.state = st]
            /\ rpc[w] = "park" => st = "UNKNOWN"
            /\ rpc[w] = "fail" => st = "FAILED_RETRYABLE"
    BY <1>4 DEF AfterSettlement, AfterFail, FailureState
  <2>2. rec \in ClaimRecords
    BY <1>1, <1>4 DEF OwnedBy
  <2>3. AfterSettlement(w) \in ClaimRecords
    BY <2>1, <2>2 DEF ClaimRecords, ClaimStates
  <2> QED
    BY <1>4, <2>1, <2>2, <2>3, NullIsNothing DEF ClaimRecords
<1> QED
  BY <1>2, <1>3, <1>4

\* No step of a worker touches a delivery, and but two leave the record alone.
LEMMA WorkerLeavesDeliveries ==
    ASSUME NEW w \in Workers, WorkerStep(w) \/ Die(w)
    PROVE  /\ UNCHANGED <<now, pc, att, reply, inflight, committed>>
           /\ rec' = rec \/ TakeOver(w) \/ SettleEntry(w)
  BY DEF WorkerStep, Die, Acquire, KeepLease, LoseLease, TakeOver, Confirm, ConfirmUnknown,
     Replay, ReplayRefused, ReplayUnreported, HookRaises, SettleEntry, Release, vars

\* A worker's own state goes on being well typed.
LEMMA WorkerTypes ==
    ASSUME RTypeOK, NEW w \in Workers, WorkerStep(w) \/ Die(w)
    PROVE  /\ lock' \in L!Leases \cup {Null} /\ counter' \in Nat /\ fence' \in Nat
           /\ rpc' \in [Workers -> RPlaces]
           /\ handle' \in [Workers -> [token : Nat, renewed : Nat]]
           /\ replays' \subseteq Nat
<1> USE DEF RTypeOK, TypeOK
<1>1. /\ LeaseTtl \in Nat /\ RenewTtl \in Nat /\ now \in Nat
      /\ handle[w] \in [token : Nat, renewed : Nat]
  BY ReconciliationAssumption
<1>2. CASE Acquire(w)
  BY <1>1, <1>2 DEF Acquire, RGoto, RPlaces, L!Acquired, L!Leases, vars
<1>3. CASE KeepLease(w)
  <2>1. lock' \in L!Leases \cup {Null}
    BY <1>1, <1>3 DEF KeepLease, L!Renewable, L!Holds, L!Renewed, L!Leases
  <2>2. handle' \in [Workers -> [token : Nat, renewed : Nat]]
    BY <1>1, <1>3 DEF KeepLease
  <2> QED
    BY <1>3, <2>1, <2>2 DEF KeepLease, RGoto, RPlaces, vars
<1>4. CASE LoseLease(w) \/ TakeOver(w) \/ SettleEntry(w) \/ Die(w) \/ HookRaises(w)
           \/ ReplayRefused(w) \/ ConfirmUnknown(w)
  BY <1>4 DEF LoseLease, TakeOver, SettleEntry, Die, HookRaises, ReplayRefused, ConfirmUnknown,
     RGoto, RPlaces, NextAfterConfirm, vars
<1>5. CASE Confirm(w) \/ Replay(w) \/ ReplayUnreported(w)
  <2>1. fence' \in Nat /\ replays' \subseteq Nat
    BY <1>1, <1>5 DEF Confirm, Registered, Replay, ReplayUnreported
  <2> QED
    BY <1>5, <2>1 DEF Confirm, Replay, ReplayUnreported, RGoto, RPlaces, NextAfterConfirm, vars
<1>6. CASE Release(w)
  BY <1>6 DEF Release, L!Released, RGoto, RPlaces, vars
<1> QED
  BY <1>2, <1>3, <1>4, <1>5, <1>6 DEF WorkerStep

\* Deliveries and workers keep what calls were made and the types of it all.
LEMMA RTypesStep ==
    ASSUME CallsInv, RTypeOK, [RNext]_allvars
    PROVE  CallsInv' /\ RTypeOK'
<1>1. CASE (Next /\ UNCHANGED rvars /\ Queues) \/ UNCHANGED allvars
  <2>1. CallsInv' /\ UNCHANGED rvars /\ queued' \in BOOLEAN
    BY <1>1, CallsStep DEF allvars, rvars, vars, RTypeOK, Queues
  <2> QED
    BY <2>1 DEF RTypeOK, CallsInv, rvars
<1>2. ASSUME NEW w \in Workers, WorkerStep(w) \/ Die(w), UNCHANGED queued
      PROVE  CallsInv' /\ RTypeOK'
  <2>1. /\ rec' \in ClaimRecords \cup {Null}
        /\ rec' # Null /\ rec'.state = "SUCCEEDED" => rec'.result \in ReplayableResults
    <3>1. CASE rec' = rec
      BY <3>1 DEF CallsInv, TypeOK
    <3>2. CASE TakeOver(w)
      <4>1. PICK fp \in Fingerprints \cup {Null} : rec' = AfterClaim(rec, Recovery(w, fp), now)
        BY <3>2 DEF TakeOver
      <4> QED
        BY <4>1, TakenRecord DEF CallsInv
    <3>3. CASE SettleEntry(w)
      <4>1. rec' = AfterSettlement(w) /\ rpc[w] \in {"complete", "park", "fail"}
        BY <3>3 DEF SettleEntry
      <4>2. "COMMITTED" \in ReplayableResults
        BY DEF ReplayableResults
      <4>3. CASE OwnedBy(rec, WorkerOwner[w])
        BY <4>1, <4>2, <4>3, EntrySettled
      <4>4. CASE ~OwnedBy(rec, WorkerOwner[w])
        BY <4>1, <4>4, EntrySettled DEF CallsInv
      <4> QED
        BY <4>3, <4>4
    <3> QED
      BY <1>2, <3>1, <3>2, <3>3, WorkerLeavesDeliveries
  <2>2. CallsInv'
    BY <1>2, <2>1, WorkerLeavesDeliveries DEF CallsInv, TypeOK, EffectsAreClaimed
  <2> QED
    BY <1>2, <2>2, WorkerTypes DEF RTypeOK, CallsInv
<1> QED
  BY <1>1, <1>2 DEF RNext

\* All is well typed at first.
LEMMA RTypesInit == RInit => CallsInv /\ RTypeOK
<1> SUFFICES ASSUME RInit PROVE CallsInv /\ RTypeOK
  OBVIOUS
<1>1. CallsInv
  BY WorkflowInit, WorkflowCalls DEF RInit
<1> QED
  BY <1>1 DEF RInit, RTypeOK, RPlaces, CallsInv

-----------------------------------------------------------------------------
(* One replay *)

\* Fencing tokens tell the workers of today apart, and a confirmation that
\* registered its token fences off every replay under an earlier one.
FenceInv ==
    /\ \A w \in Workers : handle[w].token <= counter
    /\ \A w, v \in Workers :
          rpc[w] # "idle" /\ rpc[v] # "idle" /\ handle[w].token = handle[v].token => w = v
    /\ \A w \in Workers : rpc[w] = "replay" =>
          handle[w].token <= fence /\ (replays # {} => handle[w].token < fence)
    /\ OneReplay

\* A worker that neither takes the lease nor confirms nor replays keeps it.
LEMMA FenceKept ==
    ASSUME FenceInv, counter' = counter, fence' = fence, replays' = replays,
           \A w \in Workers : handle'[w].token = handle[w].token,
           \A w \in Workers : (rpc'[w] # "idle" => rpc[w] # "idle")
                              /\ (rpc'[w] = "replay" => rpc[w] = "replay")
    PROVE  FenceInv'
  BY DEF FenceInv, OneReplay

\* So does every other step.
LEMMA FenceStep ==
    ASSUME ConfirmFences, RTypeOK, FenceInv, [RNext]_allvars
    PROVE  FenceInv'
<1>1. CASE UNCHANGED rvars
  BY <1>1, FenceKept DEF rvars
<1>2. ASSUME NEW w \in Workers, WorkerStep(w) \/ Die(w)
      PROVE  FenceInv'
  <2>1. /\ rpc \in [Workers -> RPlaces] /\ handle \in [Workers -> [token : Nat, renewed : Nat]]
        /\ counter \in Nat /\ fence \in Nat /\ replays \subseteq Nat
    BY DEF RTypeOK
  <2>2. \A v \in Workers : handle[v].token \in Nat
    BY <2>1
  <2>3. CASE Acquire(w)
    <3>1. /\ handle'[w].token = counter + 1 /\ counter' = counter + 1 /\ rpc'[w] = "entry"
          /\ \A v \in Workers \ {w} : handle'[v] = handle[v] /\ rpc'[v] = rpc[v]
          /\ fence' = fence /\ replays' = replays
      BY <2>1, <2>3 DEF Acquire, RGoto
    <3>2. \A v \in Workers : handle[v].token <= counter
      BY DEF FenceInv
    <3>3. \A v \in Workers \ {w} : handle'[v].token < handle'[w].token
      BY <2>1, <2>2, <3>1, <3>2
    <3>4. \A v \in Workers : handle'[v].token <= counter'
      BY <2>1, <2>2, <3>1, <3>2
    <3>5. \A v, u \in Workers :
             rpc'[v] # "idle" /\ rpc'[u] # "idle" /\ handle'[v].token = handle'[u].token => v = u
      BY <2>2, <2>1, <3>1, <3>3 DEF FenceInv
    <3>6. \A v \in Workers : rpc'[v] = "replay" =>
             handle'[v].token <= fence' /\ (replays' # {} => handle'[v].token < fence')
      BY <3>1 DEF FenceInv
    <3> QED
      BY <3>1, <3>4, <3>5, <3>6 DEF FenceInv, OneReplay
  <2>4. CASE KeepLease(w)
    <3>1. \A v \in Workers : handle'[v].token = handle[v].token
      BY <2>1, <2>4 DEF KeepLease
    <3> QED
      BY <2>1, <2>4, <3>1, FenceKept DEF KeepLease, RGoto
  <2>5. CASE LoseLease(w) \/ TakeOver(w) \/ SettleEntry(w) \/ Die(w) \/ HookRaises(w)
             \/ ReplayRefused(w) \/ ConfirmUnknown(w) \/ Release(w)
    <3>1. counter' = counter /\ fence' = fence /\ replays' = replays /\ handle' = handle
      BY <2>5 DEF LoseLease, TakeOver, SettleEntry, Die, HookRaises, ReplayRefused,
         ConfirmUnknown, Release
    <3>2. \A v \in Workers : (rpc'[v] # "idle" => rpc[v] # "idle")
                             /\ (rpc'[v] = "replay" => rpc[v] = "replay")
      BY <2>1, <2>5 DEF LoseLease, TakeOver, SettleEntry, Die, HookRaises, ReplayRefused,
         ConfirmUnknown, Release, RGoto, NextAfterConfirm
    <3> QED
      BY <3>1, <3>2, FenceKept
  <2>6. CASE Confirm(w)
    <3>1. fence <= fence' /\ handle[w].token <= fence' /\ fence' \in Nat
      BY <2>1, <2>2, <2>6 DEF Confirm, Registered
    <3>2. counter' = counter /\ handle' = handle /\ replays' = replays /\ rpc[w] = "confirm"
      BY <2>6 DEF Confirm
    <3>3. /\ \A v \in Workers \ {w} : rpc'[v] = rpc[v]
          /\ rpc'[w] = "replay" => replays = {}
      BY <2>1, <2>6 DEF Confirm, RGoto, NextAfterConfirm, HasEffect
    <3>4. \A v \in Workers : rpc'[v] = "replay" =>
             handle'[v].token <= fence' /\ (replays' # {} => handle'[v].token < fence')
      <4> SUFFICES ASSUME NEW v \in Workers, rpc'[v] = "replay"
                   PROVE  handle'[v].token <= fence' /\ (replays' # {} => handle'[v].token < fence')
        OBVIOUS
      <4>1. CASE v = w
        BY <3>1, <3>2, <3>3, <4>1
      <4>2. CASE v # w
        <5>1. handle[v].token <= fence /\ (replays # {} => handle[v].token < fence)
          BY <3>3, <4>2 DEF FenceInv
        <5> QED
          BY <2>1, <2>2, <3>1, <3>2, <5>1
      <4> QED
        BY <4>1, <4>2
    <3> QED
      BY <3>2, <3>3, <3>4 DEF FenceInv, OneReplay
  <2>7. CASE Replay(w) \/ ReplayUnreported(w)
    <3>1. /\ rpc[w] = "replay" /\ handle[w].token >= fence /\ fence' = handle[w].token
          /\ replays' = replays \cup {handle[w].token} /\ counter' = counter /\ handle' = handle
      BY <2>7 DEF Replay, ReplayUnreported
    <3>2. /\ \A v \in Workers \ {w} : rpc'[v] = rpc[v]
          /\ rpc'[w] \notin {"idle", "replay"}
      BY <2>1, <2>7 DEF Replay, ReplayUnreported, RGoto
    <3>3. replays = {} /\ handle[w].token = fence
      BY <2>1, <2>2, <3>1 DEF FenceInv
    <3>4. \A v \in Workers : rpc'[v] = "replay" => handle[v].token < fence'
      BY <2>1, <2>2, <3>1, <3>2, <3>3 DEF FenceInv
    <3>5. OneReplay'
      BY <3>1, <3>3 DEF OneReplay
    <3>6. \A v \in Workers : handle[v].token <= counter
      BY DEF FenceInv
    <3> QED
      BY <2>1, <2>2, <3>1, <3>2, <3>4, <3>5, <3>6 DEF FenceInv
  <2> QED
    BY <1>2, <2>3, <2>4, <2>5, <2>6, <2>7 DEF WorkerStep
<1> QED
  BY <1>1, <1>2 DEF RNext, allvars, rvars

\* Where the confirmation query registers its fencing token, at most one replay
\* of the request takes effect, however long workers stall, whatever they die of
\* and for any size of lease.
THEOREM OneReplayTakesEffect ==
    ASSUME ConfirmFences
    PROVE  RSpec => []OneReplay
<1>1. RInit => FenceInv
  BY DEF RInit, FenceInv, OneReplay
<1>2. FenceInv => OneReplay
  BY DEF FenceInv
<1>3. RTypeOK /\ FenceInv /\ [RNext]_allvars => FenceInv'
  BY FenceStep
<1>4. CallsInv /\ RTypeOK /\ [RNext]_allvars => CallsInv' /\ RTypeOK'
  BY RTypesStep
<1> QED
  BY <1>1, <1>2, <1>3, <1>4, RTypesInit, PTL DEF RSpec

-----------------------------------------------------------------------------
(* One in charge *)

\* Deliveries and workers never share a correlation id
OwnersApart == \A w \in Workers, d \in Deliveries : WorkerOwner[w] # OwnerOf[d]

AtWork(d) == Working(d) /\ att[d].owned

Active(w) == rpc[w] \in {"confirm", "complete", "park", "replay", "fail"}

\* The record is the owner's, and its lease runs
InHand(owner) == OwnedBy(rec, owner) /\ now < rec.lease_until

\* A delivery at work under a claim has the record in hand, alone; and so does a
\* worker, where workers are punctual.
ChargeInv ==
    /\ rec # Null => rec.expires_at = 0
    /\ \A d \in Deliveries :
          AtWork(d) => InHand(OwnerOf[d]) /\ rec.lease_until = att[d].leased
    /\ \A d, e \in Deliveries : AtWork(d) /\ AtWork(e) => d = e
    /\ Punctual =>
          /\ \A w \in Workers :
                Active(w) => InHand(WorkerOwner[w]) /\ \A d \in Deliveries : ~AtWork(d)
          /\ \A w, v \in Workers : Active(w) /\ Active(v) => w = v

\* Nobody has a record in hand that a claim is granted on.
LEMMA ClaimableIsFree ==
    ASSUME ChargeInv, CallsInv, Vacant(rec, now) \/ Unresolved(rec, now)
    PROVE  /\ \A d \in Deliveries : ~AtWork(d)
           /\ Punctual => \A w \in Workers : ~Active(w)
<1>1. ASSUME NEW o, InHand(o) PROVE FALSE
  <2>1. rec # Null /\ rec.state = "IN_PROGRESS" /\ now < rec.lease_until
    BY <1>1 DEF InHand, OwnedBy
  <2>2. rec \in ClaimRecords /\ now \in Nat
    BY <2>1 DEF CallsInv, TypeOK
  <2> QED
    BY <2>1, <2>2 DEF ChargeInv, Vacant, Forgotten, Unresolved, LeaseLapsed, ClaimRecords
<1> QED
  BY <1>1 DEF ChargeInv

\* A step after which those in charge were so before, under the same record.
LEMMA ChargeKept ==
    ASSUME ChargeInv, rec' = rec, now' = now,
           \A d \in Deliveries : AtWork(d)' => AtWork(d) /\ att'[d].leased = att[d].leased,
           \A w \in Workers : Active(w)' => Active(w)
    PROVE  ChargeInv'
  BY DEF ChargeInv, InHand

\* A step after which nobody but one delivery is in charge.
LEMMA DeliveryTakesCharge ==
    ASSUME rec' # Null, rec'.expires_at = 0, NEW d \in Deliveries,
           OwnedBy(rec', OwnerOf[d]), now' < rec'.lease_until, rec'.lease_until = att'[d].leased,
           \A e \in Deliveries : AtWork(e)' => e = d,
           Punctual => \A w \in Workers : ~Active(w)'
    PROVE  ChargeInv'
  BY DEF ChargeInv, InHand

\* A delivery that goes on, sets out or settles.
LEMMA DeliveryCharge ==
    ASSUME NoTtl, CallsInv, ChargeInv, NEW d \in Deliveries, Step(d) \/ Crash(d), rpc' = rpc
    PROVE  ChargeInv'
<1>1. \A w \in Workers : Active(w)' <=> Active(w)
  BY DEF Active
<1>2. ASSUME NEW a, NEW place, Moves(d, a, place)
      PROVE  ChargeInv'
  <2>1. /\ att'[d] = a /\ \A e \in Deliveries \ {d} : att'[e] = att[e] /\ pc'[e] = pc[e]
    BY <1>2 DEF Moves, CallsInv, TypeOK
  <2>2. \A e \in Deliveries : AtWork(e)' => AtWork(e) /\ att'[e].leased = att[e].leased
    BY <1>2, <2>1 DEF AtWork, Moves, Working
  <2> QED
    BY <1>1, <1>2, <2>2, ChargeKept DEF Moves
<1>3. CASE Start(d)
  <2>1. PICK r \in RoutingsOf[d] : StartUnclaimed(d, r) \/ Claim(d, r)
    BY <1>3 DEF Start
  <2>2. /\ pc[d] = "new" /\ ~AtWork(d) /\ r \in Routings /\ now \in Nat /\ now' = now
        /\ pc \in [Deliveries -> Places] /\ att \in [Deliveries -> Attempts]
        /\ Lease \in Nat \ {0}
    BY <1>3, WorkflowAssumption DEF Start, AtWork, Working, CallsInv, TypeOK
  <2>3. CASE StartUnclaimed(d, r)
    <3>1. PICK a \in Attempts :
              att' = [att EXCEPT ![d] = a] /\ a.owned = RequiresClaim(r)
      BY <2>2, <2>3, StartingState DEF StartUnclaimed
    <3>2. /\ ~att'[d].owned /\ rec' = rec
          /\ \A e \in Deliveries \ {d} : att'[e] = att[e] /\ pc'[e] = pc[e]
      BY <2>2, <2>3, <3>1 DEF StartUnclaimed, StartWork, Goto
    <3>3. \A e \in Deliveries : AtWork(e)' => AtWork(e) /\ att'[e].leased = att[e].leased
      BY <3>2 DEF AtWork, Working
    <3> QED
      BY <1>1, <2>2, <3>2, <3>3, ChargeKept
  <2>4. CASE Claim(d, r) /\ ClaimStatus(rec, Request(d, r), now) = "CLAIMED"
    <3>1. /\ StartWork(d, r) /\ RequiresClaim(r)
          /\ Vacant(rec, now) /\ rec' = FreshRecord(Request(d, r), now)
      BY <2>2, <2>4, GrantedOnVacant DEF Claim
    <3>2. PICK a \in Attempts :
              /\ att' = [att EXCEPT ![d] = a] /\ a.owned = RequiresClaim(r)
              /\ RequiresClaim(r) => a.leased = now + Lease
      BY <2>2, <3>1, StartingState
    <3>3. /\ att'[d].leased = now + Lease
          /\ \A e \in Deliveries \ {d} : att'[e] = att[e] /\ pc'[e] = pc[e]
      BY <2>2, <3>1, <3>2 DEF StartWork, Goto
    <3>4. /\ rec' # Null /\ rec'.expires_at = 0 /\ OwnedBy(rec', OwnerOf[d])
          /\ rec'.lease_until = now + Lease
      BY <2>2, <3>1, FreshClaim DEF OwnedBy
    <3>5. \A e \in Deliveries : AtWork(e)' => e = d
      BY <3>1, <3>3, ClaimableIsFree DEF AtWork, Working
    <3>6. Punctual => \A w \in Workers : ~Active(w)'
      BY <1>1, <3>1, ClaimableIsFree
    <3>7. now' < rec'.lease_until /\ rec'.lease_until = att'[d].leased
      BY <2>2, <3>3, <3>4
    <3> QED
      BY <3>4, <3>5, <3>6, <3>7, DeliveryTakesCharge
  <2>5. CASE Claim(d, r) /\ ClaimStatus(rec, Request(d, r), now) # "CLAIMED"
    <3>1. /\ rec' = rec /\ att' = att
          /\ \A e \in Deliveries \ {d} : pc'[e] = pc[e]
          /\ pc'[d] = "done"
      BY <2>2, <2>5 DEF Claim, ShortCircuit, Goto
    <3>2. \A e \in Deliveries : AtWork(e)' => AtWork(e)
      BY <3>1 DEF AtWork, Working
    <3> QED
      BY <1>1, <2>2, <3>1, <3>2, ChargeKept
  <2> QED
    BY <2>1, <2>3, <2>4, <2>5
<1>4. CASE Settle(d)
  <2> DEFINE m == Remembered(att[d])
  <2>1. /\ pc[d] = "settle" /\ Working(d) /\ att' = [att EXCEPT ![d] = m] /\ now' = now
        /\ pc' = [pc EXCEPT ![d] = "done"]
        /\ rec' = IF att[d].owned THEN Settled(rec, OwnerOf[d], att[d]) ELSE rec
    BY <1>4 DEF Settle, Goto, Working, CallsInv, TypeOK
  <2>2. /\ pc'[d] = "done"
        /\ \A e \in Deliveries \ {d} : att'[e] = att[e] /\ pc'[e] = pc[e]
    BY <2>1 DEF CallsInv, TypeOK
  <2>3. ~AtWork(d)' /\ \A e \in Deliveries \ {d} : AtWork(e)' <=> AtWork(e)
    BY <2>2 DEF AtWork, Working
  <2>4. CASE ~att[d].owned
    <3>1. \A e \in Deliveries : AtWork(e)' => AtWork(e) /\ att'[e].leased = att[e].leased
      BY <2>2, <2>3
    <3> QED
      BY <1>1, <2>1, <2>4, <3>1, ChargeKept
  <2>5. CASE att[d].owned
    <3>1. AtWork(d) /\ OwnedBy(rec, OwnerOf[d])
      BY <2>1, <2>5 DEF AtWork, ChargeInv, InHand
    <3>2. \A e \in Deliveries : ~AtWork(e)'
      BY <2>3, <3>1 DEF ChargeInv
    <3>3. Punctual => \A w \in Workers : ~Active(w)'
      BY <1>1, <3>1 DEF ChargeInv
    <3>4. /\ rec \in ClaimRecords \cup {Null} /\ OwnerOf[d] \in Owners /\ att[d] \in Attempts
      BY WorkflowAssumption DEF CallsInv, TypeOK
    <3>5. rec'.expires_at = rec.expires_at /\ rec # Null
      BY <2>1, <2>5, <3>1, <3>4, SettledRecord DEF OwnedBy
    <3> QED
      BY <3>2, <3>3, <3>5 DEF ChargeInv
  <2> QED
    BY <2>4, <2>5
<1> QED
  BY <1>2, <1>3, <1>4, StepCases

\* A worker's step: only takeover puts it in charge, only settlement changes the record
\* otherwise.
LEMMA WorkerCharge ==
    ASSUME Punctual \/ OwnersApart, CallsInv, RTypeOK, ChargeInv,
           NEW w \in Workers, WorkerStep(w) \/ Die(w)
    PROVE  ChargeInv'
<1>1. /\ \A d \in Deliveries : AtWork(d)' <=> AtWork(d)
      /\ \A d \in Deliveries : att'[d].leased = att[d].leased
      /\ now' = now /\ rpc \in [Workers -> RPlaces]
  BY WorkerLeavesDeliveries DEF AtWork, Working, RTypeOK
<1>2. CASE TakeOver(w)
  <2>1. PICK fp \in Fingerprints \cup {Null} :
            /\ rec' = AfterClaim(rec, Recovery(w, fp), now)
            /\ rpc' = [rpc EXCEPT ![w] = IF ClaimStatus(rec, Recovery(w, fp), now) = "CLAIMED"
                                         THEN "confirm" ELSE "release"]
    BY <1>2 DEF TakeOver, RGoto
  <2>2. \A v \in Workers \ {w} : Active(v)' <=> Active(v)
    BY <1>1, <2>1 DEF Active
  <2>3. CASE ClaimStatus(rec, Recovery(w, fp), now) = "CLAIMED"
    <3>1. /\ Vacant(rec, now) \/ Unresolved(rec, now)
          /\ rec' # Null /\ rec'.state = "IN_PROGRESS" /\ rec'.owner = WorkerOwner[w]
          /\ rec'.lease_until = now + Lease
          /\ rec'.expires_at = 0 \/ (rec # Null /\ rec'.expires_at = rec.expires_at)
      BY <2>1, <2>3, TakenRecord
    <3>2. rec'.expires_at = 0
      BY <3>1 DEF ChargeInv
    <3>3. now' < rec'.lease_until
      BY <1>1, <3>1, WorkflowAssumption DEF CallsInv, TypeOK
    <3>4. \A d \in Deliveries : ~AtWork(d)'
      BY <1>1, <3>1, ClaimableIsFree
    <3>5. Punctual => \A v \in Workers : Active(v)' => v = w
      BY <2>2, <3>1, ClaimableIsFree
    <3> QED
      BY <3>1, <3>2, <3>3, <3>4, <3>5 DEF ChargeInv, InHand, OwnedBy
  <2>4. CASE ClaimStatus(rec, Recovery(w, fp), now) # "CLAIMED"
    <3>1. rec' = rec
      BY <2>1, <2>4, TakenRecord
    <3>2. rpc'[w] = "release"
      BY <1>1, <2>1, <2>4
    <3>3. \A v \in Workers : Active(v)' => Active(v)
      BY <2>2, <3>2 DEF Active
    <3> QED
      BY <1>1, <3>1, <3>3, ChargeKept
  <2> QED
    BY <2>3, <2>4
<1>3. CASE SettleEntry(w)
  <2>1. /\ Active(w) /\ rpc[w] \in {"complete", "park", "fail"}
        /\ rec' = AfterSettlement(w) /\ rpc' = [rpc EXCEPT ![w] = "release"]
    BY <1>3 DEF SettleEntry, RGoto, Active
  <2>2. ~Active(w)' /\ \A v \in Workers \ {w} : Active(v)' <=> Active(v)
    BY <1>1, <2>1 DEF Active
  <2>3. CASE ~OwnedBy(rec, WorkerOwner[w])
    <3>1. rec' = rec
      BY <2>1, <2>3, EntrySettled
    <3>2. \A v \in Workers : Active(v)' => Active(v)
      BY <2>2
    <3> QED
      BY <1>1, <3>1, <3>2, ChargeKept
  <2>4. CASE OwnedBy(rec, WorkerOwner[w])
    <3>1. rec' # Null /\ rec'.expires_at = rec.expires_at /\ rec # Null
      BY <2>1, <2>4, EntrySettled DEF OwnedBy
    <3>2. \A d \in Deliveries : ~AtWork(d)
      <4>1. CASE Punctual
        BY <2>1, <4>1 DEF ChargeInv
      <4>2. CASE OwnersApart
        BY <2>4, <4>2 DEF ChargeInv, InHand, OwnedBy, OwnersApart
      <4> QED
        BY <4>1, <4>2
    <3>3. Punctual => \A v \in Workers : ~Active(v)'
      BY <2>1, <2>2 DEF ChargeInv
    <3> QED
      BY <1>1, <3>1, <3>2, <3>3 DEF ChargeInv
  <2> QED
    BY <2>3, <2>4
<1>4. CASE ~TakeOver(w) /\ ~SettleEntry(w)
  <2>1. rec' = rec
    BY <1>4, WorkerLeavesDeliveries
  <2>2. \A v \in Workers : Active(v)' => Active(v)
    BY <1>1, <1>4 DEF Active, WorkerStep, Die, Acquire, KeepLease, LoseLease, Confirm,
       ConfirmUnknown, Replay, ReplayRefused, ReplayUnreported, HookRaises, Release, RGoto,
       NextAfterConfirm
  <2> QED
    BY <1>1, <2>1, <2>2, ChargeKept
<1> QED
  BY <1>2, <1>3, <1>4

\* Every step leaves one in charge at most.
LEMMA ChargeStep ==
    ASSUME NoTtl, Prompt, Punctual \/ OwnersApart, CallsInv, RTypeOK, ChargeInv, [RNext]_allvars
    PROVE  ChargeInv'
<1>1. ASSUME NEW d \in Deliveries, Step(d) \/ Crash(d), UNCHANGED rvars
      PROVE  ChargeInv'
  BY <1>1, DeliveryCharge DEF rvars
<1>2. CASE UNCHANGED <<rec, now, pc, att, rpc>>
  BY <1>2, ChargeKept DEF AtWork, Working, Active
<1>3. CASE Tick /\ (Punctual /\ now' # now => WorkersKeepUp) /\ UNCHANGED rvars
  <2>1. /\ UNCHANGED <<rec, pc, att, rpc>> /\ now \in Nat /\ now' = now + 1
        /\ \A d \in Deliveries : AtWork(d) => now + 1 < att[d].leased
        /\ Punctual => WorkersKeepUp
    BY <1>3 DEF Tick, AtWork, rvars, CallsInv, TypeOK
  <2>2. \A d \in Deliveries : AtWork(d)' <=> AtWork(d)
    BY <2>1 DEF AtWork, Working
  <2>3. \A w \in Workers : Active(w)' <=> Active(w)
    BY <2>1 DEF Active
  <2>4. \A d \in Deliveries : AtWork(d) => InHand(OwnerOf[d])'
    BY <2>1 DEF ChargeInv, InHand
  <2>5. Punctual => \A w \in Workers : Active(w) => InHand(WorkerOwner[w])'
    BY <2>1 DEF ChargeInv, InHand, WorkersKeepUp, Active
  <2> QED
    BY <2>1, <2>2, <2>3, <2>4, <2>5 DEF ChargeInv
<1>4. ASSUME NEW w \in Workers, WorkerStep(w) \/ Die(w)
      PROVE  ChargeInv'
  BY <1>4, WorkerCharge
<1>5. CASE Next /\ (Punctual /\ now' # now => WorkersKeepUp) /\ UNCHANGED rvars
  <2>1. ASSUME NEW d \in Deliveries, Apply(d) \/ Reject(d)
        PROVE  UNCHANGED <<rec, now, pc, att, rpc>>
    BY <1>5, <2>1 DEF Apply, Reject, rvars
  <2>2. CASE Finished
    BY <1>2, <1>5, <2>2 DEF Finished, vars, rvars
  <2> QED
    BY <1>1, <1>2, <1>3, <1>5, <2>1, <2>2 DEF Next
<1> QED
  BY <1>2, <1>4, <1>5 DEF RNext, allvars

\* Whoever is in charge of the record, nobody else is.
LEMMA ChargeInvariant ==
    ASSUME NoTtl, Prompt, Punctual \/ OwnersApart
    PROVE  RSpec => [](CallsInv /\ RTypeOK /\ ChargeInv)
<1>1. RInit => ChargeInv
  BY DEF RInit, Init, ChargeInv, AtWork, Working, Active
<1>2. CallsInv /\ RTypeOK /\ ChargeInv /\ [RNext]_allvars => ChargeInv'
  BY ChargeStep
<1>3. CallsInv /\ RTypeOK /\ [RNext]_allvars => CallsInv' /\ RTypeOK'
  BY RTypesStep
<1> QED
  BY <1>1, <1>2, <1>3, RTypesInit, PTL DEF RSpec

\* Without a ttl, and where deliveries finish within their lease, no reconciler
\* asks or replays for a request a delivery works on: its own claim is then unlapsed,
\* or of another owner and refused.
THEOREM RecoveryKeepsOff ==
    ASSUME NoTtl, Prompt, Punctual \/ OwnersApart
    PROVE  RSpec => []ReconciliationInv
<1>1. ChargeInv => RecoveryAlone
  BY DEF ChargeInv, RecoveryAlone, Acting, AtWork, Active, InHand, OwnedBy, OwnersApart
<1> QED
  BY <1>1, ChargeInvariant, PTL DEF ReconciliationInv

-----------------------------------------------------------------------------
(* What a delivery's own steps do to what it knows of its call *)

\* Beside what a step is about, a delivery's local state stays.
LEMMA FailureNoted ==
    ASSUME CallsInv, NEW d \in Deliveries,
           \/ att' = [att EXCEPT ![d].failed = TRUE]
           \/ \E kind \in {"deterministic", "other"} :
                 att' = [att EXCEPT ![d].failed = TRUE, ![d].error = kind]
    PROVE  /\ att'[d].failed /\ att'[d].owned = att[d].owned /\ att'[d].agent = att[d].agent
           /\ att'[d].outcome = att[d].outcome /\ att'[d].dehydrated = att[d].dehydrated
           /\ att'[d].deadline = att[d].deadline /\ att'[d].until = att[d].until
           /\ \A e \in Deliveries \ {d} : att'[e] = att[e]
<1>1. att[d] \in Attempts /\ att \in [Deliveries -> Attempts]
  BY DEF CallsInv, TypeOK
<1>2. CASE att' = [att EXCEPT ![d].failed = TRUE]
  BY <1>1, <1>2 DEF Attempts
<1>3. ASSUME NEW kind \in {"deterministic", "other"},
             att' = [att EXCEPT ![d].failed = TRUE, ![d].error = kind]
      PROVE  /\ att'[d].failed /\ att'[d].owned = att[d].owned /\ att'[d].agent = att[d].agent
             /\ att'[d].outcome = att[d].outcome /\ att'[d].dehydrated = att[d].dehydrated
             /\ att'[d].deadline = att[d].deadline /\ att'[d].until = att[d].until
             /\ \A e \in Deliveries \ {d} : att'[e] = att[e]
  BY <1>1, <1>3 DEF Attempts
<1> QED
  BY <1>2, <1>3

\* An outcome is noted and nothing else.
LEMMA OutcomeNoted ==
    ASSUME CallsInv, NEW d \in Deliveries, NEW o \in Outcomes,
           att' = [att EXCEPT ![d].outcome = o]
    PROVE  /\ att'[d].outcome = o /\ att'[d].owned = att[d].owned /\ att'[d].agent = att[d].agent
           /\ att'[d].failed = att[d].failed /\ att'[d].dehydrated = att[d].dehydrated
           /\ att'[d].deadline = att[d].deadline
           /\ \A e \in Deliveries \ {d} : att'[e] = att[e]
<1>1. att[d] \in Attempts /\ att \in [Deliveries -> Attempts]
  BY DEF CallsInv, TypeOK
<1> QED
  BY <1>1 DEF Attempts

\* So is a pause, or that the call is under way.
LEMMA PauseOrCallNoted ==
    ASSUME CallsInv, NEW d \in Deliveries, Dehydrate(d) \/ CallTool(d)
    PROVE  /\ att'[d].outcome = att[d].outcome /\ att'[d].owned = att[d].owned
           /\ att'[d].agent = att[d].agent /\ att'[d].failed = att[d].failed
           /\ att'[d].deadline = att[d].deadline
           /\ CallTool(d) => att'[d].dehydrated = att[d].dehydrated
           /\ Dehydrate(d) => att'[d].until = att[d].until
           /\ \A e \in Deliveries \ {d} : att'[e] = att[e]
<1>1. att[d] \in Attempts /\ att \in [Deliveries -> Attempts]
  BY DEF CallsInv, TypeOK
<1> QED
  BY <1>1 DEF Dehydrate, CallTool, Attempts

\* An interrupt is noted and nothing else.
LEMMA InterruptNoted ==
    ASSUME CallsInv, NEW d \in Deliveries, Interrupt(d)
    PROVE  /\ att'[d].interrupted /\ att'[d].owned = att[d].owned
           /\ att'[d].agent = att[d].agent /\ att'[d].outcome = att[d].outcome
           /\ att'[d].failed = att[d].failed /\ att'[d].dehydrated = att[d].dehydrated
           /\ att'[d].deadline = att[d].deadline /\ att'[d].until = att[d].until
           /\ \A e \in Deliveries \ {d} : att'[e] = att[e]
<1>1. att[d] \in Attempts /\ att \in [Deliveries -> Attempts]
  BY DEF CallsInv, TypeOK
<1> QED
  BY <1>1 DEF Interrupt, Attempts

\* A delivery that has settled remembers its call and how its request ended.
LEMMA AnswerRemembered ==
    ASSUME CallsInv, NEW d \in Deliveries, Settle(d)
    PROVE  /\ att'[d].outcome = att[d].outcome /\ att'[d].owned = att[d].owned
           /\ att'[d].failed = att[d].failed /\ att'[d].interrupted = att[d].interrupted
           /\ att'[d].until = att[d].until /\ ~att'[d].dehydrated /\ att'[d].deadline = 0
           /\ \A e \in Deliveries \ {d} : att'[e] = att[e]
<1>1. att[d] \in Attempts /\ att \in [Deliveries -> Attempts]
  BY DEF CallsInv, TypeOK
<1> QED
  BY <1>1 DEF Settle, Remembered, NewAttempt, Attempts

\* A step of one delivery moves no other and withdraws no other's request.
LEMMA OthersStay ==
    ASSUME CallsInv, NEW d \in Deliveries, Step(d) \/ Crash(d)
    PROVE  /\ \A e \in Deliveries \ {d} : att'[e] = att[e] /\ pc'[e] = pc[e]
           /\ committed' = committed
           /\ inflight' \subseteq inflight \cup {d} /\ inflight \ {d} \subseteq inflight'
           /\ ~CallTool(d) => inflight' \subseteq inflight
<1>1. att \in [Deliveries -> Attempts] /\ pc \in [Deliveries -> Places]
  BY DEF CallsInv, TypeOK
<1>2. CASE Start(d)
  <2>1. PICK r \in RoutingsOf[d] : StartUnclaimed(d, r) \/ Claim(d, r)
    BY <1>2 DEF Start
  <2> QED
    BY <1>1, <1>2, <2>1 DEF Start, StartUnclaimed, Claim, StartWork, ShortCircuit, Goto
<1>3. CASE \/ SetupDone(d) \/ GatePasses(d) \/ NoTool(d) \/ GateBlocks(d) \/ InferDone(d)
           \/ SloMet(d) \/ Dehydrate(d) \/ ToolAnswers(d) \/ Settle(d) \/ LLMOnlyRuns(d)
  BY <1>1, <1>3 DEF SetupDone, GatePasses, NoTool, GateBlocks, InferDone, SloMet, Dehydrate,
     ToolAnswers, Settle, LLMOnlyRuns, Goto
<1>4. CASE AgentRaises(d) \/ DeadlineRefusesCall(d) \/ InferFails(d) \/ SloBreached(d)
           \/ \E kind \in {"deterministic", "other"} : SetupFails(d, kind)
  BY <1>1, <1>4 DEF AgentRaises, DeadlineRefusesCall, InferFails, SloBreached, SetupFails,
     Swallow, Goto
<1>5. CASE ToolTimesOut(d) \/ ToolDrops(d) \/ BridgeExpires(d) \/ Crash(d) \/ Interrupt(d)
  BY <1>1, <1>5 DEF ToolTimesOut, ToolDrops, BridgeExpires, Crash, Interrupt, Abandon, Swallow,
     Goto
<1>6. CASE CallTool(d)
  BY <1>1, <1>6 DEF CallTool, Goto
<1> QED
  BY <1>2, <1>3, <1>4, <1>5, <1>6 DEF Step

-----------------------------------------------------------------------------
(* No blind retry *)

Unanswered(e) == att[e].until # 0 /\ att[e].outcome = "NONE"

\* A call without an outcome is under way, its delivery died, its answer was lost and
\* its delivery failed for it, or it was interrupted: then the request is settled for
\* good.
PendingOf(e) ==
    /\ pc[e] \in {"new", "setup", "agent", "calling"} => ~att[e].failed
    /\ Unanswered(e) =>
          \/ pc[e] \in {"calling", "dead"}
          \/ pc[e] \in {"latency", "settle", "done"} /\ att[e].failed
          \/ pc[e] = "settle" /\ ~att[e].failed /\ ~att[e].dehydrated
          \/ pc[e] = "done" /\ rec # Null /\ rec.state = "SUCCEEDED"

\* Without a ttl a success stays what the record says.
LEMMA SuccessStays ==
    ASSUME NoTtl, WorkflowInv, rec # Null, rec.state = "SUCCEEDED",
           NEW d \in Deliveries, Step(d) \/ Crash(d)
    PROVE  rec' = rec
<1>1. CASE Start(d)
  <2>1. PICK r \in RoutingsOf[d] : StartUnclaimed(d, r) \/ Claim(d, r)
    BY <1>1 DEF Start
  <2>2. r \in Routings /\ ~Vacant(rec, now)
    BY WorkflowAssumption DEF WorkflowInv, HeldClaim, Vacant, Forgotten
  <2>3. ClaimStatus(rec, Request(d, r), now) # "CLAIMED"
    BY <2>2, GrantedOnVacant
  <2> QED
    BY <2>1, <2>3 DEF StartUnclaimed, Claim, ShortCircuit
<1>2. CASE Settle(d)
  <2>1. ~att[d].owned
    BY <1>2 DEF Settle, Working, WorkflowInv, HeldClaim
  <2> QED
    BY <1>2, <2>1 DEF Settle
<1>3. ASSUME NEW a, NEW place, Moves(d, a, place)
      PROVE  rec' = rec
  BY <1>3 DEF Moves
<1> QED
  BY <1>1, <1>2, <1>3, StepCases, WorkflowCalls

\* A step of a delivery keeps PendingOf().
LEMMA PendingStep ==
    ASSUME NoTtl, WorkflowInv, NEW d \in Deliveries, Step(d) \/ Crash(d),
           \A e \in Deliveries : PendingOf(e)
    PROVE  \A e \in Deliveries : PendingOf(e)'
<1>1. \A e \in Deliveries \ {d} : att'[e] = att[e] /\ pc'[e] = pc[e]
  BY OthersStay, WorkflowCalls
<1>2. \A e \in Deliveries \ {d} : PendingOf(e)'
  BY <1>1, SuccessStays DEF PendingOf, Unanswered
<1>3. /\ pc \in [Deliveries -> Places] /\ PendingOf(d) /\ CallsInv
      /\ pc[d] \in {"new", "setup", "agent"} => att[d].until = 0
  BY WorkflowCalls DEF WorkflowInv, TypeOK, EffectsAreClaimed
<1>4. PendingOf(d)'
  <2>1. ASSUME pc[d] \in {"new", "setup", "agent", "infer", "latency"},
               att'[d].until = att[d].until, att'[d].outcome = att[d].outcome,
               pc'[d] \in {"setup", "agent"} => att'[d].failed = att[d].failed /\ pc[d] # "infer"
                                                 /\ pc[d] # "latency",
               pc[d] = "latency" => pc'[d] = "settle" /\ (att[d].failed => att'[d].failed),
               pc'[d] \notin {"new", "calling"}
        PROVE  PendingOf(d)'
    BY <1>3, <2>1 DEF PendingOf, Unanswered
  <2>2. CASE Start(d)
    <3>1. PICK r \in RoutingsOf[d] : StartUnclaimed(d, r) \/ Claim(d, r)
      BY <2>2 DEF Start
    <3>2. pc[d] = "new"
      BY <2>2 DEF Start
    <3>3. CASE StartWork(d, r)
      <4>1. PICK a \in Attempts :
                /\ att' = [att EXCEPT ![d] = a] /\ a.until = 0 /\ a.failed = att[d].failed
        BY <1>3, <3>2, <3>3, StartingState
      <4>2. att'[d] = a /\ pc'[d] = "setup"
        BY <1>3, <3>3, <4>1 DEF StartWork, Goto, CallsInv, TypeOK
      <4> QED
        BY <1>3, <3>2, <4>1, <4>2 DEF PendingOf, Unanswered
    <3>4. CASE \E st : ShortCircuit(d, st)
      BY <1>3, <2>1, <3>2, <3>4 DEF ShortCircuit, Goto
    <3> QED
      BY <3>1, <3>3, <3>4 DEF StartUnclaimed, Claim
  <2>3. CASE Settle(d)
    <3>1. pc[d] = "settle" /\ pc'[d] = "done"
      BY <1>3, <2>3 DEF Settle, Goto
    <3>2. CASE Unanswered(d)
      <4>0. CASE att[d].failed
        BY <1>3, <2>3, <3>1, <4>0, AnswerRemembered DEF PendingOf
      <4> SUFFICES ASSUME ~att[d].failed PROVE PendingOf(d)'
        BY <4>0
      <4>1. ~att[d].dehydrated /\ att[d].outcome = "NONE" /\ att[d].owned
        BY <1>3, <3>1, <3>2 DEF PendingOf, Unanswered, CallsInv, EffectsAreClaimed
      <4>2. /\ OwnedBy(rec, OwnerOf[d]) /\ OwnerOf[d] \in Owners /\ att[d] \in Attempts
            /\ rec \in ClaimRecords \cup {Null}
        BY <3>1, <4>1, WorkflowAssumption DEF WorkflowInv, HeldClaim, Working, OwnedBy, TypeOK
      <4>3. rec' # Null /\ rec'.state = "SUCCEEDED"
        BY <2>3, <4>1, <4>2, SettledRecord DEF Settle
      <4> QED
        BY <3>1, <4>3 DEF PendingOf
    <3>3. CASE ~Unanswered(d)
      <4>1. ~Unanswered(d)'
        BY <1>3, <2>3, <3>3, AnswerRemembered DEF Unanswered
      <4> QED
        BY <3>1, <4>1 DEF PendingOf
    <3> QED
      BY <3>2, <3>3
  <2>4. CASE Crash(d)
    BY <1>3, <2>4 DEF Crash, Goto, PendingOf
  <2>5. CASE \/ SetupDone(d) \/ GatePasses(d) \/ NoTool(d) \/ GateBlocks(d) \/ InferDone(d)
             \/ SloMet(d)
    <3>1. /\ att' = att /\ pc[d] \in {"setup", "agent", "infer", "latency"}
          /\ pc'[d] \in {"infer", "latency", "settle"} \/ (pc[d] = "setup" /\ pc'[d] = "agent")
          /\ pc[d] = "latency" => pc'[d] = "settle"
      BY <1>3, <2>5 DEF SetupDone, GatePasses, NoTool, GateBlocks, InferDone, SloMet, AtTool,
         AtAgent, Goto
    <3> QED
      BY <2>1, <3>1
  <2>6. CASE Dehydrate(d)
    <3>1. pc[d] = "agent" /\ pc'[d] = "settle"
      BY <1>3, <2>6 DEF Dehydrate, AtAgent, Goto
    <3> QED
      BY <1>3, <2>1, <2>6, <3>1, PauseOrCallNoted
  <2>7. CASE \/ AgentRaises(d) \/ DeadlineRefusesCall(d) \/ InferFails(d) \/ SloBreached(d)
             \/ \E kind \in {"deterministic", "other"} : SetupFails(d, kind)
    <3>1. /\ pc[d] \in {"setup", "agent", "infer", "latency"}
          /\ pc'[d] \in {"latency", "settle"}
      BY <1>3, <2>7 DEF AgentRaises, DeadlineRefusesCall, InferFails, SloBreached, SetupFails,
         AtTool, AtAgent, Swallow, Goto
    <3>2. /\ att'[d].until = att[d].until /\ att'[d].outcome = att[d].outcome
          /\ att'[d].failed /\ (pc[d] = "latency" => pc'[d] = "settle")
      BY <1>3, <2>7, FailureNoted DEF AtTool, AtAgent, Goto, AgentRaises, DeadlineRefusesCall, InferFails, SloBreached,
         SetupFails, Swallow
    <3> QED
      BY <2>1, <3>1, <3>2
  <2>8. CASE LLMOnlyRuns(d)
    <3>1. pc[d] = "agent" /\ pc'[d] = "settle"
      BY <1>3, <2>8 DEF LLMOnlyRuns, Goto
    <3>2. att'[d].until = att[d].until /\ att'[d].outcome = att[d].outcome
      BY <1>3, <2>8, FailureNoted DEF LLMOnlyRuns
    <3> QED
      BY <2>1, <3>1, <3>2
  <2>9. CASE ToolDrops(d) \/ BridgeExpires(d)
    <3>1. pc'[d] = "latency"
      BY <1>3, <2>9 DEF ToolDrops, BridgeExpires, Swallow, Goto
    <3>2. att'[d].failed
      BY <1>3, <2>9, FailureNoted DEF ToolDrops, BridgeExpires, Swallow
    <3> QED
      BY <3>1, <3>2 DEF PendingOf
  <2>10. CASE CallTool(d)
    <3>1. pc[d] = "agent" /\ pc'[d] = "calling" /\ att'[d].failed = att[d].failed
      BY <1>3, <2>10, PauseOrCallNoted DEF CallTool, AtTool, AtAgent, Goto
    <3> QED
      BY <1>3, <3>1 DEF PendingOf
  <2>11. CASE ToolAnswers(d) \/ ToolTimesOut(d)
    <3>1. pc'[d] = "infer"
      BY <1>3, <2>11 DEF ToolAnswers, ToolTimesOut, Goto
    <3>2. att'[d].outcome # "NONE"
      BY <1>3, <2>11, OutcomeNoted DEF ToolAnswers, ToolTimesOut, Reported, OutcomeOfTimeout,
         Outcomes
    <3> QED
      BY <3>1, <3>2 DEF PendingOf, Unanswered
  <2>12. CASE Interrupt(d)
    <3>1. /\ pc[d] \in {"setup", "agent", "calling", "infer", "latency"} /\ pc'[d] = "settle"
      BY <1>3, <2>12 DEF Interrupt, Goto
    <3>2. /\ att'[d].until = att[d].until /\ att'[d].outcome = att[d].outcome
          /\ att'[d].failed = att[d].failed /\ att'[d].dehydrated = att[d].dehydrated
      BY <1>3, <2>12, InterruptNoted
    <3>3. CASE pc[d] = "calling"
      BY <1>3, <3>1, <3>2, <3>3 DEF PendingOf, CallsInv, EffectsAreClaimed
    <3> QED
      BY <2>1, <3>1, <3>2, <3>3
  <2> QED
    BY <2>2, <2>3, <2>4, <2>5, <2>6, <2>7, <2>8, <2>9, <2>10, <2>11, <2>12 DEF Step
<1> QED
  BY <1>2, <1>4

\* No delivery sends the tool request while an earlier one's call has no answer (it
\* timed out, was interrupted, its delivery died or it is under way), but where a
\* broken connection or a bridge that gave up lost the answer.
THEOREM OnlyLostCallsRepeated ==
    ASSUME NoTtl
    PROVE  Spec => OnlyLostCallsAreRepeated
<1> DEFINE A == \A d, e \in Deliveries :
                  pc[d] = "agent" /\ pc'[d] = "calling" /\ e # d /\ Uncertain(e)
                     => Lost(e)
           P == \A e \in Deliveries : PendingOf(e)
<1>1. ASSUME WorkflowInv, P, [Next]_vars PROVE A
  <2> SUFFICES ASSUME NEW d \in Deliveries, NEW e \in Deliveries,
                      pc[d] = "agent", pc'[d] = "calling", e # d, Uncertain(e), ~Lost(e)
               PROVE  FALSE
    OBVIOUS
  <2>1. pc \in [Deliveries -> Places]
    BY <1>1 DEF WorkflowInv, TypeOK
  <2>2. ASSUME NEW f \in Deliveries, NEW place, Goto(f, place)
        PROVE  f = d /\ place = "calling"
    BY <2>1, <2>2 DEF Goto
  <2>3. CallTool(d)
    <3>1. ~UNCHANGED pc
      BY <2>1
    <3>2. PICK f \in Deliveries : Step(f) \/ Crash(f)
      BY <3>1, <1>1 DEF Next, Apply, Reject, Tick, Finished, vars
    <3>3. ~Start(f)
      BY <2>2 DEF Start, StartUnclaimed, Claim, StartWork, ShortCircuit
    <3>4. ~(AgentRaises(f) \/ DeadlineRefusesCall(f) \/ ToolDrops(f) \/ BridgeExpires(f) \/ InferFails(f))
      BY <2>2 DEF AgentRaises, DeadlineRefusesCall, ToolDrops, BridgeExpires, InferFails, Swallow
    <3>5. ~(SetupDone(f) \/ LLMOnlyRuns(f) \/ Dehydrate(f) \/ GatePasses(f) \/ NoTool(f) \/ GateBlocks(f))
      BY <2>2 DEF SetupDone, LLMOnlyRuns, Dehydrate, GatePasses, NoTool, GateBlocks
    <3>6. ~(ToolAnswers(f) \/ ToolTimesOut(f) \/ InferDone(f) \/ SloBreached(f) \/ SloMet(f)
            \/ Settle(f) \/ Crash(f) \/ Interrupt(f))
      BY <2>2 DEF ToolAnswers, ToolTimesOut, InferDone, SloBreached, SloMet, Settle, Crash,
         Interrupt
    <3>7. ~\E kind \in {"deterministic", "other"} : SetupFails(f, kind)
      BY <2>2 DEF SetupFails
    <3>8. CallTool(f)
      BY <3>2, <3>3, <3>4, <3>5, <3>6, <3>7 DEF Step
    <3> QED
      BY <3>8, <2>2 DEF CallTool
  <2>4. Holds(d) /\ Working(d) /\ att[d].owned
    BY <2>3, <1>1 DEF CallTool, AtTool, AtAgent, Holds, Working, WorkflowInv, EffectsAreClaimed
  <2>5. att[e].until # 0 /\ att[e].owned
    BY <1>1 DEF Uncertain, WorkflowInv, EffectsAreClaimed
  <2>6. ~Holds(e) /\ rec.state = "IN_PROGRESS"
    BY <2>4, <1>1 DEF WorkflowInv, OneHolder, HeldClaim
  <2>7. ~Working(e) /\ pc[e] # "dead" /\ att[e].outcome = "NONE"
    BY <2>5, <2>6, <1>1 DEF Uncertain, Holds, WorkflowInv, TypeOK, Attempts, Outcomes
  <2>8. PendingOf(e) /\ Unanswered(e)
    BY <2>5, <2>7, <1>1 DEF Unanswered
  <2> QED
    BY <1>1, <2>6, <2>7, <2>8 DEF PendingOf, Working, Lost
<1>2. ASSUME WorkflowInv, P, [Next]_vars PROVE P'
  <2>1. ASSUME NEW d \in Deliveries, Step(d) \/ Crash(d)
        PROVE  P'
    BY <1>2, <2>1, PendingStep
  <2>2. CASE UNCHANGED <<rec, pc, att>>
    BY <1>2, <2>2 DEF PendingOf, Unanswered
  <2> QED
    BY <1>2, <2>1, <2>2 DEF Next, Apply, Reject, Tick, Finished, vars
<1>3. Init => P
  BY DEF Init, PendingOf, Unanswered, NewAttempt
<1>4. [][A]_vars => OnlyLostCallsAreRepeated
  BY PTL DEF OnlyLostCallsAreRepeated
<1> HIDE DEF A, P
<1> QED
  BY <1>1, <1>2, <1>3, <1>4, WorkflowInvariant, PTL DEF Spec

-----------------------------------------------------------------------------
(* Settled truthfully *)

\* Every write is sent and none is refused: no gate pauses or blocks it, and the
\* system of record applies what reaches it
WritesGoThrough == Governed = {} /\ Faults \cap {"blocked", "rejected"} = {}

\* A delivery under a claim that is not failing has called its tool, and an answer
\* it has is that the call took effect; one that has none was interrupted.
CalledOf(d) ==
    att[d].owned =>
      /\ pc[d] # "new"
      /\ pc[d] \in {"setup", "agent"} => att[d].agent \in ToolIntents
      /\ pc[d] = "calling" => d \in inflight \cup committed /\ att[d].outcome = "NONE"
      /\ pc[d] = "infer" => att[d].outcome \in {"COMMITTED", "UNKNOWN"}
      /\ pc[d] \in {"latency", "settle"} =>
            \/ att[d].failed
            \/ att[d].outcome \in {"COMMITTED", "UNKNOWN"}
            \/ pc[d] = "settle" /\ att[d].outcome = "NONE" /\ Struck(d)

StoredTruth ==
    \/ rec.result = "COMMITTED" /\ HasEffect
    \/ rec.result = "NONE" /\ \E d \in Deliveries : Struck(d)

TruthInv ==
    /\ \A d \in Deliveries : CalledOf(d)
    /\ \A w \in Workers : rpc[w] = "complete" => HasEffect
    /\ rec # Null /\ rec.state = "SUCCEEDED" => StoredTruth

\* A step of a delivery keeps CalledOf().
LEMMA CalledStep ==
    ASSUME WritesGoThrough, CallsInv, NEW d \in Deliveries, Step(d) \/ Crash(d),
           \A e \in Deliveries : CalledOf(e)
    PROVE  \A e \in Deliveries : CalledOf(e)'
<1>1. \A e \in Deliveries \ {d} : CalledOf(e)'
  BY OthersStay DEF CalledOf, Struck
<1>2. pc \in [Deliveries -> Places]
  BY DEF CallsInv, TypeOK
<1>3. CalledOf(d)'
  <2>1. CASE Start(d)
    <3>1. PICK r \in RoutingsOf[d] : StartUnclaimed(d, r) \/ Claim(d, r)
      BY <2>1 DEF Start
    <3>2. pc[d] = "new"
      BY <2>1 DEF Start
    <3>3. CASE StartWork(d, r)
      <4>1. PICK a \in Attempts :
                /\ att' = [att EXCEPT ![d] = a] /\ a.owned = RequiresClaim(r)
                /\ RequiresClaim(r) => a.leased = now + Lease /\ a.agent \in ToolIntents
        BY <3>2, <3>3, StartingState
      <4>2. att'[d] = a /\ pc'[d] = "setup"
        BY <1>2, <3>3, <4>1 DEF StartWork, Goto, CallsInv, TypeOK
      <4> QED
        BY <4>1, <4>2 DEF CalledOf
    <3>4. CASE \E st : ShortCircuit(d, st)
      BY <1>2, <3>4 DEF ShortCircuit, Goto, CalledOf
    <3> QED
      BY <3>1, <3>3, <3>4 DEF StartUnclaimed, Claim
  <2>2. CASE Settle(d) \/ Crash(d)
    BY <1>2, <2>2 DEF Settle, Crash, Goto, CalledOf
  <2>3. CASE SetupDone(d) \/ InferDone(d) \/ SloMet(d)
    BY <1>2, <2>3 DEF SetupDone, InferDone, SloMet, Goto, CalledOf
  <2>4. CASE NoTool(d)
    BY <1>2, <2>4 DEF NoTool, AtAgent, Goto, CalledOf
  <2>5. ~Dehydrate(d) /\ ~GatePasses(d) /\ ~GateBlocks(d)
    BY DEF WritesGoThrough, Dehydrate, GatePasses, GateBlocks
  <2>6. CASE \/ AgentRaises(d) \/ DeadlineRefusesCall(d) \/ ToolDrops(d) \/ BridgeExpires(d)
             \/ InferFails(d) \/ SloBreached(d)
             \/ \E kind \in {"deterministic", "other"} : SetupFails(d, kind)
    <3>1. att'[d].failed
      BY <2>6, FailureNoted DEF AgentRaises, DeadlineRefusesCall, ToolDrops, BridgeExpires,
         InferFails, SloBreached, SetupFails, Swallow
    <3>2. pc'[d] \in {"latency", "settle"}
      BY <1>2, <2>6 DEF AgentRaises, DeadlineRefusesCall, ToolDrops, BridgeExpires,
         InferFails, SloBreached, SetupFails, Swallow, Goto
    <3> QED
      BY <3>1, <3>2 DEF CalledOf
  <2>7. CASE LLMOnlyRuns(d)
    <3>1. ~att[d].owned
      BY <2>7 DEF LLMOnlyRuns, CalledOf, ToolIntents
    <3>2. att'[d].owned = att[d].owned
      <4>1. CASE att' = att
        BY <4>1
      <4>2. CASE att' = [att EXCEPT ![d].failed = TRUE]
        BY <4>2, FailureNoted
      <4> QED
        BY <2>7, <4>1, <4>2 DEF LLMOnlyRuns
    <3> QED
      BY <3>1, <3>2 DEF CalledOf
  <2>8. CASE CallTool(d)
    <3>1. pc[d] = "agent" /\ pc'[d] = "calling" /\ d \in inflight'
      BY <1>2, <2>8 DEF CallTool, AtTool, AtAgent, Goto
    <3>2. att[d].outcome = "NONE" /\ att'[d].outcome = att[d].outcome
      BY <2>8, <3>1, PauseOrCallNoted DEF CallsInv, EffectsAreClaimed
    <3> QED
      BY <3>1, <3>2 DEF CalledOf
  <2>9. CASE ToolAnswers(d)
    <3>1. pc[d] = "calling" /\ d \notin inflight /\ pc'[d] = "infer"
      BY <1>2, <2>9 DEF ToolAnswers, Goto
    <3>2. att'[d].outcome = Reported(d) /\ att'[d].owned = att[d].owned
      BY <2>9, OutcomeNoted DEF ToolAnswers, Reported, Outcomes
    <3> QED
      BY <3>1, <3>2 DEF CalledOf, Reported
  <2>10. CASE ToolTimesOut(d)
    <3>1. pc'[d] = "infer"
      BY <1>2, <2>10 DEF ToolTimesOut, Goto
    <3>2. att'[d].outcome = "UNKNOWN"
      BY <2>10, OutcomeNoted DEF ToolTimesOut, OutcomeOfTimeout, Outcomes
    <3> QED
      BY <3>1, <3>2 DEF CalledOf
  <2>11. CASE Interrupt(d)
    <3>1. pc[d] \in {"setup", "agent", "calling", "infer", "latency"} /\ pc'[d] = "settle"
      BY <1>2, <2>11 DEF Interrupt, Goto
    <3>2. /\ att'[d].interrupted /\ att'[d].owned = att[d].owned
          /\ att'[d].outcome = att[d].outcome /\ att'[d].failed = att[d].failed
      BY <2>11, InterruptNoted
    <3>3. pc[d] \in {"setup", "agent"} => att[d].outcome = "NONE"
      BY DEF CallsInv, EffectsAreClaimed
    <3> QED
      BY <3>1, <3>2, <3>3 DEF CalledOf, Struck
  <2> QED
    BY <2>1, <2>2, <2>3, <2>4, <2>5, <2>6, <2>7, <2>8, <2>9, <2>10, <2>11 DEF Step
<1> QED
  BY <1>1, <1>3

\* Who was interrupted under a claim stays so.
LEMMA StruckStays ==
    ASSUME CallsInv, NEW d \in Deliveries, Step(d) \/ Crash(d), pc[d] = "new" => ~att[d].owned
    PROVE  \A e \in Deliveries : Struck(e) => Struck(e)'
<1>1. \A e \in Deliveries \ {d} : Struck(e) => Struck(e)'
  BY OthersStay DEF Struck
<1>2. CASE Start(d)
  BY <1>1, <1>2 DEF Start, Struck
<1>3. CASE Settle(d)
  BY <1>1, <1>3, AnswerRemembered DEF Struck
<1>4. ASSUME NEW a, NEW place, Moves(d, a, place)
      PROVE  Struck(d) => Struck(d)'
  <2>1. att'[d] = a
    BY <1>4 DEF Moves, CallsInv, TypeOK
  <2> QED
    BY <1>4, <2>1 DEF Moves, Struck
<1> QED
  BY <1>1, <1>2, <1>3, <1>4, StepCases

\* What was stored as a success stays so, and what took effect took effect.
LEMMA TruthKept ==
    ASSUME TruthInv, \A d \in Deliveries : CalledOf(d)' /\ (Struck(d) => Struck(d)'),
           committed \subseteq committed', replays \subseteq replays',
           \A w \in Workers : rpc'[w] = "complete" => rpc[w] = "complete" \/ HasEffect',
           rec' # Null /\ rec'.state = "SUCCEEDED" => rec' = rec \/ StoredTruth'
    PROVE  TruthInv'
<1>1. HasEffect => HasEffect'
  BY DEF HasEffect
<1>2. rec' = rec /\ StoredTruth => StoredTruth'
  BY <1>1 DEF StoredTruth
<1> QED
  BY <1>1, <1>2 DEF TruthInv

\* A claim granted leaves no success behind.
LEMMA StartStoresNothing ==
    ASSUME CallsInv, NEW d \in Deliveries, Start(d)
    PROVE  rec' = rec \/ (rec' # Null /\ rec'.state = "IN_PROGRESS")
<1>1. PICK r \in RoutingsOf[d] : StartUnclaimed(d, r) \/ Claim(d, r)
  BY DEF Start
<1>2. r \in Routings /\ now \in Nat
  BY WorkflowAssumption DEF CallsInv, TypeOK
<1>3. CASE StartUnclaimed(d, r) \/ (Claim(d, r) /\ ClaimStatus(rec, Request(d, r), now) # "CLAIMED")
  BY <1>3 DEF StartUnclaimed, Claim, ShortCircuit
<1>4. CASE Claim(d, r) /\ ClaimStatus(rec, Request(d, r), now) = "CLAIMED"
  <2>1. rec' = FreshRecord(Request(d, r), now)
    BY <1>2, <1>4, GrantedOnVacant DEF Claim
  <2> QED
    BY <1>2, <2>1, FreshClaim
<1> QED
  BY <1>1, <1>3, <1>4

\* Every step stores a success only of what took effect.
LEMMA TruthStep ==
    ASSUME WritesGoThrough, CallsInv, RTypeOK, TruthInv, [RNext]_allvars
    PROVE  TruthInv'
<1> USE DEF TruthInv
<1>1. ASSUME NEW d \in Deliveries, Step(d) \/ Crash(d), UNCHANGED rvars
      PROVE  TruthInv'
  <2>1. /\ \A e \in Deliveries : CalledOf(e)' /\ (Struck(e) => Struck(e)')
        /\ committed' = committed /\ UNCHANGED <<rpc, replays>>
    BY <1>1, CalledStep, StruckStays, OthersStay DEF rvars, CalledOf
  <2>2. rec' # Null /\ rec'.state = "SUCCEEDED" => rec' = rec \/ StoredTruth'
    <3>1. CASE Start(d)
      BY <3>1, StartStoresNothing
    <3>2. CASE Settle(d)
      <4>1. /\ pc[d] = "settle" /\ att[d] \in Attempts /\ OwnerOf[d] \in Owners
            /\ rec \in ClaimRecords \cup {Null}
        BY <3>2, WorkflowAssumption DEF Settle, CallsInv, TypeOK
      <4>2. rec' = IF att[d].owned THEN Settled(rec, OwnerOf[d], att[d]) ELSE rec
        BY <3>2 DEF Settle
      <4>3. CASE att[d].owned /\ OwnedBy(rec, OwnerOf[d]) /\ rec'.state = "SUCCEEDED"
        <5>1. /\ ~att[d].dehydrated /\ att[d].outcome # "UNKNOWN" /\ ~att[d].failed
              /\ rec'.result = ReplayableResult(att[d])
          BY <4>1, <4>2, <4>3, SettledRecord
        <5>2. CASE att[d].outcome = "COMMITTED"
          <6>1. d \in committed'
            BY <2>1, <5>2 DEF CallsInv
          <6> QED
            BY <5>1, <5>2, <6>1 DEF ReplayableResult, HasEffect, StoredTruth
        <5>3. CASE att[d].outcome = "NONE" /\ Struck(d)
          BY <2>1, <5>1, <5>3 DEF ReplayableResult, StoredTruth
        <5> QED
          BY <4>1, <4>3, <5>1, <5>2, <5>3 DEF CalledOf
      <4>4. CASE ~(att[d].owned /\ OwnedBy(rec, OwnerOf[d]))
        BY <4>1, <4>2, <4>4, SettledRecord
      <4> QED
        BY <4>3, <4>4
    <3>3. ASSUME NEW a, NEW place, Moves(d, a, place)
          PROVE  rec' = rec
      BY <3>3 DEF Moves
    <3> QED
      BY <1>1, <3>1, <3>2, <3>3, StepCases
  <2> QED
    BY <2>1, <2>2, TruthKept
<1>2. ASSUME NEW d \in Deliveries, Apply(d), UNCHANGED rvars
      PROVE  TruthInv'
  <2>1. /\ UNCHANGED <<rec, pc, att, rpc, replays>> /\ committed \subseteq committed'
        /\ inflight' \cup committed' = inflight \cup committed
    BY <1>2 DEF Apply, rvars
  <2>2. \A e \in Deliveries : CalledOf(e)' /\ (Struck(e) => Struck(e)')
    BY <2>1 DEF CalledOf, Struck
  <2> QED
    BY <2>1, <2>2, TruthKept
<1>3. CASE UNCHANGED <<rec, pc, att, inflight, committed, rpc, replays>>
  <2>1. \A e \in Deliveries : CalledOf(e)' /\ (Struck(e) => Struck(e)')
    BY <1>3 DEF CalledOf, Struck
  <2> QED
    BY <1>3, <2>1, TruthKept
<1>4. ASSUME NEW w \in Workers, WorkerStep(w) \/ Die(w)
      PROVE  TruthInv'
  <2>1. /\ \A e \in Deliveries : CalledOf(e)' /\ (Struck(e) => Struck(e)')
        /\ committed' = committed
    BY <1>4, WorkerLeavesDeliveries DEF CalledOf, Struck
  <2>2. replays \subseteq replays' /\ rpc \in [Workers -> RPlaces]
    BY <1>4 DEF RTypeOK, WorkerStep, Die, Acquire, KeepLease, LoseLease, TakeOver, Confirm,
       ConfirmUnknown, Replay, ReplayRefused, ReplayUnreported, HookRaises, SettleEntry, Release
  <2>3. \A v \in Workers : rpc'[v] = "complete" => rpc[v] = "complete" \/ HasEffect'
    <3>1. CASE Confirm(w)
      BY <2>1, <2>2, <3>1 DEF Confirm, RGoto, NextAfterConfirm, HasEffect
    <3>2. CASE Replay(w)
      BY <2>2, <3>2 DEF Replay, RGoto, HasEffect
    <3>3. CASE ~Confirm(w) /\ ~Replay(w)
      BY <1>4, <2>2, <3>3 DEF WorkerStep, Die, Acquire, KeepLease, LoseLease, TakeOver,
         ConfirmUnknown, ReplayRefused, ReplayUnreported, HookRaises, SettleEntry, Release,
         RGoto, NextAfterConfirm
    <3> QED
      BY <3>1, <3>2, <3>3
  <2>4. rec' # Null /\ rec'.state = "SUCCEEDED" => rec' = rec \/ StoredTruth'
    <3>1. CASE TakeOver(w)
      <4>1. PICK fp \in Fingerprints \cup {Null} : rec' = AfterClaim(rec, Recovery(w, fp), now)
        BY <3>1 DEF TakeOver
      <4> QED
        BY <4>1, TakenRecord
    <3>2. CASE SettleEntry(w)
      <4>1. rec' = AfterSettlement(w) /\ rpc[w] \in {"complete", "park", "fail"} /\ replays' = replays
        BY <3>2 DEF SettleEntry
      <4>2. CASE ~OwnedBy(rec, WorkerOwner[w])
        BY <4>1, <4>2, EntrySettled
      <4>3. CASE OwnedBy(rec, WorkerOwner[w]) /\ rpc[w] = "complete"
        BY <2>1, <2>2, <4>1, <4>3, EntrySettled DEF HasEffect, StoredTruth
      <4>4. CASE OwnedBy(rec, WorkerOwner[w]) /\ rpc[w] # "complete"
        BY <4>1, <4>4, EntrySettled
      <4> QED
        BY <4>2, <4>3, <4>4
    <3> QED
      BY <1>4, <3>1, <3>2, WorkerLeavesDeliveries
  <2> QED
    BY <2>1, <2>2, <2>3, <2>4, TruthKept
<1>5. CASE Next /\ UNCHANGED rvars
  <2>1. ASSUME NEW d \in Deliveries, Reject(d) PROVE FALSE
    BY <2>1 DEF WritesGoThrough, Reject
  <2>2. CASE Tick \/ Finished
    BY <1>3, <1>5, <2>2 DEF Tick, Finished, vars, rvars
  <2> QED
    BY <1>1, <1>2, <1>5, <2>1, <2>2 DEF Next
<1> QED
  BY <1>3, <1>4, <1>5 DEF RNext, allvars

\* Where the writes go through, what a completed request replays is the truth, for
\* any ttl, lease and deadline, and whatever else fails or comes late; but for a
\* request an interrupted delivery completed, which replays no outcome.
THEOREM SettledTruly ==
    ASSUME WritesGoThrough
    PROVE  RSpec => []SettledTruthfully
<1>1. RInit => TruthInv
  BY DEF RInit, Init, TruthInv, CalledOf, NewAttempt
<1>2. TruthInv => SettledTruthfully
  BY DEF TruthInv, StoredTruth, SettledTruthfully
<1>3. CallsInv /\ RTypeOK /\ TruthInv /\ [RNext]_allvars => TruthInv'
  BY TruthStep
<1>4. CallsInv /\ RTypeOK /\ [RNext]_allvars => CallsInv' /\ RTypeOK'
  BY RTypesStep
<1> QED
  BY <1>1, <1>2, <1>3, <1>4, RTypesInit, PTL DEF RSpec

-----------------------------------------------------------------------------
(* One effect *)

\* Nothing fails or is lost after the tool was called but its answer, which is then
\* known to be unknown; and what is no longer waited for is not applied late
CallsAreAccountedFor ==
    /\ Deadline = 0
    /\ Faults \cap {"drop", "bridge", "late", "infer", "slow"} = {}
    /\ "unreported" \notin ReplayFaults

\* A request is under way only while its delivery waits for it; a delivery that
\* failed or paused has called nothing, and one that knows of no effect has none,
\* unless it was interrupted.
ShapeOf(d) ==
    /\ att[d].deadline = 0
    /\ pc[d] = "new" => ~att[d].owned
    /\ pc[d] \in {"new", "setup", "agent"} => ~att[d].failed
    /\ d \in inflight => pc[d] = "calling"
    /\ att[d].failed \/ att[d].dehydrated =>
          att[d].outcome = "NONE" /\ pc[d] # "calling" /\ d \notin committed
    /\ att[d].outcome \in {"NONE", "NOT_COMMITTED"} /\ pc[d] \notin {"calling", "dead"} =>
          d \notin committed \/ (Struck(d) /\ att[d].outcome = "NONE")
    /\ pc[d] = "calling" => att[d].outcome = "NONE"

\* A vacant record has no effect behind it, whoever is in charge knows what took
\* effect before, and the record says so once it is settled.
EffectsInv ==
    /\ rec = Null \/ rec.state = "FAILED_RETRYABLE" => ~HasEffect
    /\ \A d \in Deliveries : AtWork(d) => committed \subseteq {d} /\ replays = {}
    /\ \A w \in Workers :
          /\ rpc[w] = "complete" => HasEffect
          /\ rpc[w] \in {"replay", "fail"} => ~HasEffect
    /\ SettledTruthfully
    /\ OneEffect

\* A step of a delivery keeps ShapeOf().
LEMMA ShapeStep ==
    ASSUME CallsAreAccountedFor, CallsInv, NEW d \in Deliveries, Step(d) \/ Crash(d),
           \A e \in Deliveries : ShapeOf(e)
    PROVE  \A e \in Deliveries : ShapeOf(e)'
<1>1. \A e \in Deliveries \ {d} : ShapeOf(e)'
  BY OthersStay DEF ShapeOf, Struck
<1>2. /\ pc \in [Deliveries -> Places] /\ ShapeOf(d) /\ committed' = committed
      /\ ~CallTool(d) => inflight' \subseteq inflight
      /\ pc[d] \in {"new", "setup", "agent"} => att[d].outcome = "NONE" /\ d \notin committed
      /\ ~PastDeadline(d)
  BY OthersStay DEF CallsInv, TypeOK, EffectsAreClaimed, ShapeOf, PastDeadline
<1>3. ShapeOf(d)'
  <2>1. CASE Start(d)
    <3>1. PICK r \in RoutingsOf[d] : StartUnclaimed(d, r) \/ Claim(d, r)
      BY <2>1 DEF Start
    <3>2. pc[d] = "new" /\ UNCHANGED inflight
      BY <2>1 DEF Start
    <3>3. CASE StartWork(d, r)
      <4>1. PICK a \in Attempts :
                /\ att' = [att EXCEPT ![d] = a] /\ a.outcome = "NONE" /\ ~a.dehydrated
                /\ Deadline = 0 => a.deadline = 0
                /\ a.failed = att[d].failed
        BY <3>2, <3>3, StartingState
      <4>2. att'[d] = a /\ pc'[d] = "setup"
        BY <1>2, <3>3, <4>1 DEF StartWork, Goto, CallsInv, TypeOK
      <4> QED
        BY <1>2, <3>2, <4>1, <4>2 DEF ShapeOf, CallsAreAccountedFor
    <3>4. CASE \E st : ShortCircuit(d, st)
      BY <1>2, <3>2, <3>4 DEF ShortCircuit, Goto, ShapeOf
    <3> QED
      BY <3>1, <3>3, <3>4 DEF StartUnclaimed, Claim
  <2>2. CASE Settle(d)
    <3>1. pc[d] = "settle" /\ pc'[d] = "done" /\ inflight' = inflight
      BY <1>2, <2>2 DEF Settle, Goto
    <3> QED
      BY <1>2, <2>2, <3>1, AnswerRemembered DEF ShapeOf, Struck
  <2>3. CASE Crash(d)
    <3>1. pc'[d] = "dead" /\ d \notin inflight' /\ att' = att
      BY <1>2, <2>3 DEF Crash, Goto, Abandon, CallsAreAccountedFor
    <3> QED
      BY <1>2, <3>1 DEF ShapeOf
  <2>12. CASE Interrupt(d)
    <3>1. /\ pc[d] \in {"setup", "agent", "calling", "infer", "latency"} /\ pc'[d] = "settle"
          /\ d \notin inflight'
      BY <1>2, <2>12 DEF Interrupt, Goto, Abandon, CallsAreAccountedFor
    <3>2. d \in committed => att[d].owned
      BY DEF CallsInv, EffectsAreClaimed
    <3>3. /\ att'[d].interrupted /\ att'[d].owned = att[d].owned
          /\ att'[d].outcome = att[d].outcome /\ att'[d].failed = att[d].failed
          /\ att'[d].dehydrated = att[d].dehydrated /\ att'[d].deadline = att[d].deadline
      BY <2>12, InterruptNoted
    <3> QED
      BY <1>2, <3>1, <3>2, <3>3 DEF ShapeOf, Struck
  <2>4. CASE \/ SetupDone(d) \/ GatePasses(d) \/ NoTool(d) \/ GateBlocks(d) \/ InferDone(d)
             \/ SloMet(d)
    <3>1. /\ att' = att /\ inflight' = inflight /\ pc[d] \notin {"calling", "dead"}
          /\ pc'[d] \in {"infer", "latency", "settle"} \/ (pc[d] = "setup" /\ pc'[d] = "agent")
      BY <1>2, <2>4 DEF SetupDone, GatePasses, NoTool, GateBlocks, InferDone, SloMet, AtTool,
         AtAgent, Goto
    <3> QED
      BY <1>2, <3>1 DEF ShapeOf, Struck
  <2>5. CASE Dehydrate(d)
    <3>1. pc[d] = "agent" /\ pc'[d] = "settle" /\ inflight' = inflight
      BY <1>2, <2>5 DEF Dehydrate, AtAgent, Goto
    <3> QED
      BY <1>2, <2>5, <3>1, PauseOrCallNoted DEF ShapeOf
  <2>6. CASE AgentRaises(d) \/ \E kind \in {"deterministic", "other"} : SetupFails(d, kind)
    <3>1. /\ pc[d] \in {"setup", "agent"} /\ pc'[d] \in {"latency", "settle"} /\ inflight' = inflight
      BY <1>2, <2>6 DEF AgentRaises, SetupFails, AtAgent, Swallow, Goto
    <3>2. /\ att'[d].outcome = att[d].outcome /\ att'[d].deadline = att[d].deadline
      BY <2>6, FailureNoted DEF AgentRaises, SetupFails, Swallow
    <3> QED
      BY <1>2, <3>1, <3>2 DEF ShapeOf
  <2>7. CASE LLMOnlyRuns(d)
    <3>1. pc[d] = "agent" /\ pc'[d] = "settle" /\ inflight' = inflight /\ att' = att
      BY <1>2, <2>7 DEF LLMOnlyRuns, Goto, CallsAreAccountedFor
    <3> QED
      BY <1>2, <3>1 DEF ShapeOf
  <2>8. ~DeadlineRefusesCall(d) /\ ~ToolDrops(d) /\ ~BridgeExpires(d) /\ ~InferFails(d)
        /\ ~SloBreached(d)
    BY <1>2 DEF CallsAreAccountedFor, DeadlineRefusesCall, ToolDrops, BridgeExpires, InferFails,
       SloBreached
  <2>9. CASE CallTool(d)
    <3>1. /\ pc[d] = "agent" /\ pc'[d] = "calling" /\ AtAgent(d)
      BY <1>2, <2>9 DEF CallTool, AtTool, AtAgent, Goto
    <3>2. ~att[d].dehydrated
      BY <3>1 DEF CallsInv, EffectsAreClaimed
    <3>3. ~att[d].failed
      BY <1>2, <3>1 DEF ShapeOf
    <3> QED
      BY <1>2, <2>9, <3>1, <3>2, <3>3, PauseOrCallNoted DEF ShapeOf
  <2>10. CASE ToolAnswers(d)
    <3>1. /\ pc[d] = "calling" /\ d \notin inflight /\ pc'[d] = "infer" /\ inflight' = inflight
      BY <1>2, <2>10 DEF ToolAnswers, Goto
    <3>2. Reported(d) \in Outcomes /\ (Reported(d) = "NOT_COMMITTED" <=> d \notin committed)
          /\ Reported(d) # "NONE"
      BY DEF Reported, Outcomes
    <3>3. /\ att'[d].outcome = Reported(d) /\ att'[d].failed = att[d].failed
          /\ att'[d].dehydrated = att[d].dehydrated /\ att'[d].deadline = att[d].deadline
      BY <2>10, <3>2, OutcomeNoted DEF ToolAnswers
    <3> QED
      BY <1>2, <3>1, <3>2, <3>3 DEF ShapeOf
  <2>11. CASE ToolTimesOut(d)
    <3>1. /\ pc[d] = "calling" /\ pc'[d] = "infer" /\ d \notin inflight'
      BY <1>2, <2>11 DEF ToolTimesOut, Goto, Abandon, CallsAreAccountedFor
    <3>2. /\ att'[d].outcome = "UNKNOWN" /\ att'[d].failed = att[d].failed
          /\ att'[d].dehydrated = att[d].dehydrated /\ att'[d].deadline = att[d].deadline
      BY <2>11, OutcomeNoted DEF ToolTimesOut, OutcomeOfTimeout, Outcomes
    <3> QED
      BY <1>2, <3>1, <3>2 DEF ShapeOf
  <2> QED
    BY <2>1, <2>2, <2>3, <2>4, <2>5, <2>6, <2>7, <2>8, <2>9, <2>10, <2>11, <2>12 DEF Step
<1> QED
  BY <1>1, <1>3

\* A record that stays, with the effects and the interrupts there were, tells the truth.
LEMMA SettledStays ==
    ASSUME SettledTruthfully, rec' = rec, HasEffect' <=> HasEffect,
           \A d \in Deliveries : Struck(d) => Struck(d)'
    PROVE  SettledTruthfully'
  BY DEF SettledTruthfully

\* A step of a delivery keeps the effects accounted for.
LEMMA DeliveryEffects ==
    ASSUME NoTtl, Punctual, CallsAreAccountedFor, CallsInv, ChargeInv, EffectsInv,
           \A e \in Deliveries : ShapeOf(e),
           NEW d \in Deliveries, Step(d) \/ Crash(d), UNCHANGED rvars
    PROVE  EffectsInv'
<1>1. /\ UNCHANGED <<committed, rpc, replays>> /\ (HasEffect' <=> HasEffect)
      /\ \A e \in Deliveries \ {d} : att'[e] = att[e] /\ pc'[e] = pc[e]
      /\ pc \in [Deliveries -> Places] /\ rec \in ClaimRecords \cup {Null}
      /\ \A e \in Deliveries : Struck(e) => Struck(e)'
      /\ rec' = rec => SettledTruthfully'
  <2>1. \A e \in Deliveries : Struck(e) => Struck(e)'
    BY StruckStays DEF ShapeOf
  <2>2. HasEffect' <=> HasEffect
    BY OthersStay DEF rvars, HasEffect
  <2> QED
    BY <2>1, <2>2, OthersStay, SettledStays DEF rvars, CallsInv, TypeOK, EffectsInv
<1>2. OneEffect'
  BY <1>1 DEF EffectsInv, OneEffect, AtMostOneEffect, OneReplay
<1>3. \A w \in Workers : /\ rpc'[w] = "complete" => HasEffect'
                         /\ rpc'[w] \in {"replay", "fail"} => ~HasEffect'
  BY <1>1 DEF EffectsInv
<1>4. ASSUME NEW a, NEW place, Moves(d, a, place)
      PROVE  EffectsInv'
  <2>1. att'[d] = a /\ rec' = rec
    BY <1>4 DEF Moves, CallsInv, TypeOK
  <2>2. \A e \in Deliveries : AtWork(e)' => AtWork(e)
    BY <1>1, <1>4, <2>1 DEF AtWork, Moves, Working
  <2> QED
    BY <1>1, <1>2, <1>3, <2>1, <2>2 DEF EffectsInv
<1>5. CASE Start(d)
  <2>1. PICK r \in RoutingsOf[d] : StartUnclaimed(d, r) \/ Claim(d, r)
    BY <1>5 DEF Start
  <2>2. pc[d] = "new" /\ r \in Routings /\ now \in Nat
    BY <1>5, WorkflowAssumption DEF Start, CallsInv, TypeOK
  <2>3. CASE Claim(d, r) /\ ClaimStatus(rec, Request(d, r), now) = "CLAIMED"
    <3>1. Vacant(rec, now) /\ rec' = FreshRecord(Request(d, r), now)
      BY <2>2, <2>3, GrantedOnVacant DEF Claim
    <3>2. ~HasEffect
      BY <3>1 DEF Vacant, Forgotten, ChargeInv, EffectsInv
    <3>3. rec' # Null /\ rec'.state = "IN_PROGRESS"
      BY <2>2, <3>1, FreshClaim
    <3> QED
      BY <1>1, <1>2, <1>3, <3>2, <3>3 DEF EffectsInv, SettledTruthfully, HasEffect
  <2>4. CASE StartUnclaimed(d, r)
    <3>1. PICK a \in Attempts :
              att' = [att EXCEPT ![d] = a] /\ a.owned = RequiresClaim(r)
      BY <2>2, <2>4, StartingState DEF StartUnclaimed
    <3>2. ~att'[d].owned /\ rec' = rec
      BY <2>4, <3>1 DEF StartUnclaimed, CallsInv, TypeOK
    <3>3. \A e \in Deliveries : AtWork(e)' => AtWork(e)
      BY <1>1, <3>2 DEF AtWork, Working
    <3> QED
      BY <1>1, <1>2, <1>3, <3>2, <3>3 DEF EffectsInv
  <2>5. CASE Claim(d, r) /\ ClaimStatus(rec, Request(d, r), now) # "CLAIMED"
    <3>1. rec' = rec /\ pc'[d] = "done"
      BY <1>1, <2>5 DEF Claim, ShortCircuit, Goto
    <3>2. \A e \in Deliveries : AtWork(e)' => AtWork(e)
      BY <1>1, <3>1 DEF AtWork, Working
    <3> QED
      BY <1>1, <1>2, <1>3, <3>1, <3>2 DEF EffectsInv
  <2> QED
    BY <2>1, <2>3, <2>4, <2>5
<1>6. CASE Settle(d)
  <2>1. /\ pc[d] = "settle" /\ pc'[d] = "done" /\ att[d] \in Attempts /\ OwnerOf[d] \in Owners
        /\ rec' = IF att[d].owned THEN Settled(rec, OwnerOf[d], att[d]) ELSE rec
    BY <1>1, <1>6, WorkflowAssumption DEF Settle, Goto, CallsInv, TypeOK
  <2>2. \A e \in Deliveries : AtWork(e)' => AtWork(e)
    BY <1>1, <2>1 DEF AtWork, Working
  <2>3. CASE ~att[d].owned
    BY <1>1, <1>2, <1>3, <2>1, <2>2, <2>3 DEF EffectsInv
  <2>4. CASE att[d].owned
    <3>1. AtWork(d)
      BY <2>1, <2>4 DEF AtWork, Working
    <3>2. OwnedBy(rec, OwnerOf[d]) /\ committed \subseteq {d} /\ replays = {}
      BY <3>1 DEF ChargeInv, InHand, EffectsInv
    <3>3. /\ rec' # Null
          /\ IF ~att[d].dehydrated /\ att[d].outcome # "UNKNOWN" /\ ~att[d].failed
             THEN rec'.state = "SUCCEEDED" /\ rec'.result = ReplayableResult(att[d])
             ELSE rec'.state # "SUCCEEDED"
          /\ ~att[d].dehydrated /\ att[d].outcome = "UNKNOWN" => rec'.state = "UNKNOWN"
      BY <1>1, <2>1, <2>4, <3>2, SettledRecord
    <3>4. ShapeOf(d)
      OBVIOUS
    <3>5. att[d].outcome = "COMMITTED" => d \in committed
      BY DEF CallsInv
    <3>6. att[d].outcome \in {"NONE", "NOT_COMMITTED"} =>
             ~HasEffect \/ (Struck(d) /\ att[d].outcome = "NONE")
      BY <2>1, <3>2, <3>4 DEF ShapeOf, HasEffect
    <3>7. rec'.state = "FAILED_RETRYABLE" => ~HasEffect
      <4>1. CASE att[d].dehydrated \/ att[d].failed
        BY <3>2, <3>4, <4>1 DEF ShapeOf, HasEffect
      <4>2. CASE ~att[d].dehydrated /\ ~att[d].failed
        BY <3>3, <4>2
      <4> QED
        BY <4>1, <4>2
    <3>8. SettledTruthfully'
      <4> SUFFICES ASSUME rec'.state = "SUCCEEDED"
                   PROVE  /\ rec'.result = "COMMITTED" => HasEffect
                          /\ HasEffect => rec'.result = "COMMITTED"
                                          \/ (rec'.result = "NONE" /\ Struck(d))
        BY <1>1 DEF SettledTruthfully
      <4>1. att[d].outcome # "UNKNOWN" /\ rec'.result = ReplayableResult(att[d])
        BY <3>3
      <4>2. rec'.result = att[d].outcome
        BY <4>1 DEF ReplayableResult
      <4>3. att[d].outcome \in {"NONE", "NOT_COMMITTED", "COMMITTED"}
        BY <2>1, <4>1 DEF Attempts, Outcomes
      <4> QED
        BY <3>5, <3>6, <4>2, <4>3 DEF HasEffect
    <3> QED
      BY <1>1, <1>2, <1>3, <2>2, <3>3, <3>7, <3>8 DEF EffectsInv
  <2> QED
    BY <2>3, <2>4
<1> QED
  BY <1>4, <1>5, <1>6, StepCases

\* A worker's step does too: it replays only what it found without effect.
LEMMA WorkerEffects ==
    ASSUME Punctual, CallsAreAccountedFor, CallsInv, RTypeOK, ChargeInv, EffectsInv,
           NEW w \in Workers, WorkerStep(w) \/ Die(w)
    PROVE  EffectsInv'
<1>1. /\ committed' = committed /\ \A d \in Deliveries : AtWork(d)' <=> AtWork(d)
      /\ \A d \in Deliveries : Struck(d)' <=> Struck(d)
      /\ rpc \in [Workers -> RPlaces]
  BY WorkerLeavesDeliveries DEF AtWork, Working, RTypeOK, Struck
<1>2. CASE Replay(w)
  <2>1. /\ rpc[w] = "replay" /\ rec' = rec /\ replays' = replays \cup {handle[w].token}
        /\ rpc'[w] = "complete" /\ \A v \in Workers \ {w} : rpc'[v] = rpc[v]
    BY <1>1, <1>2 DEF Replay, RGoto, vars
  <2>2. Active(w) /\ ~HasEffect
    BY <2>1 DEF Active, EffectsInv
  <2>3. /\ \A v \in Workers \ {w} : ~Active(v)
        /\ \A d \in Deliveries : ~AtWork(d)
        /\ rec # Null /\ rec.state = "IN_PROGRESS"
    BY <2>2 DEF ChargeInv, InHand, OwnedBy
  <2>4. committed' = {} /\ replays' = {handle[w].token} /\ HasEffect'
    BY <1>1, <2>1, <2>2 DEF HasEffect
  <2>5. OneEffect'
    BY <2>4 DEF OneEffect, AtMostOneEffect, OneReplay
  <2>6. \A v \in Workers : rpc'[v] \notin {"replay", "fail"}
    BY <2>1, <2>3 DEF Active
  <2> QED
    BY <1>1, <2>1, <2>3, <2>4, <2>5, <2>6 DEF EffectsInv, SettledTruthfully
<1>3. CASE ~Replay(w)
  <2>1. replays' = replays /\ ~ReplayUnreported(w)
    BY <1>3 DEF CallsAreAccountedFor, WorkerStep, Die, Acquire, KeepLease, LoseLease, TakeOver,
       Confirm, ConfirmUnknown, ReplayRefused, ReplayUnreported, HookRaises, SettleEntry, Release
  <2>2. HasEffect' <=> HasEffect
    BY <1>1, <2>1 DEF HasEffect
  <2>3. OneEffect'
    BY <1>1, <2>1 DEF EffectsInv, OneEffect, AtMostOneEffect, OneReplay
  <2>4. /\ rpc'[w] = "complete" => HasEffect
        /\ rpc'[w] \in {"replay", "fail"} => ~HasEffect
        /\ \A v \in Workers \ {w} : rpc'[v] = rpc[v]
    <3>1. CASE Confirm(w)
      BY <1>1, <3>1 DEF Confirm, RGoto, NextAfterConfirm
    <3>2. CASE ReplayRefused(w)
      BY <1>1, <3>2 DEF ReplayRefused, RGoto, EffectsInv
    <3>3. CASE ~Confirm(w) /\ ~ReplayRefused(w)
      BY <1>1, <1>3, <2>1, <3>3 DEF WorkerStep, Die, Acquire, KeepLease, LoseLease, TakeOver,
         ConfirmUnknown, HookRaises, SettleEntry, Release, RGoto, NextAfterConfirm
    <3> QED
      BY <3>1, <3>2, <3>3
  <2>5. \A v \in Workers : /\ rpc'[v] = "complete" => HasEffect'
                           /\ rpc'[v] \in {"replay", "fail"} => ~HasEffect'
    BY <2>2, <2>4 DEF EffectsInv
  <2>6. /\ rec' = Null \/ rec'.state = "FAILED_RETRYABLE" => ~HasEffect
        /\ SettledTruthfully'
    <3> HIDE DEF HasEffect
    <3>1. CASE rec' = rec
      BY <1>1, <2>2, <3>1, SettledStays DEF EffectsInv
    <3>2. CASE TakeOver(w)
      <4>1. PICK fp \in Fingerprints \cup {Null} : rec' = AfterClaim(rec, Recovery(w, fp), now)
        BY <3>2 DEF TakeOver
      <4>2. rec' = rec \/ (rec' # Null /\ rec'.state = "IN_PROGRESS")
        BY <4>1, TakenRecord
      <4> QED
        BY <3>1, <4>2 DEF SettledTruthfully
    <3>3. CASE SettleEntry(w)
      <4>1. /\ rec' = AfterSettlement(w) /\ rpc[w] \in {"complete", "park", "fail"}
        BY <3>3 DEF SettleEntry
      <4>2. CASE ~OwnedBy(rec, WorkerOwner[w])
        BY <3>1, <4>1, <4>2, EntrySettled
      <4>3. CASE OwnedBy(rec, WorkerOwner[w])
        <5>1. /\ rec' # Null
              /\ rpc[w] = "complete" => rec'.state = "SUCCEEDED" /\ rec'.result = "COMMITTED"
              /\ rpc[w] = "park" => rec'.state = "UNKNOWN"
              /\ rpc[w] = "fail" => rec'.state = "FAILED_RETRYABLE"
          BY <4>1, <4>3, EntrySettled
        <5>2. /\ rpc[w] = "complete" => HasEffect
              /\ rpc[w] = "fail" => ~HasEffect
          BY DEF EffectsInv
        <5> QED
          BY <2>2, <4>1, <5>1, <5>2 DEF SettledTruthfully
      <4> QED
        BY <4>2, <4>3
    <3> QED
      BY <3>1, <3>2, <3>3, WorkerLeavesDeliveries
  <2> QED
    BY <1>1, <2>1, <2>2, <2>3, <2>5, <2>6 DEF EffectsInv
<1> QED
  BY <1>2, <1>3

\* So does every step.
LEMMA EffectsStep ==
    ASSUME NoTtl, Punctual, CallsAreAccountedFor, CallsInv, RTypeOK, ChargeInv,
           EffectsInv, \A d \in Deliveries : ShapeOf(d), [RNext]_allvars
    PROVE  EffectsInv' /\ \A d \in Deliveries : ShapeOf(d)'
<1>1. ASSUME NEW d \in Deliveries, Step(d) \/ Crash(d), UNCHANGED rvars
      PROVE  EffectsInv' /\ \A e \in Deliveries : ShapeOf(e)'
  BY <1>1, DeliveryEffects, ShapeStep
<1>2. ASSUME NEW d \in Deliveries, Apply(d), UNCHANGED rvars
      PROVE  EffectsInv' /\ \A e \in Deliveries : ShapeOf(e)'
  <2>1. /\ d \in inflight /\ committed' = committed \cup {d} /\ inflight' = inflight \ {d}
        /\ UNCHANGED <<rec, pc, att, rpc, replays>>
    BY <1>2 DEF Apply, rvars
  <2>2. pc[d] = "calling" /\ AtWork(d)
    BY <2>1 DEF ShapeOf, AtWork, Working, CallsInv, EffectsAreClaimed
  <2>3. committed' = {d} /\ replays' = {} /\ HasEffect'
    BY <2>1, <2>2 DEF EffectsInv, HasEffect
  <2>4. rec # Null /\ rec.state = "IN_PROGRESS" /\ \A w \in Workers : ~Active(w)
    BY <2>2 DEF ChargeInv, InHand, OwnedBy
  <2>5. \A e \in Deliveries : AtWork(e)' => e = d
    BY <2>1, <2>2 DEF AtWork, Working, ChargeInv
  <2>6. \A e \in Deliveries : ShapeOf(e)'
    BY <2>1, <2>2 DEF ShapeOf, Struck
  <2>7. OneEffect'
    BY <2>3 DEF OneEffect, AtMostOneEffect, OneReplay
  <2> QED
    BY <2>1, <2>3, <2>4, <2>5, <2>6, <2>7 DEF EffectsInv, SettledTruthfully, Active
<1>3. CASE UNCHANGED <<rec, pc, att, committed, rpc, replays>> /\ inflight' \subseteq inflight
  <2>1. \A d \in Deliveries : ShapeOf(d)' /\ (Struck(d) => Struck(d)')
    BY <1>3 DEF ShapeOf, Struck
  <2>2. HasEffect' <=> HasEffect
    BY <1>3 DEF HasEffect
  <2>3. SettledTruthfully'
    BY <1>3, <2>1, <2>2, SettledStays DEF EffectsInv
  <2> QED
    BY <1>3, <2>1, <2>2, <2>3 DEF EffectsInv, OneEffect, AtMostOneEffect, OneReplay,
       AtWork, Working
<1>4. ASSUME NEW w \in Workers, WorkerStep(w) \/ Die(w)
      PROVE  EffectsInv' /\ \A d \in Deliveries : ShapeOf(d)'
  <2>1. \A d \in Deliveries : ShapeOf(d)'
    BY <1>4, WorkerLeavesDeliveries DEF ShapeOf, Struck
  <2> QED
    BY <1>4, <2>1, WorkerEffects
<1>5. CASE Next /\ UNCHANGED rvars
  <2>1. ASSUME NEW d \in Deliveries, Reject(d)
        PROVE  EffectsInv' /\ \A e \in Deliveries : ShapeOf(e)'
    BY <1>3, <1>5, <2>1 DEF Reject, rvars
  <2>2. CASE Tick \/ Finished
    BY <1>3, <1>5, <2>2 DEF Tick, Finished, vars, rvars
  <2> QED
    BY <1>1, <1>2, <1>5, <2>1, <2>2 DEF Next
<1> QED
  BY <1>3, <1>4, <1>5 DEF RNext, allvars

\* Nothing has taken effect at first.
LEMMA EffectsInit == RInit => EffectsInv /\ \A d \in Deliveries : ShapeOf(d)
  BY DEF RInit, Init, EffectsInv, ShapeOf, NewAttempt, AtWork, Working, HasEffect,
     SettledTruthfully, OneEffect, AtMostOneEffect, OneReplay

\* Without a ttl, and where deliveries and reconcilers finish within their leases and
\* no call's answer is lost as a plain failure, a request takes effect at most once,
\* replays counted, whatever times out, is refused or dies.
THEOREM OneEffectAtMost ==
    ASSUME NoTtl, Prompt, Punctual, CallsAreAccountedFor
    PROVE  RSpec => []OneEffect
<1>1. EffectsInv => OneEffect
  BY DEF EffectsInv
<1>2. CallsInv /\ RTypeOK /\ ChargeInv
         /\ (EffectsInv /\ \A d \in Deliveries : ShapeOf(d)) /\ [RNext]_allvars
      => (EffectsInv /\ \A d \in Deliveries : ShapeOf(d))'
  BY EffectsStep
<1> QED
  BY <1>1, <1>2, EffectsInit, ChargeInvariant, PTL DEF RSpec

\* There what a completed request replays is the truth, a write refused or blocked
\* included.
THEOREM SettledTrulyWhenRefused ==
    ASSUME NoTtl, Prompt, Punctual, CallsAreAccountedFor
    PROVE  RSpec => []SettledTruthfully
<1>1. EffectsInv => SettledTruthfully
  BY DEF EffectsInv
<1>2. CallsInv /\ RTypeOK /\ ChargeInv
         /\ (EffectsInv /\ \A d \in Deliveries : ShapeOf(d)) /\ [RNext]_allvars
      => (EffectsInv /\ \A d \in Deliveries : ShapeOf(d))'
  BY EffectsStep
<1> QED
  BY <1>1, <1>2, EffectsInit, ChargeInvariant, PTL DEF RSpec
=============================================================================
