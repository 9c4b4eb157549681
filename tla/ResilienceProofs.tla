-------------------------- MODULE ResilienceProofs --------------------------
(***************************************************************************)
(* Theorems about the resilience policy, for any clients, slots, budget,   *)
(* threshold, reset time, retries, deadlines and bounds.                   *)
(***************************************************************************)
EXTENDS Resilience, FiniteSetTheorems, TLAPS

\* The invariant the steps preserve
Inv == PolicyInv /\ RetriesBounded /\ OpenMeansQuiet

-----------------------------------------------------------------------------
(* The breaker and the budget *)

\* What the breaker does keeps it a breaker; it opens now or has been open.
LEMMA BreakerTyped ==
    ASSUME NEW b \in Breakers, NEW t \in Nat
    PROVE  /\ AfterAllow(b, t) \in Breakers /\ AfterAllow(b, t).opened = b.opened
           /\ AfterSuccess \in Breakers /\ AfterSuccess.opened = Null
           /\ AfterFailure(b, t) \in Breakers
           /\ AfterFailure(b, t).opened \in {b.opened, t}
<1>1. b.failures + 1 \in Nat
  BY DEF Breakers
<1>2. AfterAllow(b, t) \in Breakers /\ AfterAllow(b, t).opened = b.opened
  BY DEF AfterAllow, Breakers
<1>3. AfterSuccess \in Breakers /\ AfterSuccess.opened = Null
  BY DEF AfterSuccess, Breakers
<1>4. CASE b.probing \/ b.failures + 1 >= Threshold
  BY <1>1, <1>2, <1>3, <1>4 DEF AfterFailure, Breakers
<1>5. CASE ~(b.probing \/ b.failures + 1 >= Threshold)
  <2>1. AfterFailure(b, t) = [b EXCEPT !.failures = b.failures + 1]
    BY <1>5 DEF AfterFailure
  <2> QED
    BY <1>1, <1>2, <1>3, <2>1 DEF Breakers
<1> QED
  BY <1>4, <1>5

\* The budget stays within its cap, and gains no more than a call deposits.
LEMMA BudgetTyped ==
    ASSUME NEW n \in 0..Cap
    PROVE  /\ Deposited(n) \in 0..Cap /\ Deposited(n) <= n + Ratio
           /\ n >= Token => Withdrawn(n) \in 0..Cap /\ Withdrawn(n) + Token = n
  BY ResilienceAssumption DEF Deposited, Withdrawn

\* One more call, or one more retry, in the sum of the budget.
LEMMA OneMore ==
    ASSUME NEW k \in Nat, NEW n \in Nat
    PROVE  k * n \in Nat /\ k * (n + 1) = k * n + k
  OBVIOUS

\* The balance the budget keeps: t tokens and what retries cost, p, against what
\* it started with, c, and what calls deposited, q; a call adds at most r to
\* both sides, and a retry moves k from the tokens to their cost.
LEMMA SumKept ==
    ASSUME NEW t \in Nat, NEW p \in Nat, NEW c \in Int, NEW q \in Nat,
           NEW k \in Nat, NEW r \in Nat, NEW tt \in Nat, NEW pp, NEW qq,
           t + p <= c + q,
           \/ pp = p /\ qq = q /\ tt <= t
           \/ pp = p /\ qq = q + r /\ tt <= t + r
           \/ pp = p + k /\ qq = q /\ tt + k = t
    PROVE  tt + pp <= c + qq
<1>1. CASE pp = p /\ qq = q /\ tt <= t
  BY <1>1
<1>2. CASE pp = p /\ qq = q + r /\ tt <= t + r
  BY <1>2
<1>3. CASE pp = p + k /\ qq = q /\ tt + k = t
  BY <1>3
<1> QED
  BY <1>1, <1>2, <1>3

-----------------------------------------------------------------------------
(* Slots *)

\* A client that takes up a slot, gives it back, or keeps it.
LEMMA HoldingChanges ==
    ASSUME TypeOK, NEW c \in Clients, NEW place, Goto(c, place)
    PROVE  /\ IsFiniteSet(Holding) /\ Cardinality(Holding) \in Nat
           /\ Cardinality(Holding') =
                 IF place \in {"running", "backoff"}
                 THEN IF c \in Holding THEN Cardinality(Holding) ELSE Cardinality(Holding) + 1
                 ELSE IF c \in Holding THEN Cardinality(Holding) - 1 ELSE Cardinality(Holding)
<1>1. IsFiniteSet(Holding)
  BY ResilienceAssumption, FS_Subset DEF Holding
<1>2. Cardinality(Holding) \in Nat
  BY <1>1, FS_CardinalityType
<1>3. Holding' = IF place \in {"running", "backoff"} THEN Holding \cup {c} ELSE Holding \ {c}
  BY DEF Goto, Holding, TypeOK
<1>4. /\ Cardinality(Holding \cup {c}) =
            IF c \in Holding THEN Cardinality(Holding) ELSE Cardinality(Holding) + 1
      /\ Cardinality(Holding \ {c}) =
            IF c \in Holding THEN Cardinality(Holding) - 1 ELSE Cardinality(Holding)
  BY <1>1, FS_AddElement, FS_RemoveElement
<1> QED
  BY <1>1, <1>2, <1>3, <1>4

-----------------------------------------------------------------------------
(* The steps of a client *)

\* c goes to a place, its call becomes s, and slots are taken and given back as
\* it enters and leaves those that hold one; b and t are the breaker and the
\* tokens it leaves.
Moves(c, place, s, b, t) ==
    /\ Goto(c, place) /\ place \in {"idle", "queued", "running", "backoff"}
    /\ call' = [call EXCEPT ![c] = s] /\ s \in CallStates
    /\ breaker' = b /\ b \in Breakers
    /\ tokens' = t /\ t \in 0..Cap
    /\ now' = now
    /\ free' = IF c \in Holding /\ place \in {"idle", "queued"} THEN free + 1
               ELSE IF c \notin Holding /\ place \in {"running", "backoff"} THEN free - 1
               ELSE free
    /\ free' \in Nat
    /\ \/ made' = made /\ retried' = retried /\ t <= tokens
       \/ made' = made + 1 /\ retried' = retried /\ t <= tokens + Ratio
       \/ made' = made /\ retried' = retried + 1 /\ t + Token = tokens
    /\ place = "running" =>
          s.sent = now /\ b.opened = breaker.opened /\ (breaker.opened # Null => s.probe)
    /\ b.opened \in {Null, breaker.opened, now}

\* Such a step keeps the invariant.
LEMMA MovesKeep ==
    ASSUME Inv, NEW c \in Clients, NEW place, NEW s, NEW b, NEW t, Moves(c, place, s, b, t)
    PROVE  Inv'
<1> USE DEF Inv, PolicyInv
<1>1. TypeOK'
  <2>1. made' \in Nat /\ retried' \in Nat
    BY DEF Moves, TypeOK
  <2> QED
    BY <2>1 DEF Moves, TypeOK, Goto
<1>2. SlotsConserved'
  <2>1. /\ Cardinality(Holding) \in Nat
        /\ Cardinality(Holding') =
              IF place \in {"running", "backoff"}
              THEN IF c \in Holding THEN Cardinality(Holding) ELSE Cardinality(Holding) + 1
              ELSE IF c \in Holding THEN Cardinality(Holding) - 1 ELSE Cardinality(Holding)
    BY HoldingChanges DEF Moves
  <2>2. /\ free' = IF c \in Holding /\ place \in {"idle", "queued"} THEN free + 1
                   ELSE IF c \notin Holding /\ place \in {"running", "backoff"} THEN free - 1
                   ELSE free
        /\ place \in {"idle", "queued", "running", "backoff"}
    BY DEF Moves
  <2>3. free + Cardinality(Holding) = Slots /\ free \in Nat
    BY DEF SlotsConserved, TypeOK
  <2>4. free' + Cardinality(Holding') = Slots
    BY <2>1, <2>2, <2>3
  <2> QED
    BY <2>4 DEF SlotsConserved
<1>3. RetriesBounded'
  <2>1. /\ tokens \in Nat /\ tokens' \in Nat /\ Cap \div 2 \in Int
        /\ Token * retried \in Nat /\ Ratio * made \in Nat /\ Token \in Nat /\ Ratio \in Nat
        /\ Token * (retried + 1) = Token * retried + Token
        /\ Ratio * (made + 1) = Ratio * made + Ratio
    BY ResilienceAssumption, OneMore DEF TypeOK, Moves
  <2>2. tokens + Token * retried <= Cap \div 2 + Ratio * made
    BY DEF RetriesBounded
  <2>3. \/ /\ Token * retried' = Token * retried /\ Ratio * made' = Ratio * made
           /\ tokens' <= tokens
        \/ /\ Token * retried' = Token * retried /\ Ratio * made' = Ratio * made + Ratio
           /\ tokens' <= tokens + Ratio
        \/ /\ Token * retried' = Token * retried + Token /\ Ratio * made' = Ratio * made
           /\ tokens' + Token = tokens
    BY <2>1 DEF Moves
  <2>4. tokens' + Token * retried' <= Cap \div 2 + Ratio * made'
    <3> DEFINE p == Token * retried
               q == Ratio * made
               pp == Token * retried'
               qq == Ratio * made'
               half == Cap \div 2
               left == tokens'
    <3>1. /\ p \in Nat /\ q \in Nat /\ half \in Int /\ left \in Nat /\ tokens \in Nat
          /\ Token \in Nat /\ Ratio \in Nat
      BY <2>1
    <3>2. tokens + p <= half + q
      BY <2>2
    <3>3. \/ pp = p /\ qq = q /\ left <= tokens
          \/ pp = p /\ qq = q + Ratio /\ left <= tokens + Ratio
          \/ pp = p + Token /\ qq = q /\ left + Token = tokens
      BY <2>3
    <3> HIDE DEF p, q, pp, qq, half, left
    <3>4. left + pp <= half + qq
      BY <3>1, <3>2, <3>3, SumKept
    <3> QED
      BY <3>4 DEF pp, qq, half, left
  <2> QED
    BY <2>4 DEF RetriesBounded
<1>4. \A d \in Clients \ {c} : pc'[d] = pc[d] /\ call'[d] = call[d]
  BY DEF Moves, Goto, TypeOK
<1>5. pc'[c] = place /\ call'[c] = s
  BY DEF Moves, Goto, TypeOK
<1>6. SentInPast'
  <2>1. SUFFICES ASSUME NEW d \in Clients, pc'[d] = "running"
                 PROVE  call'[d].sent <= now
    BY DEF SentInPast, Moves
  <2>2. now \in Nat /\ (pc[d] = "running" => call[d].sent <= now)
    BY DEF TypeOK, SentInPast
  <2> QED
    BY <1>4, <1>5, <2>1, <2>2 DEF Moves
<1>7. OpenMeansQuiet'
  <2>1. SUFFICES ASSUME breaker'.opened # Null, NEW d \in Clients, pc'[d] = "running",
                        ~call'[d].probe
                 PROVE  call'[d].sent <= breaker'.opened
    BY DEF OpenMeansQuiet
  <2>2. d # c
    BY <1>5, <2>1 DEF Moves
  <2>3. pc[d] = "running" /\ ~call[d].probe /\ call'[d] = call[d]
    BY <1>4, <2>1, <2>2
  <2>4. call[d].sent <= now
    BY <2>3 DEF SentInPast
  <2>5. breaker'.opened \in {breaker.opened, now}
    BY <2>1 DEF Moves
  <2>6. breaker.opened # Null => call[d].sent <= breaker.opened
    BY <2>3 DEF OpenMeansQuiet
  <2> QED
    BY <2>1, <2>3, <2>4, <2>5, <2>6
<1> QED
  BY <1>1, <1>2, <1>3, <1>6, <1>7

\* A call that returns gives back the slot it held.
LEMMA ReturnMoves ==
    ASSUME Inv, NEW c \in Clients, Return(c), NEW b \in Breakers, NEW t \in 0..Cap,
           breaker' = b, tokens' = t, now' = now,
           free' = IF c \in Holding THEN free + 1 ELSE free,
           b.opened \in {Null, breaker.opened, now},
           \/ made' = made /\ retried' = retried /\ t <= tokens
           \/ made' = made + 1 /\ retried' = retried /\ t <= tokens + Ratio
    PROVE  Inv'
<1>1. free' \in Nat
  BY DEF Inv, PolicyInv, TypeOK
<1>2. NoCall \in CallStates
  BY DEF NoCall, CallStates
<1>3. Moves(c, "idle", NoCall, b, t)
  BY <1>1, <1>2 DEF Moves, Return
<1> QED
  BY <1>3, MovesKeep

\* An attempt that is sent: its slot is kept, or taken.
LEMMA SendMoves ==
    ASSUME Inv, NEW c \in Clients, Send(c), Allowed(breaker, now), NEW t \in 0..Cap,
           tokens' = t, now' = now,
           free' = IF c \in Holding THEN free ELSE free - 1, free' \in Nat,
           \/ made' = made /\ retried' = retried /\ t <= tokens
           \/ made' = made + 1 /\ retried' = retried /\ t <= tokens + Ratio
    PROVE  Inv'
<1> DEFINE s == [call[c] EXCEPT !.attempt = call[c].attempt + 1, !.sent = now,
                                !.probe = HalfOpen(breaker, now)]
           b == AfterAllow(breaker, now)
<1>1. now \in Nat /\ breaker \in Breakers /\ HalfOpen(breaker, now) \in BOOLEAN
  BY DEF Inv, PolicyInv, TypeOK, HalfOpen, Breakers
<1>2. s \in CallStates /\ s.sent = now /\ s.probe = HalfOpen(breaker, now)
  <2>1. TypeOK
    BY DEF Inv, PolicyInv
  <2> DEFINE half == HalfOpen(breaker, now)
             r == [call[c] EXCEPT !.attempt = call[c].attempt + 1, !.sent = now, !.probe = half]
  <2>2. half \in BOOLEAN /\ now \in Nat
    BY <1>1
  <2> HIDE DEF half
  <2>3. call[c] \in CallStates /\ call[c].attempt + 1 \in Nat
    BY <2>1 DEF TypeOK, CallStates
  <2>4. r \in CallStates /\ r.sent = now /\ r.probe = half
    BY <2>2, <2>3 DEF CallStates
  <2> QED
    BY <2>4 DEF half
<1>3. b \in Breakers /\ b.opened = breaker.opened
  BY <1>1, BreakerTyped
<1>4. call' = [call EXCEPT ![c] = s]
  BY DEF Send
<1>5. breaker' = b /\ Goto(c, "running")
  BY DEF Send
<1>6. breaker.opened # Null => s.probe
  BY <1>2 DEF Allowed
<1> HIDE DEF s, b
<1>7. Moves(c, "running", s, b, t)
  BY <1>2, <1>3, <1>4, <1>5, <1>6 DEF Moves
<1> QED
  BY <1>7, MovesKeep

\* The breaker an attempt that fails leaves
LEMMA RecordedTyped ==
    ASSUME TypeOK, NEW kind
    PROVE  Recorded(kind) \in Breakers /\ Recorded(kind).opened \in {Null, breaker.opened, now}
<1>1. breaker \in Breakers /\ now \in Nat
  BY DEF TypeOK
<1>2. /\ AfterFailure(breaker, now) \in Breakers
      /\ AfterFailure(breaker, now).opened \in {breaker.opened, now}
  BY <1>1, BreakerTyped
<1>3. Recorded(kind) = breaker \/ Recorded(kind) = AfterFailure(breaker, now)
  BY DEF Recorded
<1> QED
  BY <1>1, <1>2, <1>3

-----------------------------------------------------------------------------
(* One lemma per action *)

LEMMA EnterKeeps == ASSUME Inv, NEW c \in Clients, Enter(c) PROVE Inv'
<1>1. PICK patience \in 1..Patience, wait \in 0..SlotWait :
          call' = [call EXCEPT ![c] = [NoCall EXCEPT !.deadline = now + patience,
                                                     !.wake = now + wait]]
  BY DEF Enter
<1> DEFINE s == [NoCall EXCEPT !.deadline = now + patience, !.wake = now + wait]
<1>2. TypeOK
  BY DEF Inv, PolicyInv
<1>3. s \in CallStates
  <2>1. now + patience \in Nat /\ now + wait \in Nat
    BY <1>2, ResilienceAssumption DEF TypeOK
  <2> QED
    BY <2>1 DEF NoCall, CallStates
<1>4. call' = [call EXCEPT ![c] = s]
  BY <1>1
<1> HIDE DEF s
<1>5. c \notin Holding
  BY DEF Enter, Holding
<1>6. tokens <= tokens /\ breaker \in Breakers /\ tokens \in 0..Cap /\ free \in Nat
  BY <1>2 DEF TypeOK
<1>7. /\ Goto(c, "queued") /\ breaker' = breaker /\ tokens' = tokens /\ now' = now
      /\ free' = free /\ made' = made /\ retried' = retried
  BY DEF Enter
<1>8. Moves(c, "queued", s, breaker, tokens)
  BY <1>3, <1>4, <1>5, <1>6, <1>7 DEF Moves
<1> QED
  BY <1>8, MovesKeep

LEMMA SlotTimeoutKeeps == ASSUME Inv, NEW c \in Clients, SlotTimeout(c) PROVE Inv'
<1>1. c \notin Holding
  BY DEF SlotTimeout, Holding
<1>2. breaker \in Breakers /\ tokens \in 0..Cap
  BY DEF Inv, PolicyInv, TypeOK
<1> QED
  BY <1>1, <1>2, ReturnMoves DEF SlotTimeout

LEMMA GetSlotKeeps == ASSUME Inv, NEW c \in Clients, GetSlot(c) PROVE Inv'
<1>1. c \notin Holding
  BY DEF GetSlot, Holding
<1>2. /\ breaker \in Breakers /\ free \in Nat
      /\ Deposited(tokens) \in 0..Cap /\ Deposited(tokens) <= tokens + Ratio
  BY BudgetTyped DEF Inv, PolicyInv, TypeOK
<1>3. CASE Allowed(breaker, now)
  <2>1. Send(c) /\ free' = free - 1 /\ free' \in Nat
    BY <1>2, <1>3 DEF GetSlot
  <2> QED
    BY <1>1, <1>2, <1>3, <2>1, SendMoves DEF GetSlot
<1>4. CASE ~Allowed(breaker, now)
  <2>1. Return(c) /\ UNCHANGED <<breaker, free>>
    BY <1>4 DEF GetSlot
  <2> QED
    BY <1>1, <1>2, <2>1, ReturnMoves DEF GetSlot
<1> QED
  BY <1>3, <1>4

LEMMA RetryKeeps == ASSUME Inv, NEW c \in Clients, Retry(c) PROVE Inv'
<1>1. c \in Holding
  BY DEF Retry, Holding
<1>2. breaker \in Breakers /\ free \in Nat /\ tokens \in 0..Cap
  BY DEF Inv, PolicyInv, TypeOK
<1>3. CASE Allowed(breaker, now)
  <2>1. Send(c) /\ free' = free
    BY <1>3 DEF Retry
  <2> QED
    BY <1>1, <1>2, <1>3, <2>1, SendMoves DEF Retry
<1>4. CASE ~Allowed(breaker, now)
  <2>1. Return(c) /\ free' = free + 1 /\ breaker' = breaker
    BY <1>4 DEF Retry, Released
  <2> QED
    BY <1>1, <1>2, <2>1, ReturnMoves DEF Retry
<1> QED
  BY <1>3, <1>4

LEMMA SucceedKeeps == ASSUME Inv, NEW c \in Clients, Succeed(c) PROVE Inv'
<1>1. c \in Holding
  BY DEF Succeed, Holding
<1>2. /\ tokens \in 0..Cap /\ AfterSuccess \in Breakers /\ AfterSuccess.opened = Null
      /\ tokens <= tokens
  BY BreakerTyped DEF Inv, PolicyInv, TypeOK
<1> QED
  BY <1>1, <1>2, ReturnMoves DEF Succeed, Released

LEMMA FailForGoodKeeps ==
    ASSUME Inv, NEW c \in Clients, NEW kind \in Failures, FailForGood(c, kind) PROVE Inv'
<1>1. c \in Holding
  BY DEF FailForGood, Holding
<1>2. tokens \in 0..Cap /\ tokens <= tokens /\ TypeOK
  BY DEF Inv, PolicyInv, TypeOK
<1> QED
  BY <1>1, <1>2, RecordedTyped, ReturnMoves DEF FailForGood, Released

LEMMA FailPastDeadlineKeeps ==
    ASSUME Inv, NEW c \in Clients, NEW kind \in Failures, NEW delay \in 0..Backoff,
           FailPastDeadline(c, kind, delay)
    PROVE  Inv'
<1>1. c \in Holding
  BY DEF FailPastDeadline, Holding
<1>2. Withdrawn(tokens) \in 0..Cap /\ Withdrawn(tokens) <= tokens /\ TypeOK
  BY BudgetTyped, ResilienceAssumption DEF Inv, PolicyInv, TypeOK, FailPastDeadline
<1> QED
  BY <1>1, <1>2, RecordedTyped, ReturnMoves DEF FailPastDeadline, Released

LEMMA FailAndBackOffKeeps ==
    ASSUME Inv, NEW c \in Clients, NEW kind \in Failures, NEW delay \in 0..Backoff,
           FailAndBackOff(c, kind, delay)
    PROVE  Inv'
<1> DEFINE s == [call[c] EXCEPT !.wake = now + delay, !.probe = FALSE, !.sent = 0]
<1>1. c \in Holding
  BY DEF FailAndBackOff, Holding
<1>2. TypeOK /\ free \in Nat
  BY DEF Inv, PolicyInv, TypeOK
<1>3. Withdrawn(tokens) \in 0..Cap /\ Withdrawn(tokens) + Token = tokens
  BY BudgetTyped DEF Inv, PolicyInv, TypeOK, FailAndBackOff
<1>4. now + delay \in Nat
  BY <1>2, ResilienceAssumption DEF TypeOK
<1>5. s \in CallStates
  BY <1>2, <1>4 DEF TypeOK, CallStates
<1>6. call' = [call EXCEPT ![c] = s]
  BY DEF FailAndBackOff
<1> HIDE DEF s
<1>7. Moves(c, "backoff", s, Recorded(kind), Withdrawn(tokens))
  BY <1>1, <1>2, <1>3, <1>5, <1>6, RecordedTyped DEF FailAndBackOff, Moves
<1> QED
  BY <1>7, MovesKeep

LEMMA CancelKeeps == ASSUME Inv, NEW c \in Clients, Cancel(c) PROVE Inv'
<1>1. /\ breaker \in Breakers /\ tokens \in 0..Cap /\ tokens <= tokens
      /\ pc[c] \in {"idle", "queued", "running", "backoff"}
  BY DEF Inv, PolicyInv, TypeOK
<1>2. free' = IF c \in Holding THEN free + 1 ELSE free
  BY <1>1 DEF Cancel, Holding, Released
<1> QED
  BY <1>1, <1>2, ReturnMoves DEF Cancel

LEMMA TickKeeps == ASSUME Inv, Tick PROVE Inv'
<1>1. TypeOK /\ now \in Nat /\ now' = now + 1
  BY DEF Inv, PolicyInv, TypeOK, Tick
<1>2. TypeOK'
  BY <1>1 DEF TypeOK, Tick
<1>3. SentInPast'
  <2>1. \A c \in Clients : call[c].sent \in Nat
    BY <1>1 DEF TypeOK, CallStates
  <2> QED
    BY <1>1, <2>1 DEF Inv, PolicyInv, SentInPast, Tick
<1> QED
  BY <1>2, <1>3 DEF Inv, PolicyInv, Tick, SlotsConserved, Holding, RetriesBounded, OpenMeansQuiet

LEMMA InitInv == Init => Inv
<1> SUFFICES ASSUME Init PROVE Inv
  OBVIOUS
<1>1. tokens \in 0..Cap /\ Cap \div 2 \in Int
  BY ResilienceAssumption DEF Init
<1>2. TypeOK
  BY <1>1, ResilienceAssumption DEF Init, TypeOK, Breakers, NoCall, CallStates
<1>3. Holding = {}
  BY DEF Init, Holding
<1>4. SlotsConserved
  BY <1>3, FS_EmptySet, ResilienceAssumption DEF Init, SlotsConserved
<1>5. Token * 0 = 0 /\ Ratio * 0 = 0
  BY ResilienceAssumption
<1>6. RetriesBounded
  BY <1>1, <1>5 DEF Init, RetriesBounded
<1> QED
  BY <1>2, <1>4, <1>6 DEF Init, Inv, PolicyInv, SentInPast, OpenMeansQuiet

LEMMA NextInv == Inv /\ [Next]_vars => Inv'
<1> SUFFICES ASSUME Inv, [Next]_vars PROVE Inv'
  OBVIOUS
<1>1. CASE UNCHANGED vars
  BY <1>1 DEF vars, Inv, PolicyInv, TypeOK, SlotsConserved, SentInPast, Holding,
              RetriesBounded, OpenMeansQuiet
<1>2. CASE Tick
  BY <1>2, TickKeeps
<1>3. ASSUME NEW c \in Clients,
             Enter(c) \/ SlotTimeout(c) \/ GetSlot(c) \/ Retry(c) \/ Succeed(c) \/ Cancel(c)
      PROVE  Inv'
  BY <1>3, EnterKeeps, SlotTimeoutKeeps, GetSlotKeeps, RetryKeeps, SucceedKeeps, CancelKeeps
<1>4. ASSUME NEW c \in Clients, Fail(c)
      PROVE  Inv'
  BY <1>4, FailForGoodKeeps, FailPastDeadlineKeeps, FailAndBackOffKeeps DEF Fail
<1> QED
  BY <1>1, <1>2, <1>3, <1>4 DEF Next, Finished

LEMMA InvHolds == Spec => []Inv
  BY InitInv, NextInv, PTL DEF Spec

-----------------------------------------------------------------------------
(* The theorems *)

\* Every way out of a call gives back the slot it took, once, and the budget
\* stays within its cap (Bulkhead.slot()'s finally, RetryBudget).
THEOREM PolicyInvariant == Spec => []PolicyInv
  BY InvHolds, PTL DEF Inv

\* Retries never cost more than the budget began with and calls deposited,
\* however many clients fail at once (RetryBudget.can_retry).
THEOREM RetriesWithinBudget == Spec => []RetriesBounded
  BY InvHolds, PTL DEF Inv

\* While the circuit is open nothing but a probe is sent (CircuitBreaker.allow).
THEOREM OpenIsQuiet == Spec => []OpenMeansQuiet
  BY InvHolds, PTL DEF Inv
=============================================================================
