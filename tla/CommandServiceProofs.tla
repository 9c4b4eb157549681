------------------------ MODULE CommandServiceProofs ------------------------
(***************************************************************************)
(* Theorems about the command path, for any commands, deliveries, expected *)
(* versions, fencing tokens, leases, ttls and clock bounds.                *)
(***************************************************************************)
EXTENDS CommandService, FiniteSetTheorems, TLAPS

\* The invariant the steps preserve
Inv == CommandInv /\ SucceededMeansDone

-----------------------------------------------------------------------------
(* The record *)

\* A claim leaves the record as it was, or a new one of the claimer's.
LEMMA ClaimLeaves ==
    ASSUME TypeOK, NEW d \in Deliveries
    PROVE  LET r == rec[CommandOf[d]]
               n == AfterClaim(r, Request(d), now)
           IN  /\ n = r \/ n = FreshRecord(Request(d), now)
               /\ ClaimStatus(r, Request(d), now) # "CLAIMED" => n = r
               /\ FreshRecord(Request(d), now) \in ClaimRecords
               /\ FreshRecord(Request(d), now).state = "IN_PROGRESS"
               /\ FreshRecord(Request(d), now).owner = d
<1> DEFINE r == rec[CommandOf[d]]
<1>1. ClaimStatus(r, Request(d), now) = "CLAIMED" => Vacant(r, now)
  BY DEF ClaimStatus, Request
<1>2. now + Lease \in Nat /\ now + Ttl \in Nat /\ CommandOf[d] \in Commands
  BY CommandAssumption DEF TypeOK
<1>3. FreshRecord(Request(d), now) \in ClaimRecords
  BY <1>2, CommandAssumption DEF TypeOK, FreshRecord, Request, ClaimRecords, ClaimStates
<1> QED
  BY <1>1, <1>3 DEF AfterClaim, FreshRecord, Request

\* A settlement changes a record of the settler's in progress, and only that; the
\* record is a success only if the delivery had nothing left to do, was rejected
\* or was interrupted.
LEMMA SettlementLeaves ==
    ASSUME TypeOK, NEW d \in Deliveries, pc[d] = "settle"
    PROVE  LET r == rec[CommandOf[d]]
           IN  /\ Settled(d) \in ClaimRecords \cup {Null}
               /\ ~OwnedBy(r, d) => Settled(d) = r
               /\ OwnedBy(r, d) => Settled(d).state # "IN_PROGRESS"
               /\ OwnedBy(r, d) => Settled(d).owner = d
               /\ OwnedBy(r, d) /\ Settled(d).state = "SUCCEEDED" =>
                     Completes(d) \/ Answer(d) \in {"BLOCKED", "INTERRUPTED"}
<1> DEFINE r == rec[CommandOf[d]]
<1>1. r \in ClaimRecords \cup {Null} /\ att[d] \in Attempts
  BY CommandAssumption DEF TypeOK
<1>2. ASSUME ~OwnedBy(r, d) PROVE Settled(d) = r
  BY <1>2 DEF Settled, AfterFail, AfterComplete
<1>3. ASSUME OwnedBy(r, d), NEW retryable \in BOOLEAN, NEW unknown \in BOOLEAN
      PROVE  /\ AfterFail(r, d, retryable, unknown) \in ClaimRecords
             /\ AfterFail(r, d, retryable, unknown).state \notin {"IN_PROGRESS", "SUCCEEDED"}
             /\ AfterFail(r, d, retryable, unknown).owner = d
  <2>1. FailureState(retryable, unknown) \in ClaimStates \ {"IN_PROGRESS", "SUCCEEDED"}
    BY DEF FailureState, ClaimStates
  <2>2. r \in ClaimRecords
    BY <1>1, <1>3 DEF OwnedBy
  <2>3. AfterFail(r, d, retryable, unknown) = [r EXCEPT !.state = FailureState(retryable, unknown)]
    BY <1>3 DEF AfterFail
  <2> QED
    BY <1>3, <2>1, <2>2, <2>3 DEF ClaimRecords, OwnedBy
<1>4. ASSUME OwnedBy(r, d), NEW res \in CommandResults
      PROVE  /\ AfterComplete(r, d, res) \in ClaimRecords
             /\ AfterComplete(r, d, res).state = "SUCCEEDED"
             /\ AfterComplete(r, d, res).owner = d
  <2>1. r \in ClaimRecords
    BY <1>1, <1>4 DEF OwnedBy
  <2>2. AfterComplete(r, d, res) = [r EXCEPT !.state = "SUCCEEDED", !.result = res]
    BY <1>4 DEF AfterComplete
  <2> QED
    BY <1>4, <2>1, <2>2 DEF ClaimRecords, ClaimStates, OwnedBy
<1>5. CASE OwnedBy(r, d) /\ (att[d].released \/ att[d].unknown \/ att[d].error # "none")
  <2>1. CASE att[d].released
    <3>1. Settled(d) = AfterFail(r, d, TRUE, FALSE)
      BY <2>1 DEF Settled
    <3> QED
      BY <1>3, <1>5, <3>1
  <2>2. CASE ~att[d].released /\ att[d].unknown
    <3>1. Settled(d) = AfterFail(r, d, FALSE, TRUE)
      BY <2>2 DEF Settled
    <3> QED
      BY <1>3, <1>5, <3>1
  <2>3. CASE ~att[d].released /\ ~att[d].unknown /\ att[d].error = "deterministic"
    <3>1. Settled(d) = AfterFail(r, d, FALSE, FALSE)
      BY <2>3 DEF Settled
    <3> QED
      BY <1>3, <1>5, <3>1
  <2>4. CASE ~att[d].released /\ ~att[d].unknown /\ att[d].error = "other"
    <3>1. Settled(d) = AfterFail(r, d, TRUE, FALSE)
      BY <2>4 DEF Settled
    <3> QED
      BY <1>3, <1>5, <3>1
  <2> QED
    BY <1>1, <1>5, <2>1, <2>2, <2>3, <2>4 DEF Attempts, Errors
<1>6. CASE OwnedBy(r, d) /\ ~att[d].released /\ ~att[d].unknown /\ att[d].error = "none"
  <2>1. Settled(d) = AfterComplete(r, d, "replayable") /\ "replayable" \in CommandResults
    BY <1>6 DEF Settled, CommandResults
  <2>2. Completes(d) \/ Answer(d) \in {"BLOCKED", "INTERRUPTED"}
    BY <1>6 DEF Completes, Answer
  <2> QED
    BY <1>4, <1>6, <2>1, <2>2
<1> QED
  BY <1>1, <1>2, <1>5, <1>6

-----------------------------------------------------------------------------
(* Type correctness *)

\* What a delivery is told, when it ends or is turned away.
LEMMA AnswersTyped ==
    ASSUME TypeOK, NEW d \in Deliveries
    PROVE  /\ Answer(d) \in Replies
           /\ LET st == ClaimStatus(rec[CommandOf[d]], Request(d), now)
              IN  st # "CLAIMED" => Told(st) \in Replies
<1>1. reply[d] \in Replies
  BY DEF TypeOK
<1>2. Answer(d) \in {reply[d], "FAILED", "INTERRUPTED", "UNKNOWN", "BLOCKED", "MUTATED"}
  BY DEF Answer
<1> QED
  BY <1>1, <1>2 DEF Replies, Told, ClaimStatus

\* The local states a delivery may record.
LEMMA AttemptsTyped ==
    ASSUME TypeOK, NEW d \in Deliveries
    PROVE  /\ \A er \in Errors : [att EXCEPT ![d].error = er] \in [Deliveries -> Attempts]
           /\ [att EXCEPT ![d].released = TRUE] \in [Deliveries -> Attempts]
           /\ [att EXCEPT ![d].blocked = TRUE] \in [Deliveries -> Attempts]
           /\ [att EXCEPT ![d].interrupted = TRUE] \in [Deliveries -> Attempts]
           /\ \A u \in BOOLEAN : [att EXCEPT ![d].unknown = u] \in [Deliveries -> Attempts]
<1>1. att \in [Deliveries -> Attempts] /\ att[d] \in Attempts
  BY DEF TypeOK
<1>2. \A er \in Errors : [att[d] EXCEPT !.error = er] \in Attempts
  BY <1>1 DEF Attempts
<1>3. /\ [att[d] EXCEPT !.released = TRUE] \in Attempts
      /\ [att[d] EXCEPT !.blocked = TRUE] \in Attempts
      /\ [att[d] EXCEPT !.interrupted = TRUE] \in Attempts
  BY <1>1 DEF Attempts
<1>4. \A u \in BOOLEAN : [att[d] EXCEPT !.unknown = u] \in Attempts
  BY <1>1 DEF Attempts
<1> QED
  BY <1>1, <1>2, <1>3, <1>4

\* A conditional write counts the version and the fence up, and records its
\* delivery if it was accepted.
LEMMA StoredTyped ==
    ASSUME TypeOK, NEW d \in Deliveries, Stored(d) \/ UNCHANGED <<version, fence, applied>>
    PROVE  version' \in Nat /\ fence' \in Nat /\ applied' \subseteq Deliveries
  BY CommandAssumption DEF TypeOK, Stored, FenceAfter

\* Every step keeps the types.
LEMMA TypeOKStep ==
    ASSUME TypeOK, [Next]_vars
    PROVE  TypeOK'
<1> USE CommandAssumption
<1>1. ASSUME NEW d \in Deliveries, Claim(d)
      PROVE  TypeOK'
  <2> DEFINE st == ClaimStatus(rec[CommandOf[d]], Request(d), now)
             n == AfterClaim(rec[CommandOf[d]], Request(d), now)
  <2>1. n \in ClaimRecords \cup {Null}
    BY ClaimLeaves DEF TypeOK
  <2>2. st # "CLAIMED" => Told(st) \in Replies
    BY AnswersTyped
  <2>3. /\ rec' = [rec EXCEPT ![CommandOf[d]] = n]
        /\ pc' = [pc EXCEPT ![d] = IF st = "CLAIMED" THEN "prepare" ELSE "done"]
        /\ reply' = IF st = "CLAIMED" THEN reply ELSE [reply EXCEPT ![d] = Told(st)]
        /\ UNCHANGED <<versioned, version, fence, outbox, now, att, applied>>
    BY <1>1 DEF Claim, Goto
  <2> HIDE DEF st, n
  <2> QED
    BY <2>1, <2>2, <2>3 DEF TypeOK, Places
<1>2. ASSUME NEW d \in Deliveries, Settle(d)
      PROVE  TypeOK'
  <2>1. Settled(d) \in ClaimRecords \cup {Null} /\ Answer(d) \in Replies
    BY <1>2, SettlementLeaves, AnswersTyped DEF Settle
  <2> QED
    BY <1>2, <2>1 DEF Settle, Goto, TypeOK, Places
<1>3. ASSUME NEW d \in Deliveries, Commit(d) \/ CommitLost(d) \/ Interrupt(d)
      PROVE  TypeOK'
  <2>1. version' \in Nat /\ fence' \in Nat /\ applied' \subseteq Deliveries
    BY <1>3, StoredTyped DEF Commit, CommitLost, Interrupt
  <2>2. att' \in [Deliveries -> Attempts]
    <3>1. \/ att' = att \/ att' = [att EXCEPT ![d].released = TRUE]
          \/ att' = [att EXCEPT ![d].error = "other"]
          \/ att' = [att EXCEPT ![d].interrupted = TRUE]
      BY <1>3 DEF Commit, CommitLost, Interrupt, Release, Raise
    <3>2. /\ att \in [Deliveries -> Attempts]
          /\ [att EXCEPT ![d].released = TRUE] \in [Deliveries -> Attempts]
          /\ [att EXCEPT ![d].error = "other"] \in [Deliveries -> Attempts]
          /\ [att EXCEPT ![d].interrupted = TRUE] \in [Deliveries -> Attempts]
      BY AttemptsTyped, Zenon DEF TypeOK, Errors
    <3> QED
      BY <3>1, <3>2, Zenon
  <2>3. reply' \in [Deliveries -> Replies] /\ pc' \in [Deliveries -> Places]
    BY <1>3 DEF Commit, CommitLost, Interrupt, Release, Raise, TypeOK, Goto, Places, Replies
  <2> QED
    BY <1>3, <2>1, <2>2, <2>3 DEF Commit, CommitLost, Interrupt, TypeOK
<1>4. ASSUME NEW d \in Deliveries,
             Pass(d) \/ Die(d) \/ WriteOutbox(d) \/ CommitNothing(d)
      PROVE  TypeOK'
  BY <1>4 DEF Pass, Die, WriteOutbox, CommitNothing, Goto, TypeOK, Places
<1>5. ASSUME NEW d \in Deliveries, NEW er \in Errors, NEW u \in BOOLEAN,
             \/ Pause(d) \/ Blocked(d) \/ MutateReturns(d, u)
             \/ PrepareRaises(d, er) \/ OutboxRaises(d, er) \/ FinishRaises(d, er)
      PROVE  TypeOK'
  <2>1. att' \in [Deliveries -> Attempts]
    <3>1. \/ att' = [att EXCEPT ![d].released = TRUE] \/ att' = [att EXCEPT ![d].blocked = TRUE]
          \/ att' = [att EXCEPT ![d].error = er] \/ att' = [att EXCEPT ![d].unknown = u]
      BY <1>5 DEF Pause, Blocked, MutateReturns, PrepareRaises, OutboxRaises,
         FinishRaises, Raise, Release
    <3>2. /\ [att EXCEPT ![d].released = TRUE] \in [Deliveries -> Attempts]
          /\ [att EXCEPT ![d].blocked = TRUE] \in [Deliveries -> Attempts]
          /\ [att EXCEPT ![d].error = er] \in [Deliveries -> Attempts]
          /\ [att EXCEPT ![d].unknown = u] \in [Deliveries -> Attempts]
      BY AttemptsTyped, Zenon
    <3> QED
      BY <3>1, <3>2, Zenon
  <2>2. reply' \in [Deliveries -> Replies] /\ pc' \in [Deliveries -> Places]
    BY <1>5 DEF Pause, Blocked, MutateReturns, PrepareRaises, OutboxRaises,
       FinishRaises, Raise, Release, Goto, TypeOK, Places, Replies
  <2> QED
    BY <1>5, <2>1, <2>2 DEF Pause, Blocked, MutateReturns, PrepareRaises, OutboxRaises,
       FinishRaises, TypeOK
<1>6. CASE Tick \/ Finished \/ UNCHANGED vars
  BY <1>6 DEF Tick, Finished, vars, TypeOK
<1> QED
  BY <1>1, <1>2, <1>3, <1>4, <1>5, <1>6 DEF Next, Errors

-----------------------------------------------------------------------------
(* Claims end with their calls *)

\* No step leaves a returned delivery with a claim.
LEMMA SettledStep ==
    ASSUME TypeOK, SettledOnReturn, [Next]_vars
    PROVE  SettledOnReturn'
<1> USE CommandAssumption
<1>t. TypeOK'
  BY TypeOKStep
<1>1. ASSUME NEW d \in Deliveries, Claim(d)
      PROVE  SettledOnReturn'
  <2> DEFINE st == ClaimStatus(rec[CommandOf[d]], Request(d), now)
             n == AfterClaim(rec[CommandOf[d]], Request(d), now)
  <2>1. /\ n = rec[CommandOf[d]] \/ n.owner = d
        /\ st # "CLAIMED" => n = rec[CommandOf[d]]
    BY ClaimLeaves
  <2>2. /\ rec' = [rec EXCEPT ![CommandOf[d]] = n]
        /\ pc' = [pc EXCEPT ![d] = IF st = "CLAIMED" THEN "prepare" ELSE "done"]
        /\ pc[d] = "new"
    BY <1>1 DEF Claim, Goto
  <2> HIDE DEF st, n
  <2> QED
    BY <2>1, <2>2 DEF SettledOnReturn, OwnedBy, TypeOK
<1>2. ASSUME NEW d \in Deliveries, Settle(d)
      PROVE  SettledOnReturn'
  <2>1. /\ ~OwnedBy(rec[CommandOf[d]], d) => Settled(d) = rec[CommandOf[d]]
        /\ OwnedBy(rec[CommandOf[d]], d) => Settled(d).state # "IN_PROGRESS"
    BY <1>2, SettlementLeaves DEF Settle
  <2>2. rec' = [rec EXCEPT ![CommandOf[d]] = Settled(d)] /\ pc' = [pc EXCEPT ![d] = "done"]
    BY <1>2 DEF Settle, Goto
  <2> QED
    BY <2>1, <2>2 DEF SettledOnReturn, OwnedBy, TypeOK
<1>3. ASSUME NEW d \in Deliveries, NEW place \in Places \ {"new", "done"}, Goto(d, place), rec' = rec
      PROVE  SettledOnReturn'
  BY <1>3 DEF SettledOnReturn, Goto, TypeOK
<1>4. ASSUME NEW d \in Deliveries,
             \/ Commit(d) \/ CommitLost(d) \/ CommitNothing(d) \/ Interrupt(d)
             \/ Pass(d) \/ Die(d) \/ WriteOutbox(d)
      PROVE  SettledOnReturn'
  BY <1>3, <1>4 DEF Commit, CommitLost, CommitNothing, Interrupt, Pass, Die, WriteOutbox,
     Raise, Release, Places
<1>5. ASSUME NEW d \in Deliveries, NEW er \in Errors, NEW u \in BOOLEAN,
             \/ Pause(d) \/ Blocked(d) \/ MutateReturns(d, u)
             \/ PrepareRaises(d, er) \/ OutboxRaises(d, er) \/ FinishRaises(d, er)
      PROVE  SettledOnReturn'
  BY <1>3, <1>5 DEF Pause, Blocked, MutateReturns, PrepareRaises, OutboxRaises, FinishRaises,
     Raise, Release, Places
<1>6. CASE Tick \/ Finished \/ UNCHANGED vars
  BY <1>6 DEF Tick, Finished, vars, SettledOnReturn
<1> QED
  BY <1>1, <1>2, <1>4, <1>5, <1>6 DEF Next, Errors

-----------------------------------------------------------------------------
(* Commits, events and reports of success *)

\* A write accepted by the store is the first one of its command.
LEMMA AcceptedIsFirst ==
    ASSUME TypeOK, CommitsMoveOn, NEW d \in Deliveries, Accepted(d)
    PROVE  AppliedFor(CommandOf[d]) = {}
  BY CommandAssumption DEF TypeOK, CommitsMoveOn, Accepted, AppliedFor

\* What a step does to the versions, and to the commits and their events.
LEMMA CommitsStep ==
    ASSUME TypeOK, CommitsMoveOn, [Next]_vars
    PROVE  CommitsMoveOn' /\ applied \subseteq applied'
<1> USE CommandAssumption
<1>1. ASSUME NEW d \in Deliveries, Stored(d)
      PROVE  CommitsMoveOn' /\ applied \subseteq applied'
  <2>1. CASE Accepted(d)
    <3>1. AppliedFor(CommandOf[d]) = {}
      BY <2>1, AcceptedIsFirst
    <3>2. /\ version = ExpectedOf[CommandOf[d]] /\ version' = version + 1
          /\ applied' = applied \cup {d} /\ version \in Nat
      BY <1>1, <2>1 DEF Stored, Accepted, TypeOK
    <3>3. \A e \in applied' : version' > ExpectedOf[CommandOf[e]]
      BY <3>2 DEF CommitsMoveOn, TypeOK
    <3>4. \A e \in applied : CommandOf[e] # CommandOf[d]
      BY <3>1 DEF AppliedFor
    <3> QED
      BY <3>2, <3>3, <3>4 DEF CommitsMoveOn
  <2>2. CASE ~Accepted(d)
    BY <1>1, <2>2 DEF Stored, CommitsMoveOn
  <2> QED
    BY <2>1, <2>2
<1>2. CASE UNCHANGED <<version, applied>>
  BY <1>2 DEF CommitsMoveOn
<1>3. ASSUME NEW d \in Deliveries, Commit(d) \/ CommitLost(d) \/ Interrupt(d)
      PROVE  CommitsMoveOn' /\ applied \subseteq applied'
  BY <1>1, <1>2, <1>3 DEF Commit, CommitLost, Interrupt
<1>4. (\A d \in Deliveries : ~Commit(d) /\ ~CommitLost(d) /\ ~Interrupt(d)) =>
         UNCHANGED <<version, applied>>
  BY DEF Next, CommitNothing, Claim, Settle, Pass, Pause, Blocked, WriteOutbox, MutateReturns, PrepareRaises,
     OutboxRaises, FinishRaises, Die, Tick, Finished, vars
<1> QED
  BY <1>2, <1>3, <1>4

\* A delivery that does not write the outbox leaves the events and their order.
LEMMA EventsKept ==
    ASSUME TypeOK, EventsFollowCommits, applied \subseteq applied', UNCHANGED <<versioned, outbox>>,
           NEW d \in Deliveries,
           \A e \in Deliveries \ {d} : pc'[e] = pc[e] /\ att'[e] = att[e],
           pc'[d] = "outbox" /\ HasAggregate(d) => d \in applied' /\ outbox[CommandOf[d]] = 0,
           Completes(d)' => Completes(d)
    PROVE  EventsFollowCommits'
<1>1. \A e \in Deliveries : Completes(e)' => Completes(e)
  BY DEF Completes
<1>2. \A m \in Commands : AppliedFor(m) \subseteq AppliedFor(m)' /\ (CarriedOut(m) => CarriedOut(m)')
  BY DEF AppliedFor, CarriedOut
<1>3. versioned \subseteq Commands
  BY CommandAssumption DEF TypeOK
<1> QED
  BY <1>1, <1>2, <1>3, CommandAssumption DEF EventsFollowCommits, HasAggregate

\* Events keep following commits.
LEMMA EventsStep ==
    ASSUME TypeOK, CommitsMoveOn, EventsFollowCommits, [Next]_vars
    PROVE  EventsFollowCommits' /\ \A m \in Commands : CarriedOut(m) => CarriedOut(m)'
<1> USE CommandAssumption
<1> DEFINE Same == \A m \in Commands : CarriedOut(m) => CarriedOut(m)'
<1>a. applied \subseteq applied' /\ versioned \subseteq Commands
  BY CommitsStep DEF TypeOK
<1>b. ASSUME UNCHANGED <<versioned, outbox>>
      PROVE  Same
  BY <1>a, <1>b DEF CarriedOut, AppliedFor
<1>1. ASSUME NEW d \in Deliveries, Claim(d) \/ Settle(d) \/ Pass(d) \/ Die(d)
      PROVE  EventsFollowCommits' /\ Same
  <2>1. /\ UNCHANGED <<versioned, outbox>> /\ att' = att
        /\ \E place \in {"prepare", "done", "commit", "dead"} : pc' = [pc EXCEPT ![d] = place]
    BY <1>1 DEF Claim, Settle, Pass, Die, Goto
  <2>2. pc'[d] \notin {"outbox", "finish", "settle"}
    BY <2>1 DEF TypeOK
  <2>3. \A e \in Deliveries \ {d} : pc'[e] = pc[e] /\ att'[e] = att[e]
    BY <2>1 DEF TypeOK
  <2> QED
    BY <1>a, <1>b, <2>1, <2>2, <2>3, EventsKept DEF Completes
<1>2. ASSUME NEW d \in Deliveries, NEW er \in Errors,
             \/ Pause(d) \/ Blocked(d) \/ PrepareRaises(d, er) \/ OutboxRaises(d, er)
             \/ FinishRaises(d, er) \/ CommitLost(d) \/ Interrupt(d)
      PROVE  EventsFollowCommits' /\ Same
  <2>1. /\ UNCHANGED <<versioned, outbox>> /\ pc' = [pc EXCEPT ![d] = "settle"]
        /\ \/ att' = [att EXCEPT ![d].released = TRUE] \/ att' = [att EXCEPT ![d].blocked = TRUE]
           \/ att' = [att EXCEPT ![d].interrupted = TRUE]
           \/ \E k \in Errors : att' = [att EXCEPT ![d].error = k]
    BY <1>2 DEF Pause, Blocked, PrepareRaises, OutboxRaises, FinishRaises, CommitLost, Interrupt,
       Raise, Release, Goto, Errors
  <2>2. \A e \in Deliveries \ {d} : pc'[e] = pc[e] /\ att'[e] = att[e]
    BY <2>1 DEF TypeOK
  <2>3. /\ pc'[d] = "settle"
        /\ att'[d].released \/ att'[d].blocked \/ att'[d].interrupted \/ att'[d].error # "none"
    BY <2>1 DEF TypeOK, Attempts, Errors
  <2> QED
    BY <1>a, <1>b, <2>1, <2>2, <2>3, EventsKept DEF Completes
<1>3. ASSUME NEW d \in Deliveries, NEW u \in BOOLEAN, MutateReturns(d, u)
      PROVE  EventsFollowCommits' /\ Same
  <2>1. /\ UNCHANGED <<versioned, outbox>> /\ pc' = [pc EXCEPT ![d] = "settle"] /\ pc[d] = "finish"
        /\ att' = [att EXCEPT ![d].unknown = u]
    BY <1>3 DEF MutateReturns, Goto
  <2>2. \A e \in Deliveries \ {d} : pc'[e] = pc[e] /\ att'[e] = att[e]
    BY <2>1 DEF TypeOK
  <2>3. pc'[d] # "outbox"
    BY <2>1 DEF TypeOK
  <2> QED
    BY <1>a, <1>b, <2>1, <2>2, <2>3, EventsKept DEF Completes
<1>4. ASSUME NEW d \in Deliveries, Commit(d)
      PROVE  EventsFollowCommits' /\ Same
  <2>1. CASE Accepted(d)
    <3>1. AppliedFor(CommandOf[d]) = {}
      BY <2>1, AcceptedIsFirst
    <3>2. /\ UNCHANGED <<versioned, outbox>> /\ att' = att /\ pc' = [pc EXCEPT ![d] = "outbox"]
          /\ applied' = applied \cup {d}
      BY <1>4, <2>1 DEF Commit, Committed, Stored, Goto
    <3>3. outbox[CommandOf[d]] = 0
      BY <1>4, <3>1 DEF Commit, HasAggregate, EventsFollowCommits
    <3>4. /\ \A e \in Deliveries \ {d} : pc'[e] = pc[e] /\ att'[e] = att[e]
          /\ pc'[d] = "outbox"
      BY <3>2 DEF TypeOK
    <3> QED
      BY <1>a, <1>b, <3>2, <3>3, <3>4, EventsKept DEF Completes
  <2>2. CASE ~Accepted(d)
    <3>1. /\ UNCHANGED <<versioned, outbox>> /\ pc' = [pc EXCEPT ![d] = "settle"]
          /\ att' = [att EXCEPT ![d].released = TRUE]
      BY <1>4, <2>2 DEF Commit, Committed, Release, Goto
    <3>2. \A e \in Deliveries \ {d} : pc'[e] = pc[e] /\ att'[e] = att[e]
      BY <3>1 DEF TypeOK
    <3>3. pc'[d] = "settle" /\ att'[d].released
      BY <3>1 DEF TypeOK, Attempts
    <3> QED
      BY <1>a, <1>b, <3>1, <3>2, <3>3, EventsKept DEF Completes
  <2> QED
    BY <2>1, <2>2
<1>5. ASSUME NEW d \in Deliveries, WriteOutbox(d)
      PROVE  EventsFollowCommits' /\ Same
  <2> DEFINE m == CommandOf[d]
  <2>1. /\ m \in Commands /\ outbox[m] \in Nat
        /\ \A n \in Commands : outbox'[n] = IF n = m THEN outbox[m] + 1 ELSE outbox[n]
        /\ \A e \in Deliveries : pc'[e] = IF e = d THEN "finish" ELSE pc[e]
        /\ pc[d] = "outbox" /\ UNCHANGED <<versioned, att, applied>>
    BY <1>5 DEF WriteOutbox, Goto, TypeOK
  <2>2. m \in versioned => d \in applied /\ outbox[m] = 0
    BY <2>1 DEF EventsFollowCommits, HasAggregate
  <2>3. \A n \in Commands : AppliedFor(n)' = AppliedFor(n)
    BY <2>1 DEF AppliedFor
  <2>4. CarriedOut(m)'
    BY <2>1, <2>2 DEF CarriedOut, AppliedFor
  <2> HIDE DEF m
  <2>5. Same
    BY <2>1, <2>3, <2>4 DEF CarriedOut
  <2>6. ASSUME NEW n \in versioned
        PROVE  outbox'[n] = 0 \/ (outbox'[n] = 1 /\ AppliedFor(n)' # {})
    BY <1>a, <2>1, <2>3, <2>4 DEF EventsFollowCommits, CarriedOut
  <2>7. ASSUME NEW e \in Deliveries, pc'[e] = "outbox", HasAggregate(e)
        PROVE  e \in applied' /\ outbox'[CommandOf[e]] = 0
    <3>1. e # d /\ e \in applied /\ outbox[CommandOf[e]] = 0 /\ CommandOf[e] \in versioned
      BY <2>1, <2>7 DEF EventsFollowCommits, HasAggregate
    <3>2. CommandOf[e] # m
      BY <2>2, <3>1 DEF CommitsMoveOn, m
    <3> QED
      BY <1>a, <2>1, <3>1, <3>2
  <2>8. ASSUME NEW e \in Deliveries, Completes(e)'
        PROVE  CarriedOut(CommandOf[e])' /\ (HasAggregate(e) => e \in applied')
    <3>1. CASE e = d
      BY <2>1, <2>2, <2>4, <3>1 DEF HasAggregate, m
    <3>2. CASE e # d
      <4>1. Completes(e)
        BY <2>1, <2>8, <3>2 DEF Completes
      <4> QED
        BY <2>1, <2>5, <4>1 DEF EventsFollowCommits
    <3> QED
      BY <3>1, <3>2
  <2>9. versioned' = versioned /\ \A e \in Deliveries : HasAggregate(e)' <=> HasAggregate(e)
    BY <2>1 DEF HasAggregate
  <2> QED
    BY <2>5, <2>6, <2>7, <2>8, <2>9 DEF EventsFollowCommits
<1>7. ASSUME NEW d \in Deliveries, CommitNothing(d)
      PROVE  EventsFollowCommits' /\ Same
  <2>1. /\ UNCHANGED <<versioned, outbox>> /\ att' = att /\ ~HasAggregate(d)
        /\ pc' = [pc EXCEPT ![d] = "outbox"]
    BY <1>7 DEF CommitNothing, Goto
  <2>2. /\ \A e \in Deliveries \ {d} : pc'[e] = pc[e] /\ att'[e] = att[e]
        /\ pc'[d] = "outbox"
    BY <2>1 DEF TypeOK
  <2> QED
    BY <1>a, <1>b, <2>1, <2>2, EventsKept DEF Completes
<1>6. CASE Tick \/ Finished \/ UNCHANGED vars
  BY <1>6 DEF Tick, Finished, vars, EventsFollowCommits, Completes, CarriedOut, AppliedFor, HasAggregate
<1> QED
  BY <1>1, <1>2, <1>3, <1>4, <1>5, <1>6, <1>7 DEF Next, Errors

\* What a delivery that has ended was told stays.
LEMMA RepliesKept ==
    ASSUME TypeOK, [Next]_vars, NEW e \in Deliveries, pc[e] = "done"
    PROVE  pc'[e] = "done" /\ reply'[e] = reply[e]
<1>1. ASSUME NEW d \in Deliveries, pc[d] # "done",
             \E place \in Places : Goto(d, place),
             reply' = reply \/ \E status \in Replies : reply' = [reply EXCEPT ![d] = status]
      PROVE  pc'[e] = "done" /\ reply'[e] = reply[e]
  BY <1>1 DEF Goto, TypeOK
<1>2. ASSUME NEW d \in Deliveries, Claim(d) \/ Settle(d)
      PROVE  pc'[e] = "done" /\ reply'[e] = reply[e]
  BY <1>2 DEF Claim, Settle, Goto, TypeOK
<1>3. ASSUME NEW d \in Deliveries, NEW er \in Errors, NEW u \in BOOLEAN,
             \/ Pass(d) \/ Pause(d) \/ Blocked(d) \/ Commit(d) \/ CommitLost(d)
             \/ CommitNothing(d) \/ WriteOutbox(d) \/ MutateReturns(d, u)
             \/ PrepareRaises(d, er) \/ OutboxRaises(d, er) \/ FinishRaises(d, er)
             \/ Interrupt(d) \/ Die(d)
      PROVE  pc'[e] = "done" /\ reply'[e] = reply[e]
  BY <1>1, <1>3 DEF Pass, Pause, Blocked, Commit, CommitLost, CommitNothing, WriteOutbox,
     MutateReturns, PrepareRaises, OutboxRaises, FinishRaises, Interrupt, Die, Raise, Release,
     Places, Replies
<1>4. CASE Tick \/ Finished \/ UNCHANGED vars
  BY <1>4 DEF Tick, Finished, vars
<1> QED
  BY <1>2, <1>3, <1>4 DEF Next, Errors

\* A record of success stays one of a command that is done.
LEMMA SucceededStep ==
    ASSUME TypeOK, CommitsMoveOn, EventsFollowCommits, SucceededMeansDone, [Next]_vars
    PROVE  SucceededMeansDone'
<1> USE CommandAssumption
<1> DEFINE Good(r, m) == r # Null /\ r.state = "SUCCEEDED" =>
                            /\ pc[r.owner] = "done"
                            /\ reply[r.owner] \in {"BLOCKED", "INTERRUPTED"} \/ CarriedOut(m)
           GoodNext(r, m) == r # Null /\ r.state = "SUCCEEDED" =>
                            /\ pc'[r.owner] = "done"
                            /\ reply'[r.owner] \in {"BLOCKED", "INTERRUPTED"} \/ CarriedOut(m)'
<1>a. \A m \in Commands : CarriedOut(m) => CarriedOut(m)'
  BY EventsStep
<1>b. \A r \in ClaimRecords : r.owner \in Deliveries
  BY DEF ClaimRecords
<1>c. ASSUME NEW m \in Commands, NEW r \in ClaimRecords \cup {Null}, Good(r, m)
      PROVE  GoodNext(r, m)
  BY <1>a, <1>b, <1>c, RepliesKept
<1>d. \A m \in Commands : rec[m] \in ClaimRecords \cup {Null} /\ Good(rec[m], m)
  BY DEF TypeOK, SucceededMeansDone
<1>e. (\A m \in Commands : GoodNext(rec'[m], m)) => SucceededMeansDone'
  <2>1. versioned' = versioned
    BY DEF Next, Claim, Settle, Pass, Pause, Blocked, Commit, CommitLost, CommitNothing, WriteOutbox,
       MutateReturns, PrepareRaises, OutboxRaises, FinishRaises, Interrupt, Die, Tick, Finished, vars
  <2> QED
    BY <2>1 DEF SucceededMeansDone
<1>1. ASSUME NEW d \in Deliveries, NEW n \in ClaimRecords \cup {Null},
             rec' = [rec EXCEPT ![CommandOf[d]] = n], GoodNext(n, CommandOf[d])
      PROVE  SucceededMeansDone'
  <2>1. ASSUME NEW m \in Commands
        PROVE  GoodNext(rec'[m], m)
    <3>1. CASE m = CommandOf[d]
      <4>1. rec'[m] = n
        BY <1>1, <3>1 DEF TypeOK
      <4> QED
        BY <1>1, <3>1, <4>1
    <3>2. CASE m # CommandOf[d]
      <4>1. rec'[m] = rec[m]
        BY <1>1, <3>2 DEF TypeOK
      <4>2. GoodNext(rec[m], m)
        BY <1>c, <1>d
      <4> HIDE DEF GoodNext
      <4> QED
        BY <4>1, <4>2
    <3> QED
      BY <3>1, <3>2
  <2> HIDE DEF GoodNext
  <2> QED
    BY <1>e, <2>1
<1>2. CASE rec' = rec
  <2>1. \A m \in Commands : GoodNext(rec[m], m)
    BY <1>c, <1>d
  <2> QED
    BY <1>2, <1>e, <2>1
<1>3. ASSUME NEW d \in Deliveries, Claim(d)
      PROVE  SucceededMeansDone'
  <2> DEFINE m == CommandOf[d]
             n == AfterClaim(rec[m], Request(d), now)
  <2>1. /\ n = rec[m] \/ (n \in ClaimRecords /\ n.state = "IN_PROGRESS")
        /\ m \in Commands
    BY ClaimLeaves
  <2>2. GoodNext(n, m) /\ n \in ClaimRecords \cup {Null}
    <3>1. CASE n = rec[m]
      <4>1. GoodNext(rec[m], m) /\ rec[m] \in ClaimRecords \cup {Null}
        BY <1>c, <1>d, <2>1
      <4> HIDE DEF GoodNext, n
      <4> QED
        BY <3>1, <4>1
    <3>2. CASE n \in ClaimRecords /\ n.state = "IN_PROGRESS"
      <4> HIDE DEF n
      <4> QED
        BY <3>2
    <3> QED
      BY <2>1, <3>1, <3>2
  <2>3. rec' = [rec EXCEPT ![CommandOf[d]] = n]
    BY <1>3 DEF Claim
  <2> HIDE DEF n, GoodNext
  <2> QED
    BY <1>1, <2>2, <2>3
<1>4. ASSUME NEW d \in Deliveries, Settle(d)
      PROVE  SucceededMeansDone'
  <2> DEFINE m == CommandOf[d]
  <2>1. /\ pc[d] = "settle" /\ rec' = [rec EXCEPT ![m] = Settled(d)]
        /\ pc'[d] = "done" /\ reply'[d] = Answer(d) /\ m \in Commands
    BY <1>4 DEF Settle, Goto, TypeOK
  <2>2. Settled(d) \in ClaimRecords \cup {Null}
    BY <2>1, SettlementLeaves
  <2>3. CASE ~OwnedBy(rec[m], d)
    <3>1. Settled(d) = rec[m]
      BY <2>1, <2>3, SettlementLeaves
    <3>2. GoodNext(rec[m], m)
      BY <1>c, <1>d, <2>1
    <3> HIDE DEF GoodNext
    <3>3. GoodNext(Settled(d), m)
      BY <3>1, <3>2
    <3> QED
      BY <1>1, <2>1, <2>2, <3>3
  <2>4. CASE OwnedBy(rec[m], d)
    <3>1. /\ Settled(d).owner = d
          /\ Settled(d).state = "SUCCEEDED" => Completes(d) \/ Answer(d) \in {"BLOCKED", "INTERRUPTED"}
      BY <2>1, <2>4, SettlementLeaves
    <3>2. Completes(d) => CarriedOut(m)'
      BY <1>a, <2>1 DEF EventsFollowCommits
    <3>3. GoodNext(Settled(d), m)
      BY <2>1, <3>1, <3>2
    <3> HIDE DEF GoodNext
    <3> QED
      BY <1>1, <2>1, <2>2, <3>3
  <2> QED
    BY <2>3, <2>4
<1>5. (\A d \in Deliveries : ~Claim(d) /\ ~Settle(d)) => rec' = rec
  BY DEF Next, Commit, CommitLost, CommitNothing, Pass, Pause, Blocked, WriteOutbox, MutateReturns,
     PrepareRaises, OutboxRaises, FinishRaises, Interrupt, Die, Tick, Finished, vars
<1> QED
  BY <1>2, <1>3, <1>4, <1>5

-----------------------------------------------------------------------------
(* Invariance *)

\* Nothing is claimed, committed or announced at first.
LEMMA InvInit == Init => Inv
<1> SUFFICES ASSUME Init PROVE Inv
  OBVIOUS
<1>1. TypeOK
  BY CommandAssumption DEF Init, TypeOK, Fresh, Attempts, Places, Replies
<1> QED
  BY <1>1, CommandAssumption DEF Init, Inv, CommandInv, SettledOnReturn, OwnedBy, CommitsMoveOn,
     EventsFollowCommits, Completes, SucceededMeansDone

\* Inv is inductive.
LEMMA Invariance == Spec => []Inv
<1>1. Inv /\ [Next]_vars => Inv'
  BY TypeOKStep, SettledStep, CommitsStep, EventsStep, SucceededStep DEF Inv, CommandInv
<1> QED
  BY <1>1, InvInit, PTL DEF Spec

\* No claim outlives the call that made it, and commits, events and reports of
\* success come in this order.
THEOREM CommandInvariant == Spec => []CommandInv
<1>1. Inv => CommandInv
  BY DEF Inv
<1> QED
  BY <1>1, Invariance, PTL

\* The deliveries of a command that were applied are finitely many.
LEMMA AppliedFinite ==
    ASSUME TypeOK, NEW m \in Commands
    PROVE  /\ Cardinality(AppliedFor(m)) \in Nat
           /\ Cardinality(AppliedFor(m)) = 0 <=> AppliedFor(m) = {}
<1>1. AppliedFor(m) \subseteq Deliveries
  BY DEF AppliedFor, TypeOK
<1>2. IsFiniteSet(AppliedFor(m))
  BY <1>1, CommandAssumption, FS_Subset
<1> QED
  BY <1>2, FS_CardinalityType, FS_EmptySet

\* A command changes the aggregate at most once, although its claim may be
\* forgotten, released after the commit, or held twice.
THEOREM CommandAppliedOnce == Spec => []AppliedOnce
<1>1. CommandInv => AppliedOnce
  <2>1. SUFFICES ASSUME CommandInv, NEW m \in Commands
                 PROVE  Cardinality(AppliedFor(m)) <= 1
    BY DEF AppliedOnce
  <2>2. CASE AppliedFor(m) = {}
    BY <2>1, <2>2, AppliedFinite DEF CommandInv
  <2>3. CASE AppliedFor(m) # {}
    <3>1. PICK d \in AppliedFor(m) : TRUE
      BY <2>3
    <3>2. AppliedFor(m) = {d}
      BY <2>1, <3>1 DEF AppliedFor, CommandInv, CommitsMoveOn
    <3> QED
      BY <3>2, FS_Singleton
  <2> QED
    BY <2>2, <2>3
<1> QED
  BY <1>1, CommandInvariant, PTL

\* The outbox never announces a command that lost its race.
THEOREM EventsAnnounceCommits == Spec => []EventsAreReal
<1>1. CommandInv => EventsAreReal
  <2>1. SUFFICES ASSUME CommandInv, NEW m \in versioned
                 PROVE  outbox[m] <= Cardinality(AppliedFor(m))
    BY DEF EventsAreReal
  <2>2. /\ outbox[m] = 0 \/ (outbox[m] = 1 /\ AppliedFor(m) # {})
        /\ Cardinality(AppliedFor(m)) \in Nat
        /\ Cardinality(AppliedFor(m)) = 0 <=> AppliedFor(m) = {}
    <3>1. m \in Commands
      BY <2>1, CommandAssumption DEF CommandInv, TypeOK
    <3> QED
      BY <2>1, <3>1, AppliedFinite DEF CommandInv, EventsFollowCommits
  <2> QED
    BY <2>2
<1> QED
  BY <1>1, CommandInvariant, PTL

\* A stored success stands for a command that was carried out, unless the
\* delivery that stored it was rejected by the gate or interrupted.
THEOREM SuccessesAreDone == Spec => []SucceededMeansDone
<1>1. Inv => SucceededMeansDone
  BY DEF Inv
<1> QED
  BY <1>1, Invariance, PTL
=============================================================================
