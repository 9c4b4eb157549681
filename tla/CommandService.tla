--------------------------- MODULE CommandService ---------------------------
(***************************************************************************)
(* The command path of the CQRS profile: BaseOrchestrator.execute(), its   *)
(* idempotency claim, and BaseCommandService.mutate(), which commits one   *)
(* versioned aggregate conditionally, writes the outbox and synchronizes   *)
(* the cache.  Several commands target the aggregate, others have no       *)
(* versioned aggregate at all; each is delivered any number of times under *)
(* one idempotency key.  Deliveries interleave at every access to a store, *)
(* and may be interrupted or die anywhere.                                 *)
(***************************************************************************)
EXTENDS Integers, FiniteSets

CONSTANTS
    Commands,
    Deliveries,
    Services,      \* the sets of commands whose service may name an _entity_key()
    CommandOf,     \* the command a delivery carries; deliveries are their own owners
    ExpectedOf,    \* the expected_version of a command, 0 for None
    TokenOf,       \* the fencing_token of a delivery, 0 for none
    Null,
    Lease,         \* idempotency_lease_seconds
    Ttl,           \* idempotency_ttl_seconds
    MaxTime        \* bound on the clock

ASSUME CommandAssumption ==
    /\ IsFiniteSet(Deliveries)
    /\ Services \subseteq SUBSET Commands
    /\ CommandOf \in [Deliveries -> Commands]
    /\ ExpectedOf \in [Commands -> Nat]
    /\ TokenOf \in [Deliveries -> Nat]
    /\ Lease \in Nat \ {0} /\ Ttl \in Nat /\ MaxTime \in Nat

\* What complete() stores: `result' and `outcome', which do not tell a command
\* that was carried out from one the gate rejected or an interrupt cut short
CommandResults == {"replayable"}

INSTANCE ClaimRecord
    WITH Owners <- Deliveries, Fingerprints <- Commands, Results <- CommandResults

VARIABLES
    versioned,     \* the commands whose service names one; it does not change
    rec,           \* the commands' idempotency records
    version,       \* the aggregate's version in the store, 0 before it exists
    fence,         \* the highest fencing token the store has seen
    outbox,        \* events of each command in the outbox
    now,           \* the clock
    pc,            \* where each delivery is
    att,           \* each delivery's local state
    reply,         \* the status each delivery's caller got back
    applied        \* history: deliveries whose commit took effect

vars == <<versioned, rec, version, fence, outbox, now, pc, att, reply, applied>>

Errors == {"deterministic", "other"}

\* released: conflicted or dehydrated; interrupted: by an exception that is no
\* Exception, as KeyboardInterrupt or SystemExit
Attempts ==
    [released : BOOLEAN, blocked : BOOLEAN, unknown : BOOLEAN, interrupted : BOOLEAN,
     error : Errors \cup {"none"}]

Replies ==
    {"none", "MUTATED", "BLOCKED", "UNKNOWN", "FAILED", "AWAITING_WEBHOOK", "CONFLICT",
     "INTERRUPTED", "REPLAYED", "IN_PROGRESS", "RECOVERY_REQUIRED", "FAILED_FINAL"}

Places == {"new", "prepare", "commit", "outbox", "finish", "settle", "done", "dead"}

TypeOK ==
    /\ versioned \in Services
    /\ rec \in [Commands -> ClaimRecords \cup {Null}]
    /\ version \in Nat /\ fence \in Nat
    /\ outbox \in [Commands -> Nat]
    /\ now \in Nat
    /\ pc \in [Deliveries -> Places]
    /\ att \in [Deliveries -> Attempts]
    /\ reply \in [Deliveries -> Replies]
    /\ applied \subseteq Deliveries

Fresh ==
    [released |-> FALSE, blocked |-> FALSE, unknown |-> FALSE, interrupted |-> FALSE,
     error |-> "none"]

Init ==
    /\ versioned \in Services
    /\ rec = [m \in Commands |-> Null]
    /\ version = 0 /\ fence = 0
    /\ outbox = [m \in Commands |-> 0]
    /\ now = 0
    /\ pc = [d \in Deliveries |-> "new"]
    /\ att = [d \in Deliveries |-> Fresh]
    /\ reply = [d \in Deliveries |-> "none"]
    /\ applied = {}

-----------------------------------------------------------------------------
(* BaseOrchestrator.execute() *)

Goto(d, place) == pc' = [pc EXCEPT ![d] = place]

Request(d) ==
    [owner |-> d, fp |-> CommandOf[d], lease |-> Lease, ttl |-> Ttl, recover |-> FALSE]

\* __short_circuit()
Told(status) == IF status = "REPLAY" THEN "REPLAYED" ELSE status

Claim(d) ==
    /\ pc[d] = "new"
    /\ LET m == CommandOf[d]
           status == ClaimStatus(rec[m], Request(d), now)
       IN  /\ rec' = [rec EXCEPT ![m] = AfterClaim(rec[m], Request(d), now)]
           /\ Goto(d, IF status = "CLAIMED" THEN "prepare" ELSE "done")
           /\ reply' = IF status = "CLAIMED" THEN reply
                       ELSE [reply EXCEPT ![d] = Told(status)]
    /\ UNCHANGED <<versioned, version, fence, outbox, now, att, applied>>

\* execute() catches what was raised and goes on to its finally
Raise(d, error) ==
    /\ att' = [att EXCEPT ![d].error = error]
    /\ Goto(d, "settle")

\* ConcurrencyConflict, or the gate's DehydrationInterrupt
Release(d, status) ==
    /\ att' = [att EXCEPT ![d].released = TRUE]
    /\ reply' = [reply EXCEPT ![d] = status]
    /\ Goto(d, "settle")

\* variant: a released claim is left in progress
SettledUnlessReleased(d) ==
    IF att[d].released THEN rec[CommandOf[d]]
    ELSE IF att[d].error # "none"
    THEN AfterFail(rec[CommandOf[d]], d, att[d].error # "deterministic", FALSE)
    ELSE AfterComplete(rec[CommandOf[d]], d, "replayable")

\* variant: errors are not looked at
SettledAsDone(d) ==
    IF att[d].released THEN AfterFail(rec[CommandOf[d]], d, TRUE, FALSE)
    ELSE AfterComplete(rec[CommandOf[d]], d, "replayable")

\* __settle_claim(): an interrupt has appended no failed key and set no outcome
Settled(d) ==
    LET r == rec[CommandOf[d]]
    IN  IF att[d].released THEN AfterFail(r, d, TRUE, FALSE)
        ELSE IF att[d].unknown THEN AfterFail(r, d, FALSE, TRUE)
        ELSE IF att[d].error # "none" THEN AfterFail(r, d, att[d].error # "deterministic", FALSE)
        ELSE AfterComplete(r, d, "replayable")

Answer(d) ==
    IF att[d].released THEN reply[d]
    ELSE IF att[d].error # "none" THEN "FAILED"
    ELSE IF att[d].interrupted THEN "INTERRUPTED"
    ELSE IF att[d].unknown THEN "UNKNOWN"
    ELSE IF att[d].blocked THEN "BLOCKED" ELSE "MUTATED"

Settle(d) ==
    /\ pc[d] = "settle"
    /\ rec' = [rec EXCEPT ![CommandOf[d]] = Settled(d)]
    /\ reply' = [reply EXCEPT ![d] = Answer(d)]
    /\ Goto(d, "done")
    /\ UNCHANGED <<versioned, version, fence, outbox, now, att, applied>>

-----------------------------------------------------------------------------
(* mutate() *)

HasAggregate(d) == CommandOf[d] \in versioned

\* The governance gate and what precedes the commit touch no store: they let
\* the command pass, pause it, raise, or reject it at the commit gate
Pass(d) ==
    /\ pc[d] = "prepare"
    /\ Goto(d, "commit")
    /\ UNCHANGED <<versioned, rec, version, fence, outbox, now, att, reply, applied>>

Pause(d) ==
    /\ pc[d] = "prepare"
    /\ Release(d, "AWAITING_WEBHOOK")
    /\ UNCHANGED <<versioned, rec, version, fence, outbox, now, applied>>

PrepareRaises(d, error) ==
    /\ pc[d] = "prepare"
    /\ Raise(d, error)
    /\ UNCHANGED <<versioned, rec, version, fence, outbox, now, reply, applied>>

Blocked(d) ==
    /\ pc[d] = "prepare"
    /\ att' = [att EXCEPT ![d].blocked = TRUE]
    /\ Goto(d, "settle")
    /\ UNCHANGED <<versioned, rec, version, fence, outbox, now, reply, applied>>

\* variant: the aggregate is overwritten, whatever its version
AcceptedBlindly(d) == TokenOf[d] = 0 \/ TokenOf[d] >= fence

\* put_if_version()
Fenced(d) == TokenOf[d] # 0 /\ TokenOf[d] < fence

Accepted(d) == ~Fenced(d) /\ version = ExpectedOf[CommandOf[d]]

\* The fence is raised before the version is compared
FenceAfter(d) == IF TokenOf[d] # 0 /\ ~Fenced(d) THEN TokenOf[d] ELSE fence

Stored(d) ==
    /\ fence' = FenceAfter(d)
    /\ version' = IF Accepted(d) THEN version + 1 ELSE version
    /\ applied' = IF Accepted(d) THEN applied \cup {d} ELSE applied

\* variant: _commit_versioned() does not look at the result
GoesOn(d) == TRUE

\* Only a committed write goes on to the outbox
Committed(d) == Accepted(d)

Commit(d) ==
    /\ pc[d] = "commit" /\ HasAggregate(d)
    /\ Stored(d)
    /\ IF Committed(d) THEN Goto(d, "outbox") /\ UNCHANGED <<att, reply>>
       ELSE Release(d, "CONFLICT")
    /\ UNCHANGED <<versioned, rec, outbox, now>>

\* No entity key: there is no conditional commit
CommitNothing(d) ==
    /\ pc[d] = "commit" /\ ~HasAggregate(d)
    /\ Goto(d, "outbox")
    /\ UNCHANGED <<versioned, rec, version, fence, outbox, now, att, reply, applied>>

\* The answer of the store is lost; the write may have been made
CommitLost(d) ==
    /\ pc[d] = "commit" /\ HasAggregate(d)
    /\ Stored(d) \/ UNCHANGED <<version, fence, applied>>
    /\ Raise(d, "other")
    /\ UNCHANGED <<versioned, rec, outbox, now, reply>>

WriteOutbox(d) ==
    /\ pc[d] = "outbox"
    /\ outbox' = [outbox EXCEPT ![CommandOf[d]] = @ + 1]
    /\ Goto(d, "finish")
    /\ UNCHANGED <<versioned, rec, version, fence, now, att, reply, applied>>

OutboxRaises(d, error) ==
    /\ pc[d] = "outbox"
    /\ Raise(d, error)
    /\ UNCHANGED <<versioned, rec, version, fence, outbox, now, reply, applied>>

\* The cache is synchronized and the latency within bounds; the state returned
\* may carry an UNKNOWN outcome
MutateReturns(d, unknown) ==
    /\ pc[d] = "finish"
    /\ att' = [att EXCEPT ![d].unknown = unknown]
    /\ Goto(d, "settle")
    /\ UNCHANGED <<versioned, rec, version, fence, outbox, now, reply, applied>>

\* The cache write raises, or the latency is an NFRViolationError
FinishRaises(d, error) ==
    /\ pc[d] = "finish"
    /\ Raise(d, error)
    /\ UNCHANGED <<versioned, rec, version, fence, outbox, now, reply, applied>>

\* The process is asked to stop: `except Exception' lets the interrupt pass, and
\* `finally' settles the claim.  A write under way may have been made.
Interrupt(d) ==
    /\ pc[d] \in {"prepare", "commit", "outbox", "finish"}
    /\ \/ pc[d] = "commit" /\ HasAggregate(d) /\ Stored(d)
       \/ UNCHANGED <<version, fence, applied>>
    /\ att' = [att EXCEPT ![d].interrupted = TRUE]
    /\ Goto(d, "settle")
    /\ UNCHANGED <<versioned, rec, outbox, now, reply>>

\* The process is gone, or is interrupted within `finally'
Die(d) ==
    /\ pc[d] \notin {"new", "done", "dead"}
    /\ Goto(d, "dead")
    /\ UNCHANGED <<versioned, rec, version, fence, outbox, now, att, reply, applied>>

Tick ==
    /\ now < MaxTime
    /\ now' = now + 1
    /\ UNCHANGED <<versioned, rec, version, fence, outbox, pc, att, reply, applied>>

\* Every delivery has ended
Finished ==
    /\ \A d \in Deliveries : pc[d] \in {"done", "dead"}
    /\ UNCHANGED vars

Next ==
    \/ \E d \in Deliveries :
          \/ Claim(d) \/ Settle(d)
          \/ Pass(d) \/ Pause(d) \/ Blocked(d)
          \/ Commit(d) \/ CommitLost(d) \/ CommitNothing(d) \/ WriteOutbox(d)
          \/ \E unknown \in BOOLEAN : MutateReturns(d, unknown)
          \/ \E error \in Errors :
                PrepareRaises(d, error) \/ OutboxRaises(d, error) \/ FinishRaises(d, error)
          \/ Interrupt(d) \/ Die(d)
    \/ Tick
    \/ Finished

Spec == Init /\ [][Next]_vars

-----------------------------------------------------------------------------
(* Properties *)

AppliedFor(m) == {d \in applied : CommandOf[d] = m}

\* A command changes the aggregate at most once, although its claim may be
\* forgotten with its ttl, be released by a failure after the commit, or be
\* held twice: the conditional commit is the authority.
AppliedOnce == \A m \in Commands : Cardinality(AppliedFor(m)) <= 1

\* A command that changes the aggregate is carried out when it is committed and
\* announced, any other once it is announced
CarriedOut(m) ==
    IF m \in versioned THEN AppliedFor(m) # {} /\ outbox[m] = 1 ELSE outbox[m] >= 1

\* A command recorded as SUCCEEDED was carried out, whichever of its deliveries
\* did it: no replay stands for a lost command or a lost event, although errors,
\* pauses, conflicts and lost answers end calls everywhere.  There are two
\* exceptions, and no other: the delivery that settled the record was rejected by
\* the commit gate, or was interrupted.
SucceededMeansDone ==
    \A m \in Commands :
        rec[m] # Null /\ rec[m].state = "SUCCEEDED" =>
            /\ pc[rec[m].owner] = "done"
            /\ reply[rec[m].owner] \in {"BLOCKED", "INTERRUPTED"} \/ CarriedOut(m)

\* The outbox never announces a command that lost its race, and a command that
\* changes the aggregate has no more events than commits.
EventsAreReal == \A m \in versioned : outbox[m] <= Cardinality(AppliedFor(m))

\* execute() does not return with its claim still in progress, on any of the
\* ways out of mutate(), so a command whose process lives is never stuck.
SettledOnReturn ==
    \A d \in Deliveries :
        pc[d] \in {"new", "done"} => ~OwnedBy(rec[CommandOf[d]], d)

\* A commit leaves the version its command was computed from behind for good.
CommitsMoveOn ==
    /\ \A d \in applied : version > ExpectedOf[CommandOf[d]]
    /\ \A d, e \in applied : CommandOf[d] = CommandOf[e] => d = e

\* d has nothing left to do but to report success
Completes(d) ==
    \/ pc[d] = "finish"
    \/ /\ pc[d] = "settle" /\ att[d].error = "none"
       /\ ~att[d].released /\ ~att[d].unknown /\ ~att[d].blocked /\ ~att[d].interrupted

\* The event of a command that changes the aggregate is written once, by the
\* delivery whose commit it announces; any event, before its delivery reports
\* success.
EventsFollowCommits ==
    /\ \A m \in versioned : outbox[m] = 0 \/ (outbox[m] = 1 /\ AppliedFor(m) # {})
    /\ \A d \in Deliveries :
          /\ pc[d] = "outbox" /\ HasAggregate(d) => d \in applied /\ outbox[CommandOf[d]] = 0
          /\ Completes(d) => CarriedOut(CommandOf[d]) /\ (HasAggregate(d) => d \in applied)

\* No claim outlives the call that made it, and commits, events and reports of
\* success come in this order: with SucceededMeansDone, the inductive invariant.
CommandInv == TypeOK /\ SettledOnReturn /\ CommitsMoveOn /\ EventsFollowCommits
=============================================================================
