---------------------------- MODULE BuildPipeline ----------------------------
(***************************************************************************)
(* AIDLCPipelineOrchestrator.execute_pipeline() and the saga compensator:  *)
(* builds of one orchestrator instance claim their generator key, are      *)
(* admitted, run phases A to C and, when they fail, undo what the phase    *)
(* they reached left behind.  Builds of different keys share one generated *)
(* abstract class, whose referrers an ownership record counts by           *)
(* compare-and-set.  A build's claim has no ttl and nobody recovers it, so *)
(* the lapse of its lease decides only which refusal a duplicate gets, and *)
(* the clock is left out.                                                  *)
(***************************************************************************)
EXTENDS Integers, FiniteSets

CONSTANTS
    Builds,        \* runs of execute_pipeline(); each its own correlation id
    Keys,          \* generator keys
    KeyOf,
    Tenants,
    TenantOf,
    WithA2C,       \* the builds whose request enables phase B
    Null,
    BuildSlots,    \* build_max_inflight
    TenantSlots,   \* tenant_build_max_inflight
    MaxTries       \* attempts of a compare-and-set loop (8 in the code)

ASSUME BuildAssumption ==
    /\ IsFiniteSet(Builds)
    /\ KeyOf \in [Builds -> Keys] /\ TenantOf \in [Builds -> Tenants]
    /\ WithA2C \subseteq Builds
    /\ BuildSlots \in Nat \ {0} /\ TenantSlots \in Nat \ {0} /\ MaxTries \in Nat \ {0}

\* A claim is the tenant's; a request's content is that of its key
Scopes == Tenants \X Keys

INSTANCE ClaimRecord WITH Owners <- Builds, Fingerprints <- Keys, Results <- {"E2A_VERIFIED"}

VARIABLES
    rec,           \* the idempotency records
    slots,         \* free permits of the instance
    tenantSlots,   \* free permits of each tenant
    scaffold,      \* the keys whose scaffold and inherited class exist
    file,          \* whether the abstract class exists
    art,           \* its ownership record in the artifact store
    pc,            \* where each build is
    att            \* each build's local state

vars == <<rec, slots, tenantSlots, scaffold, file, art, pc, att>>

Artifacts ==
    [refs : SUBSET Keys, created_by : Keys \cup {Null}, deleted : BOOLEAN, ver : Nat]

\* Null is neither a claim's record nor an artifact's
ASSUME NoRecordAssumption == Null \notin ClaimRecords /\ Null \notin Artifacts

Phases ==
    {"QUEUED", "FAILED_G2C_P0", "G2C_P0_DONE", "FAILED_A2C", "A2C_DONE", "E2A_VERIFIED",
     "REJECTED_OVERLOAD", "SKIPPED"}

\* path: a generator result names the abstract class; fresh: there was none when
\* generate() looked; orphaned: the compensation decided to delete it; cur: what
\* the compare-and-set loop read
Attempts ==
    [phase : Phases, failed : BOOLEAN, success : BOOLEAN, owned : BOOLEAN,
     ok : BOOLEAN, path : BOOLEAN, fresh : BOOLEAN, orphaned : BOOLEAN,
     cur : Artifacts \cup {Null}, tries : 0..(MaxTries - 1)]

Places ==
    {"new", "tenant", "instance", "phaseA", "generate", "register", "registerCas", "attempted",
     "phaseB", "phaseC", "leave", "compensate", "unref", "unrefCas", "delete",
     "settle", "done", "dead"}

TypeOK ==
    /\ rec \in [Scopes -> ClaimRecords \cup {Null}]
    /\ slots \in 0..BuildSlots
    /\ tenantSlots \in [Tenants -> 0..TenantSlots]
    /\ scaffold \subseteq Keys
    /\ file \in BOOLEAN
    /\ art \in Artifacts \cup {Null}
    /\ pc \in [Builds -> Places]
    /\ att \in [Builds -> Attempts]

Fresh ==
    [phase |-> "QUEUED", failed |-> FALSE, success |-> FALSE, owned |-> FALSE,
     ok |-> FALSE, path |-> FALSE, fresh |-> FALSE, orphaned |-> FALSE, cur |-> Null, tries |-> 0]

Init ==
    /\ rec = [s \in Scopes |-> Null]
    /\ slots = BuildSlots
    /\ tenantSlots = [t \in Tenants |-> TenantSlots]
    /\ scaffold = {}
    /\ file \in BOOLEAN
    /\ art = Null
    /\ pc = [b \in Builds |-> "new"]
    /\ att = [b \in Builds |-> Fresh]

ScopeOf(b) == <<TenantOf[b], KeyOf[b]>>

Goto(b, place) == pc' = [pc EXCEPT ![b] = place]

\* An exception, with the phase reached so far
FailAt(b, place) ==
    /\ att' = [att EXCEPT ![b].failed = TRUE]
    /\ Goto(b, place)

-----------------------------------------------------------------------------
(* Claim and admission *)

\* The governance gate or the store raises: the build owns nothing
FailBeforeClaim(b) ==
    /\ pc[b] = "new"
    /\ FailAt(b, "compensate")
    /\ UNCHANGED <<rec, slots, tenantSlots, scaffold, file, art>>

Request(b) ==
    [owner |-> b, fp |-> KeyOf[b], lease |-> 1, ttl |-> 0, recover |-> FALSE]

Claim(b) ==
    /\ pc[b] = "new"
    /\ LET r == rec[ScopeOf(b)]
           claimed == ClaimStatus(r, Request(b), 0) = "CLAIMED"
       IN  /\ rec' = [rec EXCEPT ![ScopeOf(b)] = AfterClaim(r, Request(b), 0)]
           /\ att' = [att EXCEPT ![b] = [@ EXCEPT !.owned = claimed,
                                                  !.phase = IF claimed THEN att[b].phase
                                                           ELSE "SKIPPED"]]
           /\ Goto(b, IF claimed THEN "tenant" ELSE "done")
    /\ UNCHANGED <<slots, tenantSlots, scaffold, file, art>>

TakeTenantSlot(b) ==
    /\ pc[b] = "tenant" /\ tenantSlots[TenantOf[b]] > 0
    /\ tenantSlots' = [tenantSlots EXCEPT ![TenantOf[b]] = @ - 1]
    /\ Goto(b, "instance")
    /\ UNCHANGED <<rec, slots, scaffold, file, art, att>>

TakeSlot(b) ==
    /\ pc[b] = "instance" /\ slots > 0
    /\ slots' = slots - 1
    /\ Goto(b, "phaseA")
    /\ UNCHANGED <<rec, tenantSlots, scaffold, file, art, att>>

\* variant: a build refused by the instance keeps its tenant's permit
TenantSlotsKept(b) ==
    IF pc[b] = "instance" THEN tenantSlots ELSE [tenantSlots EXCEPT ![TenantOf[b]] = @ + 1]

\* Its tenant's permit is given back
TenantSlotsWithout(b) == [tenantSlots EXCEPT ![TenantOf[b]] = @ + 1]

\* AdmissionTimeout: the wait is over before a permit is free
AdmissionTimeout(b) ==
    /\ pc[b] \in {"tenant", "instance"}
    /\ tenantSlots' = IF pc[b] = "tenant" THEN tenantSlots ELSE TenantSlotsWithout(b)
    /\ att' = [att EXCEPT ![b].phase = "REJECTED_OVERLOAD"]
    /\ Goto(b, "settle")
    /\ UNCHANGED <<rec, slots, scaffold, file, art>>

-----------------------------------------------------------------------------
(* Phase A *)

\* generate() looks for the abstract class, and takes its time
StartGenerate(b) ==
    /\ pc[b] = "phaseA"
    /\ att' = [att EXCEPT ![b].fresh = ~file]
    /\ Goto(b, "generate")
    /\ UNCHANGED <<rec, slots, tenantSlots, scaffold, file, art>>

\* It writes the scaffold, the inherited class, and the abstract class if it
\* found none
Generate(b, ok) ==
    /\ pc[b] = "generate"
    /\ scaffold' = scaffold \cup {KeyOf[b]}
    /\ file' = (file \/ att[b].fresh)
    /\ att' = [att EXCEPT ![b] = [@ EXCEPT !.ok = ok, !.path = TRUE]]
    /\ Goto(b, "register")
    /\ UNCHANGED <<rec, slots, tenantSlots, art>>

\* It raises, perhaps with part of it written, or the deadline has passed
GenerateRaises(b) ==
    /\ pc[b] = "generate"
    /\ scaffold' \in {scaffold, scaffold \cup {KeyOf[b]}}
    /\ file' \in {file, file \/ att[b].fresh}
    /\ FailAt(b, "leave")
    /\ UNCHANGED <<rec, slots, tenantSlots, art>>

\* An AdmissionTimeout of the model gateway is taken for one of the build's own
GenerateOverloaded(b) ==
    /\ pc[b] = "generate"
    /\ scaffold' \in {scaffold, scaffold \cup {KeyOf[b]}}
    /\ file' \in {file, file \/ att[b].fresh}
    /\ att' = [att EXCEPT ![b].phase = "REJECTED_OVERLOAD"]
    /\ Goto(b, "leave")
    /\ UNCHANGED <<rec, slots, tenantSlots, art>>

\* __register_artifact_ref()
Registered(b) == art # Null /\ ~art.deleted /\ KeyOf[b] \in art.refs

ReadToRegister(b) ==
    /\ pc[b] = "register"
    /\ IF Registered(b)
       THEN Goto(b, "attempted") /\ UNCHANGED att
       ELSE Goto(b, "registerCas") /\ att' = [att EXCEPT ![b].cur = art]
    /\ UNCHANGED <<rec, slots, tenantSlots, scaffold, file, art>>

VersionOf(a) == IF a = Null THEN 0 ELSE a.ver

WithReference(b, a) ==
    IF a = Null \/ a.deleted
    THEN [refs |-> {KeyOf[b]}, created_by |-> IF att[b].fresh THEN KeyOf[b] ELSE Null,
          deleted |-> FALSE, ver |-> VersionOf(a) + 1]
    ELSE [a EXCEPT !.refs = @ \cup {KeyOf[b]}, !.ver = @ + 1]

\* variant: the record is put whatever its version
UnchangedBlindly(b) == TRUE

\* put_if_version() finds the version that was read
UnchangedSince(b) == VersionOf(art) = VersionOf(att[b].cur)

Exhausted(b) == att[b].tries + 1 = MaxTries

\* The next attempt, or ConcurrencyConflict after the last one
TryAgain(b, again, raised) ==
    /\ att' = [att EXCEPT ![b] =
                  [@ EXCEPT !.cur = Null,
                            !.tries = IF Exhausted(b) THEN 0 ELSE att[b].tries + 1,
                            !.failed = att[b].failed \/ Exhausted(b)]]
    /\ Goto(b, IF Exhausted(b) THEN raised ELSE again)

Register(b) ==
    /\ pc[b] = "registerCas"
    /\ IF UnchangedSince(b)
       THEN /\ art' = WithReference(b, att[b].cur)
            /\ att' = [att EXCEPT ![b] = [@ EXCEPT !.cur = Null, !.tries = 0]]
            /\ Goto(b, "attempted")
       ELSE TryAgain(b, "register", "leave") /\ UNCHANGED art
    /\ UNCHANGED <<rec, slots, tenantSlots, scaffold, file>>

\* The state is persisted.  Phase B runs if the request enables it and phase A
\* produced a dev_request.
FinishA(b) ==
    /\ pc[b] = "attempted" /\ att[b].ok
    /\ att' = [att EXCEPT ![b].phase = "G2C_P0_DONE"]
    /\ Goto(b, "phaseC") \/ (b \in WithA2C /\ Goto(b, "phaseB"))
    /\ UNCHANGED <<rec, slots, tenantSlots, scaffold, file, art>>

AFailed(b) ==
    /\ pc[b] = "attempted" /\ ~att[b].ok
    /\ att' = [att EXCEPT ![b] = [@ EXCEPT !.phase = "FAILED_G2C_P0", !.failed = TRUE]]
    /\ Goto(b, "leave")
    /\ UNCHANGED <<rec, slots, tenantSlots, scaffold, file, art>>

\* __persist_state() raises for the one phase or the other, or the deadline of
\* phase B has passed
PersistAFails(b) ==
    /\ pc[b] = "attempted"
    /\ \/ FailAt(b, "leave")
       \/ /\ att[b].ok
          /\ att' = [att EXCEPT ![b] = [@ EXCEPT !.failed = TRUE, !.phase = "G2C_P0_DONE"]]
          /\ Goto(b, "leave")
    /\ UNCHANGED <<rec, slots, tenantSlots, scaffold, file, art>>

-----------------------------------------------------------------------------
(* Phases B and C *)

PhaseB(b) ==
    /\ pc[b] = "phaseB"
    /\ \/ /\ att' = [att EXCEPT ![b].phase = "A2C_DONE"]
          /\ Goto(b, "phaseC")
       \/ /\ att' = [att EXCEPT ![b] = [@ EXCEPT !.phase = "FAILED_A2C", !.failed = TRUE]]
          /\ Goto(b, "leave")
    /\ UNCHANGED <<rec, slots, tenantSlots, scaffold, file, art>>

\* It raises, or its state is not persisted
PhaseBRaises(b) ==
    /\ pc[b] = "phaseB"
    /\ \E phase \in {att[b].phase, "A2C_DONE"} :
          att' = [att EXCEPT ![b] = [@ EXCEPT !.phase = phase, !.failed = TRUE]]
    /\ Goto(b, "leave")
    /\ UNCHANGED <<rec, slots, tenantSlots, scaffold, file, art>>

\* The static pipeline succeeds; its state may not be persisted any more
PhaseC(b) ==
    /\ pc[b] = "phaseC"
    /\ \E failed \in BOOLEAN :
          att' = [att EXCEPT ![b] = [@ EXCEPT !.phase = "E2A_VERIFIED", !.success = TRUE,
                                              !.failed = failed]]
    /\ Goto(b, "leave")
    /\ UNCHANGED <<rec, slots, tenantSlots, scaffold, file, art>>

\* run_pipeline() reports FAILED whichever of its stages fails, and phase C raises
PhaseCFails(b) ==
    /\ pc[b] = "phaseC"
    /\ FailAt(b, "leave")
    /\ UNCHANGED <<rec, slots, tenantSlots, scaffold, file, art>>

-----------------------------------------------------------------------------
(* The finally clause: the slot, compensation, settlement *)

Leave(b) ==
    /\ pc[b] = "leave"
    /\ slots' = slots + 1
    /\ tenantSlots' = TenantSlotsWithout(b)
    /\ Goto(b, IF att[b].failed THEN "compensate" ELSE "settle")
    /\ UNCHANGED <<rec, scaffold, file, art, att>>

\* variant: any failure deletes the scaffold
UndoneAlways(b) == TRUE

\* Nothing, or only a partial scaffold, had been reached
UndoneWhole(b) == att[b].phase \in {"QUEUED", "FAILED_G2C_P0"}

\* Otherwise compensate() reverts phase B's own branch and files, or nothing
Compensate(b) ==
    /\ pc[b] = "compensate"
    /\ scaffold' = IF UndoneWhole(b) THEN scaffold \ {KeyOf[b]} ELSE scaffold
    /\ Goto(b, IF UndoneWhole(b) /\ att[b].path THEN "unref" ELSE "settle")
    /\ UNCHANGED <<rec, slots, tenantSlots, file, art, att>>

\* _delete_abstract_class_if_orphaned()
ReadToUnref(b) ==
    /\ pc[b] = "unref"
    /\ att' = [att EXCEPT ![b].cur = art]
    /\ Goto(b, IF art = Null THEN "settle" ELSE "unrefCas")
    /\ UNCHANGED <<rec, slots, tenantSlots, scaffold, file, art>>

\* variant: a record marked deleted is orphaned again
OrphanedAgain(b, a) == a.refs \ {KeyOf[b]} = {} /\ a.created_by # Null

Orphaned(b, a) == a.refs \ {KeyOf[b]} = {} /\ a.created_by # Null /\ ~a.deleted

Unref(b) ==
    /\ pc[b] = "unrefCas"
    /\ IF UnchangedSince(b)
       THEN LET a == att[b].cur
            IN  /\ art' = [a EXCEPT !.refs = @ \ {KeyOf[b]}, !.ver = @ + 1,
                                    !.deleted = @ \/ Orphaned(b, a)]
                /\ att' = [att EXCEPT ![b] = [@ EXCEPT !.cur = Null, !.orphaned = Orphaned(b, a)]]
                /\ Goto(b, IF Orphaned(b, a) THEN "delete" ELSE "settle")
       ELSE TryAgain(b, "unref", "dead") /\ UNCHANGED art
    /\ UNCHANGED <<rec, slots, tenantSlots, scaffold, file>>

DeleteObject(b) ==
    /\ pc[b] = "delete"
    /\ file' = FALSE
    /\ Goto(b, "settle")
    /\ UNCHANGED <<rec, slots, tenantSlots, scaffold, art, att>>

\* A hook of the compensator raises: the exception leaves the finally clause
\* and the claim is never settled
CompensationRaises(b) ==
    /\ pc[b] \in {"compensate", "delete"}
    /\ Goto(b, "dead")
    /\ UNCHANGED <<rec, slots, tenantSlots, scaffold, file, art, att>>

Settled(b) ==
    LET r == rec[ScopeOf(b)]
    IN  IF ~att[b].owned THEN r
        ELSE IF att[b].success THEN AfterComplete(r, b, "E2A_VERIFIED")
        ELSE AfterFail(r, b, TRUE, FALSE)

\* variant: a failed build is compensated once its claim is settled
AfterSettlementCompensated(b) == IF att[b].failed THEN "compensate" ELSE "done"

AfterSettlement(b) == "done"

Settle(b) ==
    /\ pc[b] = "settle"
    /\ rec' = [rec EXCEPT ![ScopeOf(b)] = Settled(b)]
    /\ Goto(b, AfterSettlement(b))
    /\ UNCHANGED <<slots, tenantSlots, scaffold, file, art, att>>

\* The instance dies with its builds and starts again
Crash ==
    /\ \E b \in Builds : pc[b] \notin {"new", "done", "dead"}
    /\ pc' = [b \in Builds |-> IF pc[b] \in {"new", "done"} THEN pc[b] ELSE "dead"]
    /\ slots' = BuildSlots
    /\ tenantSlots' = [t \in Tenants |-> TenantSlots]
    /\ UNCHANGED <<rec, scaffold, file, art, att>>

\* Every build has ended
Finished ==
    /\ \A b \in Builds : pc[b] \in {"done", "dead"}
    /\ UNCHANGED vars

Step(b) ==
    \/ FailBeforeClaim(b) \/ Claim(b)
    \/ TakeTenantSlot(b) \/ TakeSlot(b) \/ AdmissionTimeout(b)
    \/ StartGenerate(b) \/ \E ok \in BOOLEAN : Generate(b, ok)
    \/ GenerateRaises(b) \/ GenerateOverloaded(b)
    \/ ReadToRegister(b) \/ Register(b)
    \/ FinishA(b) \/ AFailed(b) \/ PersistAFails(b)
    \/ PhaseB(b) \/ PhaseBRaises(b) \/ PhaseC(b) \/ PhaseCFails(b)
    \/ Leave(b) \/ Compensate(b) \/ ReadToUnref(b) \/ Unref(b) \/ DeleteObject(b)
    \/ CompensationRaises(b) \/ Settle(b)

Next == (\E b \in Builds : Step(b)) \/ Crash \/ Finished

Spec == Init /\ [][Next]_vars

-----------------------------------------------------------------------------
(* Properties *)

HoldsSlot(b) ==
    pc[b] \in {"phaseA", "generate", "register", "registerCas", "attempted", "phaseB", "phaseC",
              "leave"}

\* Build permits are neither leaked nor returned twice: whatever raises, a build
\* gives back what it took, and no more builds run than the caps allow.
PermitsConserved ==
    /\ slots + Cardinality({b \in Builds : HoldsSlot(b)}) = BuildSlots
    /\ \A t \in Tenants :
          tenantSlots[t]
             + Cardinality({b \in Builds : TenantOf[b] = t
                                              /\ (HoldsSlot(b) \/ pc[b] = "instance")})
          = TenantSlots

Building(b) == att[b].owned /\ pc[b] \notin {"new", "done", "dead"}

\* One build of a key at a time, its cleanup included: the claim is settled
\* after the compensation, so nobody builds what is still being deleted.
OneBuilder ==
    \A b, c \in Builds : Building(b) /\ Building(c) /\ ScopeOf(b) = ScopeOf(c) => b = c

Completed(s) == rec[s] # Null /\ rec[s].state = "SUCCEEDED"

\* A completed build's scaffold stays: no build that held the claim deletes it,
\* only one that failed before it came to claim the key may.
ScaffoldKept ==
    \A s \in Scopes :
        Completed(s) /\ s[2] \notin scaffold =>
            \E b \in Builds : KeyOf[b] = s[2] /\ att[b].failed /\ ~att[b].owned

\* A completed build keeps its reference to the abstract class, and a class with
\* such a reference is never marked deleted, however registrations and
\* compensations of other keys interleave.
ReferenceKept ==
    \A s \in Scopes :
        Completed(s) => art # Null /\ s[2] \in art.refs /\ ~art.deleted

\* Racing compensations do not both decide to delete the abstract class: no more
\* of them do than builds have generated it, in all time.  A build that found the
\* class there gives nobody the right to delete it.
OneDeleter ==
    Cardinality({b \in Builds : att[b].orphaned})
        <= Cardinality({b \in Builds : att[b].path /\ att[b].fresh})

\* The state is well typed, and build permits are conserved.
BuildInv == TypeOK /\ PermitsConserved
=============================================================================
