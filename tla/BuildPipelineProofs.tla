------------------------- MODULE BuildPipelineProofs -------------------------
(***************************************************************************)
(* Theorems about the build pipeline, for any builds, keys, tenants,       *)
(* permits and attempts of a compare-and-set.                              *)
(***************************************************************************)
EXTENDS BuildPipeline, FiniteSetTheorems, TLAPS

-----------------------------------------------------------------------------
(* What a step leaves alone *)

\* The steps that move a build and record something about it, and nothing else.
PlainStep(b) ==
    \/ FailBeforeClaim(b) \/ StartGenerate(b) \/ ReadToRegister(b)
    \/ FinishA(b) \/ AFailed(b) \/ PersistAFails(b)
    \/ PhaseB(b) \/ PhaseBRaises(b) \/ PhaseC(b) \/ PhaseCFails(b)
    \/ ReadToUnref(b) \/ CompensationRaises(b)

\* The steps that take permits or give them back.
SlotStep(b) == TakeTenantSlot(b) \/ TakeSlot(b) \/ AdmissionTimeout(b) \/ Leave(b)

\* The steps that write or delete files.
FileStep(b) ==
    \/ \E ok \in BOOLEAN : Generate(b, ok)
    \/ GenerateRaises(b) \/ GenerateOverloaded(b) \/ Compensate(b) \/ DeleteObject(b)

\* Every step of a build is of one of these kinds, a compare-and-set of the
\* ownership record, or one on the claim.
LEMMA StepKinds ==
    ASSUME NEW b \in Builds, Step(b)
    PROVE  PlainStep(b) \/ SlotStep(b) \/ FileStep(b) \/ Register(b) \/ Unref(b)
              \/ Claim(b) \/ Settle(b)
  BY DEF Step, PlainStep, SlotStep, FileStep

\* A step of a build moves that build alone.
Alone(b) ==
    /\ \A c \in Builds \ {b} : pc'[c] = pc[c] /\ att'[c] = att[c]
    /\ pc' \in [Builds -> Places] /\ att' \in [Builds -> Attempts]

\* The record that b's registration or its compensation writes over the one it read.
Released(b, a) ==
    [a EXCEPT !.refs = @ \ {KeyOf[b]}, !.ver = @ + 1, !.deleted = @ \/ Orphaned(b, a)]

\* A registration adds its key; it begins anew where there was no record, and is
\* the creator of the new one if it generated the class.
LEMMA ReferenceAdded ==
    ASSUME TypeOK, NEW b \in Builds, NEW a \in Artifacts \cup {Null}
    PROVE  LET n == WithReference(b, a)
           IN  /\ n \in Artifacts /\ n.ver = VersionOf(a) + 1 /\ n # Null
               /\ KeyOf[b] \in n.refs /\ ~n.deleted
               /\ a # Null /\ ~a.deleted =>
                     n.refs = a.refs \cup {KeyOf[b]} /\ n.created_by = a.created_by
               /\ a = Null \/ a.deleted =>
                     /\ n.created_by # Null => att[b].fresh
                     /\ n.refs = {KeyOf[b]}
<1> DEFINE n == WithReference(b, a)
<1>1. att[b].fresh \in BOOLEAN /\ KeyOf[b] \in Keys
  BY BuildAssumption DEF TypeOK, Attempts
<1>2. CASE a = Null \/ a.deleted
  <2>1. VersionOf(a) \in Nat
    BY DEF VersionOf, Artifacts
  <2>2. n = [refs |-> {KeyOf[b]}, created_by |-> IF att[b].fresh THEN KeyOf[b] ELSE Null,
             deleted |-> FALSE, ver |-> VersionOf(a) + 1]
    BY <1>2 DEF WithReference
  <2>3. n \in Artifacts /\ n.ver = VersionOf(a) + 1 /\ n.refs = {KeyOf[b]} /\ ~n.deleted
    BY <1>1, <2>1, <2>2 DEF Artifacts
  <2>4. n.created_by # Null => att[b].fresh
    BY <1>1, <2>2
  <2>5. n # Null /\ KeyOf[b] \in n.refs
    BY <2>3, NoRecordAssumption
  <2> HIDE DEF n
  <2> QED
    BY <1>2, <2>3, <2>4, <2>5 DEF n
<1>3. CASE a # Null /\ ~a.deleted
  <2>1. a \in Artifacts
    BY <1>3
  <2>2. n = [a EXCEPT !.refs = a.refs \cup {KeyOf[b]}, !.ver = a.ver + 1]
    BY <1>3 DEF WithReference
  <2>3. /\ n.refs = a.refs \cup {KeyOf[b]} /\ n.ver = a.ver + 1
        /\ n.deleted = a.deleted /\ n.created_by = a.created_by
        /\ n = [refs |-> n.refs, created_by |-> n.created_by,
                deleted |-> n.deleted, ver |-> n.ver]
    BY <2>1, <2>2 DEF Artifacts
  <2>4. n \in Artifacts
    BY <1>1, <2>1, <2>3 DEF Artifacts
  <2> QED
    BY <1>3, <2>3, <2>4, NoRecordAssumption DEF VersionOf
<1> QED
  BY <1>2, <1>3

\* A compensation takes its key away, and marks the record when it was the last.
LEMMA ReferenceTaken ==
    ASSUME NEW b \in Builds, NEW a \in Artifacts
    PROVE  LET n == Released(b, a)
           IN  /\ n \in Artifacts /\ n.ver = a.ver + 1 /\ n # Null
               /\ n.refs = a.refs \ {KeyOf[b]} /\ n.created_by = a.created_by
               /\ n.deleted = (a.deleted \/ Orphaned(b, a))
<1> DEFINE n == Released(b, a)
<1>1. n = [a EXCEPT !.refs = a.refs \ {KeyOf[b]}, !.ver = a.ver + 1,
                    !.deleted = a.deleted \/ Orphaned(b, a)]
  BY DEF Released
<1>2. Orphaned(b, a) \in BOOLEAN
  BY DEF Orphaned
<1> HIDE DEF n
<1>3. /\ n.refs = a.refs \ {KeyOf[b]} /\ n.ver = a.ver + 1
      /\ n.created_by = a.created_by
      /\ n.deleted = (a.deleted \/ Orphaned(b, a))
      /\ n = [refs |-> n.refs, created_by |-> n.created_by,
              deleted |-> n.deleted, ver |-> n.ver]
  BY <1>1 DEF Artifacts
<1>4. n \in Artifacts
  BY <1>2, <1>3 DEF Artifacts
<1> QED
  BY <1>3, <1>4, NoRecordAssumption DEF n

-----------------------------------------------------------------------------
(* Type correctness *)

\* What a build is, and what a failed attempt of a compare-and-set leaves of it.
LEMMA AttemptTyped ==
    ASSUME TypeOK, NEW b \in Builds
    PROVE  /\ att[b] \in Attempts /\ pc[b] \in Places
           /\ \A p \in Phases :
                 /\ [att[b] EXCEPT !.phase = p] \in Attempts
                 /\ \A f \in BOOLEAN :
                       /\ [att[b] EXCEPT !.phase = p, !.failed = f] \in Attempts
                       /\ [att[b] EXCEPT !.failed = f, !.phase = p] \in Attempts
                       /\ [att[b] EXCEPT !.phase = p, !.success = TRUE, !.failed = f] \in Attempts
                       /\ [att[b] EXCEPT !.owned = f, !.phase = p] \in Attempts
           /\ \A f \in BOOLEAN :
                 /\ [att[b] EXCEPT !.failed = f] \in Attempts
                 /\ [att[b] EXCEPT !.fresh = f] \in Attempts
                 /\ [att[b] EXCEPT !.ok = f, !.path = TRUE] \in Attempts
                 /\ [att[b] EXCEPT !.cur = Null, !.orphaned = f] \in Attempts
           /\ \A a \in Artifacts \cup {Null} : [att[b] EXCEPT !.cur = a] \in Attempts
           /\ [att[b] EXCEPT !.cur = Null, !.tries = 0] \in Attempts
<1>1. att[b] \in Attempts /\ pc[b] \in Places
  BY DEF TypeOK
<1>2. 0 \in 0..(MaxTries - 1)
  BY BuildAssumption
<1>3. /\ \A p \in Phases : [att[b] EXCEPT !.phase = p] \in Attempts
      /\ \A f \in BOOLEAN : [att[b] EXCEPT !.failed = f] \in Attempts
  BY <1>1 DEF Attempts
<1>4. \A p \in Phases, f \in BOOLEAN :
         /\ [att[b] EXCEPT !.phase = p, !.failed = f] \in Attempts
         /\ [att[b] EXCEPT !.failed = f, !.phase = p] \in Attempts
  BY <1>1 DEF Attempts
<1>5. \A p \in Phases, f \in BOOLEAN :
         [att[b] EXCEPT !.phase = p, !.success = TRUE, !.failed = f] \in Attempts
  BY <1>1 DEF Attempts
<1>6. \A p \in Phases, o \in BOOLEAN :
         [att[b] EXCEPT !.owned = o, !.phase = p] \in Attempts
  BY <1>1 DEF Attempts
<1>7. \A f \in BOOLEAN :
         /\ [att[b] EXCEPT !.fresh = f] \in Attempts
         /\ [att[b] EXCEPT !.ok = f, !.path = TRUE] \in Attempts
         /\ [att[b] EXCEPT !.cur = Null, !.orphaned = f] \in Attempts
  BY <1>1 DEF Attempts
<1>8. \A a \in Artifacts \cup {Null} : [att[b] EXCEPT !.cur = a] \in Attempts
  BY <1>1 DEF Attempts
<1>9. [att[b] EXCEPT !.cur = Null, !.tries = 0] \in Attempts
  BY <1>1, <1>2 DEF Attempts
<1> QED
  BY <1>1, <1>3, <1>4, <1>5, <1>6, <1>7, <1>8, <1>9

\* A failed compare-and-set forgets what it read, counts its attempt, and raises
\* after the last one.
LEMMA AttemptAgain ==
    ASSUME TypeOK, NEW b \in Builds, NEW again \in Places, NEW raised \in Places,
           TryAgain(b, again, raised)
    PROVE  /\ Alone(b) /\ att'[b].cur = Null
           /\ \/ pc'[b] = again /\ att'[b].failed = att[b].failed
              \/ pc'[b] = raised /\ att'[b].failed
           /\ att'[b].phase = att[b].phase /\ att'[b].success = att[b].success
           /\ att'[b].owned = att[b].owned /\ att'[b].ok = att[b].ok
           /\ att'[b].path = att[b].path /\ att'[b].fresh = att[b].fresh
           /\ att'[b].orphaned = att[b].orphaned
<1> DEFINE last == att[b].tries + 1 = MaxTries
           k == IF last THEN 0 ELSE att[b].tries + 1
           g == att[b].failed \/ last
           s == [att[b] EXCEPT !.cur = Null, !.tries = k, !.failed = g]
<1>1. att[b] \in Attempts
  BY DEF TypeOK
<1>2. k \in 0..(MaxTries - 1) /\ g \in BOOLEAN
  BY <1>1, BuildAssumption DEF Attempts
<1>3. att' = [att EXCEPT ![b] = s] /\ pc' = [pc EXCEPT ![b] = IF last THEN raised ELSE again]
  BY DEF TryAgain, Exhausted, Goto
<1>4. (last => g) /\ (~last => g = att[b].failed)
  BY <1>1 DEF Attempts
<1> HIDE DEF last, k, g
<1>5. /\ s \in Attempts /\ s.cur = Null /\ s.failed = g
      /\ s.phase = att[b].phase /\ s.success = att[b].success /\ s.owned = att[b].owned
      /\ s.ok = att[b].ok /\ s.path = att[b].path /\ s.fresh = att[b].fresh
      /\ s.orphaned = att[b].orphaned
  <2>1. s = [att[b] EXCEPT !.cur = Null, !.tries = k, !.failed = g]
    BY DEF s
  <2> HIDE DEF s
  <2> QED
    BY <1>1, <1>2, <2>1 DEF Attempts
<1> HIDE DEF s
<1>6. Alone(b) /\ att'[b] = s /\ pc'[b] = IF last THEN raised ELSE again
  BY <1>3, <1>5 DEF Alone, TypeOK
<1> QED
  BY <1>4, <1>5, <1>6

\* A claim leaves the record of its key as it was, or a new one of the claimer's.
LEMMA ClaimLeaves ==
    ASSUME TypeOK, NEW b \in Builds
    PROVE  LET r == rec[ScopeOf(b)]
               n == AfterClaim(r, Request(b), 0)
           IN  IF ClaimStatus(r, Request(b), 0) = "CLAIMED"
               THEN /\ n = FreshRecord(Request(b), 0) /\ n \in ClaimRecords
                    /\ n.owner = b /\ n.state = "IN_PROGRESS" /\ n.expires_at = 0
                    /\ r = Null \/ r.state = "FAILED_RETRYABLE" \/ r.expires_at # 0
               ELSE n = r
<1> DEFINE r == rec[ScopeOf(b)]
<1>1. ClaimStatus(r, Request(b), 0) = "CLAIMED" => Vacant(r, 0)
  BY DEF ClaimStatus, Request
<1>2. /\ FreshRecord(Request(b), 0) \in ClaimRecords
      /\ FreshRecord(Request(b), 0).owner = b
      /\ FreshRecord(Request(b), 0).state = "IN_PROGRESS"
      /\ FreshRecord(Request(b), 0).expires_at = 0
  BY BuildAssumption DEF FreshRecord, Request, ClaimRecords, ClaimStates
<1> QED
  BY <1>1, <1>2 DEF AfterClaim, Vacant, Forgotten

\* A settlement changes the record of a build that holds it, and only that.
LEMMA SettlementLeaves ==
    ASSUME TypeOK, NEW b \in Builds
    PROVE  LET r == rec[ScopeOf(b)]
               n == Settled(b)
           IN  IF att[b].owned /\ OwnedBy(r, b)
               THEN /\ n \in ClaimRecords /\ n.owner = r.owner /\ n.expires_at = r.expires_at
                    /\ n.state = IF att[b].success THEN "SUCCEEDED" ELSE "FAILED_RETRYABLE"
               ELSE n = r
<1> DEFINE r == rec[ScopeOf(b)]
<1>1. ScopeOf(b) \in Scopes
  BY BuildAssumption DEF Scopes, ScopeOf
<1>2. r \in ClaimRecords \cup {Null}
  BY <1>1 DEF TypeOK
<1>3. CASE ~(att[b].owned /\ OwnedBy(r, b))
  BY <1>3 DEF Settled, AfterComplete, AfterFail
<1>4. CASE att[b].owned /\ OwnedBy(r, b) /\ att[b].success
  <2>1. Settled(b) = [r EXCEPT !.state = "SUCCEEDED", !.result = "E2A_VERIFIED"]
    BY <1>4 DEF Settled, AfterComplete
  <2>2. r \in ClaimRecords
    BY <1>2, <1>4 DEF OwnedBy
  <2> QED
    BY <1>4, <2>1, <2>2 DEF ClaimRecords, ClaimStates
<1>5. CASE att[b].owned /\ OwnedBy(r, b) /\ ~att[b].success
  <2>1. Settled(b) = [r EXCEPT !.state = "FAILED_RETRYABLE"]
    BY <1>5 DEF Settled, AfterFail, FailureState
  <2>2. r \in ClaimRecords
    BY <1>2, <1>5 DEF OwnedBy
  <2> QED
    BY <1>5, <2>1, <2>2 DEF ClaimRecords, ClaimStates
<1> QED
  BY <1>3, <1>4, <1>5

\* Each step moves one build, and its record keeps its type.
LEMMA PlainAlone ==
    ASSUME TypeOK, NEW b \in Builds, PlainStep(b)
    PROVE  Alone(b) /\ UNCHANGED <<rec, slots, tenantSlots, scaffold, file>> /\ art' = art
<1> USE DEF Alone, FailAt, Goto
<1>0. /\ att \in [Builds -> Attempts] /\ pc \in [Builds -> Places]
      /\ art \in Artifacts \cup {Null}
  BY DEF TypeOK
<1>1. CASE FailBeforeClaim(b) \/ PhaseCFails(b) \/ CompensationRaises(b)
  <2>1. att' \in {att, [att EXCEPT ![b] = [att[b] EXCEPT !.failed = TRUE]]}
    BY <1>1 DEF FailBeforeClaim, PhaseCFails, CompensationRaises
  <2>2. [att[b] EXCEPT !.failed = TRUE] \in Attempts
    BY AttemptTyped
  <2> QED
    BY <1>0, <1>1, <2>1, <2>2 DEF FailBeforeClaim, PhaseCFails, CompensationRaises, Places
<1>2. CASE ReadToRegister(b) \/ ReadToUnref(b)
  <2>1. att' \in {att, [att EXCEPT ![b] = [att[b] EXCEPT !.cur = art]]}
    BY <1>2 DEF ReadToRegister, ReadToUnref
  <2>2. [att[b] EXCEPT !.cur = art] \in Attempts
    BY <1>0, AttemptTyped
  <2> QED
    BY <1>0, <1>2, <2>1, <2>2 DEF ReadToRegister, ReadToUnref, Places
<1>4. CASE StartGenerate(b)
  <2>1. att' = [att EXCEPT ![b] = [att[b] EXCEPT !.fresh = ~file]] /\ (~file) \in BOOLEAN
    BY <1>4 DEF StartGenerate
  <2>2. [att[b] EXCEPT !.fresh = ~file] \in Attempts
    BY <2>1, AttemptTyped
  <2> QED
    BY <1>0, <1>4, <2>1, <2>2 DEF StartGenerate, Places
<1>3. CASE FinishA(b) \/ AFailed(b) \/ PersistAFails(b) \/ PhaseB(b) \/ PhaseBRaises(b) \/ PhaseC(b)
  <2>1. PICK s \in Attempts : att' = [att EXCEPT ![b] = s]
    <3>1. CASE FinishA(b) \/ PhaseB(b) \/ AFailed(b) \/ PersistAFails(b)
      BY <1>0, <3>1, AttemptTyped DEF FinishA, PhaseB, AFailed, PersistAFails, Phases
    <3>2. CASE PhaseBRaises(b)
      <4>1. PICK p \in {att[b].phase, "A2C_DONE"} :
               att' = [att EXCEPT ![b] = [att[b] EXCEPT !.phase = p, !.failed = TRUE]]
        BY <3>2 DEF PhaseBRaises
      <4>2. p \in Phases
        BY <1>0 DEF Attempts, Phases
      <4> QED
        BY <4>1, <4>2, AttemptTyped
    <3>3. CASE PhaseC(b)
      <4>1. PICK f \in BOOLEAN :
               att' = [att EXCEPT ![b] = [att[b] EXCEPT !.phase = "E2A_VERIFIED",
                                                        !.success = TRUE, !.failed = f]]
        BY <3>3 DEF PhaseC
      <4> QED
        BY <4>1, AttemptTyped DEF Phases
    <3> QED
      BY <1>3, <3>1, <3>2, <3>3
  <2>2. PICK p \in Places : pc' = [pc EXCEPT ![b] = p]
    BY <1>3 DEF FinishA, AFailed, PersistAFails, PhaseB, PhaseBRaises, PhaseC, Places
  <2>3. UNCHANGED <<rec, slots, tenantSlots, scaffold, file, art>>
    BY <1>3 DEF FinishA, AFailed, PersistAFails, PhaseB, PhaseBRaises, PhaseC
  <2> QED
    BY <1>0, <2>1, <2>2, <2>3
<1> QED
  BY <1>1, <1>2, <1>3, <1>4 DEF PlainStep

\* So does a step that takes or gives back permits,
LEMMA SlotAlone ==
    ASSUME TypeOK, NEW b \in Builds, SlotStep(b)
    PROVE  Alone(b) /\ UNCHANGED <<rec, scaffold, file>> /\ art' = art
<1>0. att \in [Builds -> Attempts] /\ pc \in [Builds -> Places]
  BY DEF TypeOK
<1>1. att' \in {att, [att EXCEPT ![b] = [att[b] EXCEPT !.phase = "REJECTED_OVERLOAD"]]}
  BY DEF SlotStep, TakeTenantSlot, TakeSlot, AdmissionTimeout, Leave
<1>2. [att[b] EXCEPT !.phase = "REJECTED_OVERLOAD"] \in Attempts
  BY AttemptTyped DEF Phases
<1>3. PICK p \in Places : pc' = [pc EXCEPT ![b] = p]
  BY DEF SlotStep, TakeTenantSlot, TakeSlot, AdmissionTimeout, Leave, Goto, Places
<1> QED
  BY <1>0, <1>1, <1>2, <1>3 DEF Alone, SlotStep, TakeTenantSlot, TakeSlot, AdmissionTimeout, Leave

\* and one that writes or deletes files.
LEMMA FileAlone ==
    ASSUME TypeOK, NEW b \in Builds, FileStep(b)
    PROVE  /\ Alone(b) /\ UNCHANGED <<rec, slots, tenantSlots>> /\ art' = art
           /\ scaffold' \subseteq Keys /\ file' \in BOOLEAN
<1>0. /\ att \in [Builds -> Attempts] /\ pc \in [Builds -> Places]
      /\ scaffold \subseteq Keys /\ file \in BOOLEAN /\ KeyOf[b] \in Keys
  BY BuildAssumption DEF TypeOK
<1>1. PICK s \in Attempts : att' = [att EXCEPT ![b] = s]
  <2>1. CASE \E ok \in BOOLEAN : Generate(b, ok)
    <3>1. PICK ok \in BOOLEAN :
             att' = [att EXCEPT ![b] = [att[b] EXCEPT !.ok = ok, !.path = TRUE]]
      BY <2>1 DEF Generate
    <3> QED
      BY <3>1, AttemptTyped
  <2>2. CASE GenerateRaises(b) \/ GenerateOverloaded(b)
    BY <2>2, AttemptTyped DEF GenerateRaises, GenerateOverloaded, FailAt, Phases
  <2>3. CASE Compensate(b) \/ DeleteObject(b)
    BY <1>0, <2>3 DEF Compensate, DeleteObject
  <2> QED
    BY <2>1, <2>2, <2>3 DEF FileStep
<1>2. PICK p \in Places : pc' = [pc EXCEPT ![b] = p]
  BY DEF FileStep, Generate, GenerateRaises, GenerateOverloaded, Compensate, DeleteObject,
     FailAt, Goto, Places
<1>3. /\ UNCHANGED <<rec, slots, tenantSlots, art>>
      /\ scaffold' \in {scaffold, scaffold \cup {KeyOf[b]}, scaffold \ {KeyOf[b]}}
      /\ file' \in BOOLEAN
  BY <1>0 DEF FileStep, Generate, GenerateRaises, GenerateOverloaded, Compensate, DeleteObject
<1> QED
  BY <1>0, <1>1, <1>2, <1>3 DEF Alone

\* A compare-and-set writes over the record it read, or tries again.
LEMMA RegisterAlone ==
    ASSUME TypeOK, NEW b \in Builds, Register(b)
    PROVE  /\ Alone(b) /\ UNCHANGED <<rec, slots, tenantSlots, scaffold, file>>
           /\ pc[b] = "registerCas" /\ att'[b].cur = Null
           /\ att'[b].phase = att[b].phase /\ att'[b].success = att[b].success
           /\ att'[b].owned = att[b].owned /\ att'[b].path = att[b].path
           /\ att'[b].fresh = att[b].fresh /\ att'[b].orphaned = att[b].orphaned
           /\ \/ /\ UnchangedSince(b) /\ pc'[b] = "attempted"
                 /\ att'[b].failed = att[b].failed /\ art' = WithReference(b, att[b].cur)
              \/ /\ art' = art
                 /\ \/ pc'[b] = "register" /\ att'[b].failed = att[b].failed
                    \/ pc'[b] = "leave" /\ att'[b].failed
<1>0. att \in [Builds -> Attempts] /\ pc \in [Builds -> Places] /\ att[b] \in Attempts
  BY DEF TypeOK
<1>1. pc[b] = "registerCas" /\ UNCHANGED <<rec, slots, tenantSlots, scaffold, file>>
  BY DEF Register
<1>2. CASE UnchangedSince(b)
  <2>1. /\ att' = [att EXCEPT ![b] = [att[b] EXCEPT !.cur = Null, !.tries = 0]]
        /\ pc' = [pc EXCEPT ![b] = "attempted"] /\ art' = WithReference(b, att[b].cur)
    BY <1>2 DEF Register, Goto
  <2> DEFINE s == [att[b] EXCEPT !.cur = Null, !.tries = 0]
  <2>2. s \in Attempts
    BY AttemptTyped
  <2>3. /\ s.cur = Null /\ s.phase = att[b].phase /\ s.success = att[b].success
        /\ s.owned = att[b].owned /\ s.path = att[b].path /\ s.fresh = att[b].fresh
        /\ s.failed = att[b].failed /\ s.orphaned = att[b].orphaned
    BY <1>0 DEF Attempts
  <2>4. att' = [att EXCEPT ![b] = s]
    BY <2>1
  <2> HIDE DEF s
  <2> QED
    BY <1>0, <1>1, <1>2, <2>1, <2>2, <2>3, <2>4 DEF Alone, Places
<1>3. CASE ~UnchangedSince(b)
  <2>1. TryAgain(b, "register", "leave") /\ art' = art
    BY <1>3 DEF Register
  <2> QED
    BY <1>1, <2>1, AttemptAgain DEF Places
<1> QED
  BY <1>2, <1>3

\* So does a compensation's.
LEMMA UnrefAlone ==
    ASSUME TypeOK, NEW b \in Builds, Unref(b)
    PROVE  /\ Alone(b) /\ UNCHANGED <<rec, slots, tenantSlots, scaffold, file>>
           /\ pc[b] = "unrefCas" /\ att'[b].cur = Null
           /\ att'[b].phase = att[b].phase /\ att'[b].success = att[b].success
           /\ att'[b].owned = att[b].owned /\ att'[b].path = att[b].path
           /\ att'[b].fresh = att[b].fresh
           /\ \/ /\ UnchangedSince(b) /\ art' = Released(b, att[b].cur)
                 /\ pc'[b] = IF Orphaned(b, att[b].cur) THEN "delete" ELSE "settle"
                 /\ att'[b].failed = att[b].failed /\ att'[b].orphaned = Orphaned(b, att[b].cur)
              \/ /\ art' = art /\ att'[b].orphaned = att[b].orphaned
                 /\ \/ pc'[b] = "unref" /\ att'[b].failed = att[b].failed
                    \/ pc'[b] = "dead" /\ att'[b].failed
<1>0. att \in [Builds -> Attempts] /\ pc \in [Builds -> Places] /\ att[b] \in Attempts
  BY DEF TypeOK
<1>1. pc[b] = "unrefCas" /\ UNCHANGED <<rec, slots, tenantSlots, scaffold, file>>
  BY DEF Unref
<1>2. CASE UnchangedSince(b)
  <2> DEFINE o == Orphaned(b, att[b].cur)
             s == [att[b] EXCEPT !.cur = Null, !.orphaned = o]
  <2>1. /\ att' = [att EXCEPT ![b] = s] /\ art' = Released(b, att[b].cur)
        /\ pc' = [pc EXCEPT ![b] = IF Orphaned(b, att[b].cur) THEN "delete" ELSE "settle"]
    BY <1>2 DEF Unref, Goto, Released
  <2>a. o \in BOOLEAN
    BY DEF Orphaned
  <2> HIDE DEF o
  <2>2. s \in Attempts
    BY <2>a, AttemptTyped
  <2>3. /\ s.cur = Null /\ s.phase = att[b].phase /\ s.success = att[b].success
        /\ s.owned = att[b].owned /\ s.path = att[b].path /\ s.fresh = att[b].fresh
        /\ s.failed = att[b].failed /\ s.orphaned = o
    BY <1>0 DEF Attempts
  <2> HIDE DEF s
  <2> QED
    BY <1>0, <1>1, <1>2, <2>1, <2>2, <2>3 DEF Alone, Places, o
<1>3. CASE ~UnchangedSince(b)
  <2>1. TryAgain(b, "unref", "dead") /\ art' = art
    BY <1>3 DEF Unref
  <2> QED
    BY <1>1, <2>1, AttemptAgain DEF Places
<1> QED
  BY <1>2, <1>3

\* A build claims its key or is turned away.
LEMMA ClaimAlone ==
    ASSUME TypeOK, NEW b \in Builds, Claim(b)
    PROVE  /\ Alone(b) /\ UNCHANGED <<slots, tenantSlots, scaffold, file>> /\ art' = art
           /\ pc[b] = "new"
           /\ rec' = [rec EXCEPT ![ScopeOf(b)] = AfterClaim(rec[ScopeOf(b)], Request(b), 0)]
           /\ att'[b].success = att[b].success /\ att'[b].path = att[b].path
           /\ att'[b].failed = att[b].failed /\ att'[b].cur = att[b].cur
           /\ IF ClaimStatus(rec[ScopeOf(b)], Request(b), 0) = "CLAIMED"
              THEN pc'[b] = "tenant" /\ att'[b].owned /\ att'[b].phase = att[b].phase
              ELSE pc'[b] = "done" /\ ~att'[b].owned /\ att'[b].phase = "SKIPPED"
<1> DEFINE claimed == ClaimStatus(rec[ScopeOf(b)], Request(b), 0) = "CLAIMED"
           p == IF claimed THEN att[b].phase ELSE "SKIPPED"
           s == [att[b] EXCEPT !.owned = claimed, !.phase = p]
<1>0. att \in [Builds -> Attempts] /\ pc \in [Builds -> Places] /\ att[b] \in Attempts
  BY DEF TypeOK
<1>1. /\ pc[b] = "new" /\ UNCHANGED <<slots, tenantSlots, scaffold, file, art>>
      /\ rec' = [rec EXCEPT ![ScopeOf(b)] = AfterClaim(rec[ScopeOf(b)], Request(b), 0)]
      /\ att' = [att EXCEPT ![b] = s]
      /\ pc' = [pc EXCEPT ![b] = IF claimed THEN "tenant" ELSE "done"]
  BY DEF Claim, Goto
<1>2. claimed \in BOOLEAN /\ p \in Phases
  BY <1>0 DEF Attempts, Phases
<1>3. s \in Attempts
  <2> HIDE DEF claimed, p
  <2> QED
    BY <1>2, AttemptTyped
<1>4. /\ s.owned = claimed /\ s.phase = p /\ s.success = att[b].success
      /\ s.path = att[b].path /\ s.failed = att[b].failed /\ s.cur = att[b].cur
  <2> HIDE DEF claimed, p
  <2> QED
    BY <1>0 DEF Attempts
<1> HIDE DEF s
<1> QED
  BY <1>0, <1>1, <1>3, <1>4 DEF Alone, Places

\* A build settles what it claimed and ends.
LEMMA SettleAlone ==
    ASSUME TypeOK, NEW b \in Builds, Settle(b)
    PROVE  /\ Alone(b) /\ UNCHANGED <<slots, tenantSlots, scaffold, file>> /\ art' = art
           /\ pc[b] = "settle" /\ pc'[b] = "done" /\ att' = att
           /\ rec' = [rec EXCEPT ![ScopeOf(b)] = Settled(b)]
  BY DEF Settle, AfterSettlement, Goto, Alone, TypeOK, Places

\* Every step of a build moves it alone.
LEMMA StepAlone ==
    ASSUME TypeOK, NEW b \in Builds, Step(b)
    PROVE  Alone(b)
  BY StepKinds, PlainAlone, SlotAlone, FileAlone, RegisterAlone, UnrefAlone, ClaimAlone,
     SettleAlone

-----------------------------------------------------------------------------
(* Permits *)

Held == {"phaseA", "generate", "register", "registerCas", "attempted", "phaseB", "phaseC", "leave"}

Running == {b \in Builds : HoldsSlot(b)}

Using(t) == {b \in Builds : TenantOf[b] = t /\ (HoldsSlot(b) \/ pc[b] = "instance")}

\* The permits taken are counted by the builds that hold them.
LEMMA Counted ==
    /\ IsFiniteSet(Running) /\ Cardinality(Running) \in Nat
    /\ \A t \in Tenants : IsFiniteSet(Using(t)) /\ Cardinality(Using(t)) \in Nat
    /\ PermitsConserved <=>
          /\ slots + Cardinality(Running) = BuildSlots
          /\ \A t \in Tenants : tenantSlots[t] + Cardinality(Using(t)) = TenantSlots
<1>1. IsFiniteSet(Running)
  BY BuildAssumption, FS_Subset DEF Running
<1>2. \A t \in Tenants : IsFiniteSet(Using(t))
  BY BuildAssumption, FS_Subset DEF Using
<1>3. /\ Cardinality(Running) \in Nat
      /\ \A t \in Tenants : Cardinality(Using(t)) \in Nat
  BY <1>1, <1>2, FS_CardinalityType
<1> QED
  BY <1>1, <1>2, <1>3 DEF PermitsConserved, Running, Using

\* A build that goes to a place where it holds an instance's permit is counted
\* with those that run,
LEMMA RunningChanges ==
    ASSUME NEW b \in Builds, Alone(b)
    PROVE  Cardinality(Running') =
              IF pc'[b] \in Held
              THEN IF b \in Running THEN Cardinality(Running) ELSE Cardinality(Running) + 1
              ELSE IF b \in Running THEN Cardinality(Running) - 1 ELSE Cardinality(Running)
<1>1. Running' = IF pc'[b] \in Held THEN Running \cup {b} ELSE Running \ {b}
  BY DEF Alone, Running, HoldsSlot, Held
<1> QED
  BY <1>1, Counted, FS_AddElement, FS_RemoveElement

\* and to one where it holds its tenant's, with those of its tenant.
LEMMA UsingChanges ==
    ASSUME NEW b \in Builds, Alone(b)
    PROVE  /\ \A t \in Tenants \ {TenantOf[b]} : Using(t)' = Using(t)
           /\ LET t == TenantOf[b]
                  n == Cardinality(Using(t))
              IN  Cardinality(Using(t)') =
                     IF pc'[b] \in Held \cup {"instance"}
                     THEN IF b \in Using(t) THEN n ELSE n + 1
                     ELSE IF b \in Using(t) THEN n - 1 ELSE n
<1> DEFINE t == TenantOf[b]
<1>1. t \in Tenants
  BY BuildAssumption
<1>2. \A u \in Tenants \ {t} : Using(u)' = Using(u)
  BY DEF Alone, Using, HoldsSlot
<1>3. Using(t)' = IF pc'[b] \in Held \cup {"instance"} THEN Using(t) \cup {b}
                  ELSE Using(t) \ {b}
  BY DEF Alone, Using, HoldsSlot, Held
<1>4. IsFiniteSet(Using(t))
  BY <1>1, Counted
<1>5. LET n == Cardinality(Using(t))
      IN  /\ Cardinality(Using(t) \cup {b}) = IF b \in Using(t) THEN n ELSE n + 1
          /\ Cardinality(Using(t) \ {b}) = IF b \in Using(t) THEN n - 1 ELSE n
  BY <1>4, FS_AddElement, FS_RemoveElement
<1> QED
  BY <1>2, <1>3, <1>5

\* Where a build holds what, before and after a step that leaves the permits.
LEMMA HoldsAsBefore ==
    ASSUME TypeOK, NEW b \in Builds, Step(b), ~SlotStep(b)
    PROVE  /\ pc'[b] \in Held <=> pc[b] \in Held
           /\ pc'[b] # "instance" /\ pc[b] # "instance"
           /\ UNCHANGED <<slots, tenantSlots>>
<1> USE DEF Held
<1>0. pc \in [Builds -> Places]
  BY DEF TypeOK
<1>1. CASE PlainStep(b)
  BY <1>0, <1>1, PlainAlone DEF PlainStep, FailBeforeClaim, StartGenerate, ReadToRegister, FinishA, AFailed,
     PersistAFails, PhaseB, PhaseBRaises, PhaseC, PhaseCFails, ReadToUnref,
     CompensationRaises, FailAt, Goto
<1>2. CASE FileStep(b)
  BY <1>0, <1>2, FileAlone DEF FileStep, Generate, GenerateRaises, GenerateOverloaded,
     Compensate, DeleteObject, FailAt, Goto
<1>3. CASE Register(b)
  BY <1>3, RegisterAlone
<1>4. CASE Unref(b)
  BY <1>4, UnrefAlone
<1>5. CASE Claim(b)
  BY <1>5, ClaimAlone
<1>6. CASE Settle(b)
  BY <1>6, SettleAlone
<1> QED
  BY <1>1, <1>2, <1>3, <1>4, <1>5, <1>6, StepKinds

\* Permits stay conserved, and within their bounds.
LEMMA PermitsStep ==
    ASSUME TypeOK, PermitsConserved, NEW b \in Builds, Step(b)
    PROVE  /\ PermitsConserved'
           /\ slots' \in 0..BuildSlots
           /\ tenantSlots' \in [Tenants -> 0..TenantSlots]
<1> DEFINE t == TenantOf[b]
           Balanced(n) == /\ tenantSlots' = [tenantSlots EXCEPT ![t] = n]
                          /\ n + Cardinality(Using(t)') = TenantSlots
<1>0. /\ t \in Tenants /\ slots \in 0..BuildSlots
      /\ tenantSlots \in [Tenants -> 0..TenantSlots]
      /\ BuildSlots \in Nat /\ TenantSlots \in Nat /\ pc \in [Builds -> Places]
  BY BuildAssumption DEF TypeOK
<1>a. Alone(b)
  BY StepAlone
<1>1. /\ slots + Cardinality(Running) = BuildSlots
      /\ \A u \in Tenants : tenantSlots[u] + Cardinality(Using(u)) = TenantSlots
  BY Counted
<1>2. /\ Cardinality(Running) \in Nat
      /\ \A u \in Tenants : Cardinality(Using(u)) \in Nat
  BY Counted
<1>3. Cardinality(Running') \in Nat /\ Cardinality(Using(t)') \in Nat
  <2>1. Running' \in SUBSET Builds /\ Using(t)' \in SUBSET Builds
    BY DEF Running, Using
  <2> QED
    BY <2>1, BuildAssumption, FS_Subset, FS_CardinalityType
<1>4. SUFFICES /\ slots' \in Nat /\ slots' + Cardinality(Running') = BuildSlots
               /\ \E n \in Nat : Balanced(n)
  <2>1. PICK n \in Nat : Balanced(n)
    BY <1>4
  <2>2. slots' \in 0..BuildSlots
    BY <1>0, <1>3, <1>4
  <2>3. n \in 0..TenantSlots
    BY <1>0, <1>3, <2>1
  <2>4. \A u \in Tenants : tenantSlots'[u] + Cardinality(Using(u)') = TenantSlots
    BY <1>0, <1>1, <2>1, <1>a, UsingChanges
  <2>5. PermitsConserved'
    BY <1>4, <2>4 DEF PermitsConserved, Running, Using
  <2> QED
    BY <1>0, <2>1, <2>2, <2>3, <2>5
<1>b. tenantSlots[t] + Cardinality(Using(t)) = TenantSlots /\ tenantSlots[t] \in Nat
  BY <1>0, <1>1
<1>5. CASE ~SlotStep(b)
  <2>1. /\ pc'[b] \in Held <=> b \in Running
        /\ pc'[b] \in Held \cup {"instance"} <=> b \in Using(t)
        /\ UNCHANGED <<slots, tenantSlots>>
    BY <1>5, HoldsAsBefore DEF Running, Using, HoldsSlot, Held
  <2>2. /\ Cardinality(Running') = Cardinality(Running)
        /\ Cardinality(Using(t)') = Cardinality(Using(t))
    BY <1>a, <2>1, RunningChanges, UsingChanges
  <2>3. tenantSlots' = [tenantSlots EXCEPT ![t] = tenantSlots[t]] /\ tenantSlots[t] \in Nat
    BY <1>0, <2>1
  <2> QED
    BY <1>0, <1>1, <2>1, <2>2, <2>3
<1>6. CASE TakeTenantSlot(b)
  <2>1. /\ tenantSlots' = [tenantSlots EXCEPT ![t] = tenantSlots[t] - 1] /\ slots' = slots
        /\ tenantSlots[t] > 0 /\ pc'[b] = "instance" /\ pc[b] = "tenant"
    BY <1>0, <1>6 DEF TakeTenantSlot, Goto
  <2>2. /\ Cardinality(Running') = Cardinality(Running)
        /\ Cardinality(Using(t)') = Cardinality(Using(t)) + 1
    BY <1>a, <2>1, RunningChanges, UsingChanges DEF Running, Using, HoldsSlot, Held
  <2>3. tenantSlots[t] - 1 \in Nat
    BY <1>b, <2>1
  <2>4. Balanced(tenantSlots[t] - 1)
    BY <1>0, <1>2, <1>3, <1>b, <2>1, <2>2
  <2> HIDE DEF Balanced
  <2> QED
    BY <1>0, <1>1, <2>1, <2>2, <2>3, <2>4
<1>7. CASE TakeSlot(b)
  <2>1. /\ tenantSlots' = tenantSlots /\ slots' = slots - 1
        /\ slots > 0 /\ pc'[b] = "phaseA" /\ pc[b] = "instance"
    BY <1>0, <1>7 DEF TakeSlot, Goto
  <2>2. /\ Cardinality(Running') = Cardinality(Running) + 1
        /\ Cardinality(Using(t)') = Cardinality(Using(t))
    BY <1>a, <2>1, RunningChanges, UsingChanges DEF Running, Using, HoldsSlot, Held
  <2>3. tenantSlots' = [tenantSlots EXCEPT ![t] = tenantSlots[t]] /\ tenantSlots[t] \in Nat
    BY <1>0, <2>1
  <2> QED
    BY <1>0, <1>1, <1>2, <2>1, <2>2, <2>3
<1>8. CASE AdmissionTimeout(b)
  <2>1. slots' = slots /\ pc'[b] = "settle" /\ pc[b] \in {"tenant", "instance"}
    BY <1>0, <1>8 DEF AdmissionTimeout, Goto
  <2>2. Cardinality(Running') = Cardinality(Running)
    BY <1>a, <2>1, RunningChanges DEF Running, HoldsSlot, Held
  <2>3. CASE pc[b] = "tenant"
    <3>1. tenantSlots' = [tenantSlots EXCEPT ![t] = tenantSlots[t]] /\ tenantSlots[t] \in Nat
      BY <1>0, <1>8, <2>3 DEF AdmissionTimeout
    <3>2. Cardinality(Using(t)') = Cardinality(Using(t))
      BY <1>a, <2>1, <2>3, UsingChanges DEF Using, HoldsSlot, Held
    <3>3. Balanced(tenantSlots[t])
      BY <1>b, <3>1, <3>2
    <3> HIDE DEF Balanced
    <3> QED
      BY <1>0, <1>1, <2>1, <2>2, <3>1, <3>3
  <2>4. CASE pc[b] = "instance"
    <3>1. /\ tenantSlots' = [tenantSlots EXCEPT ![t] = tenantSlots[t] + 1]
          /\ tenantSlots[t] + 1 \in Nat
      BY <1>0, <1>8, <2>4 DEF AdmissionTimeout, TenantSlotsWithout
    <3>2. Cardinality(Using(t)') = Cardinality(Using(t)) - 1
      BY <1>a, <2>1, <2>4, UsingChanges DEF Using, HoldsSlot, Held
    <3>3. Balanced(tenantSlots[t] + 1)
      BY <1>0, <1>2, <1>3, <1>b, <3>1, <3>2
    <3> HIDE DEF Balanced
    <3> QED
      BY <1>0, <1>1, <2>1, <2>2, <3>1, <3>3
  <2> QED
    BY <2>1, <2>3, <2>4
<1>9. CASE Leave(b)
  <2>1. /\ tenantSlots' = [tenantSlots EXCEPT ![t] = tenantSlots[t] + 1] /\ slots' = slots + 1
        /\ pc'[b] \in {"compensate", "settle"} /\ pc[b] = "leave"
        /\ tenantSlots[t] + 1 \in Nat /\ slots + 1 \in Nat
    BY <1>0, <1>9 DEF Leave, Goto, TenantSlotsWithout
  <2>2. /\ Cardinality(Running') = Cardinality(Running) - 1
        /\ Cardinality(Using(t)') = Cardinality(Using(t)) - 1
    BY <1>a, <2>1, RunningChanges, UsingChanges DEF Running, Using, HoldsSlot, Held
  <2>3. Balanced(tenantSlots[t] + 1)
    BY <1>0, <1>2, <1>3, <1>b, <2>1, <2>2
  <2>4. slots + 1 + (Cardinality(Running) - 1) = BuildSlots
    BY <1>0, <1>1, <1>2
  <2> QED
    BY <1>0, <2>1, <2>2, <2>3, <2>4
<1> QED
  BY <1>5, <1>6, <1>7, <1>8, <1>9 DEF SlotStep

\* A death gives everything back.
LEMMA CrashFrees ==
    ASSUME TypeOK, Crash
    PROVE  PermitsConserved' /\ TypeOK'
<1>1. /\ slots' = BuildSlots /\ tenantSlots' = [t \in Tenants |-> TenantSlots]
      /\ \A b \in Builds : pc'[b] \in {"new", "done", "dead"}
  BY DEF Crash
<1>2. Running' = {} /\ \A t \in Tenants : Using(t)' = {}
  BY <1>1 DEF Running, Using, HoldsSlot
<1>3. Cardinality({}) = 0
  BY FS_EmptySet
<1>4. PermitsConserved'
  BY <1>1, <1>2, <1>3, BuildAssumption DEF PermitsConserved, Running, Using
<1>5. TypeOK'
  BY BuildAssumption DEF Crash, TypeOK, Places
<1> QED
  BY <1>4, <1>5

-----------------------------------------------------------------------------
(* What a build's place tells of it *)

\* Where a build may be, given what it has done.
LocalOf(b) ==
    /\ pc[b] = "new" => ~att[b].owned /\ ~att[b].failed
    /\ pc[b] \in {"new", "tenant", "instance", "phaseA", "generate"} => ~att[b].path
    /\ pc[b] \in {"tenant", "instance"} \cup Held \/ att[b].path => att[b].owned
    /\ att[b].success =>
          /\ att[b].phase = "E2A_VERIFIED"
          /\ pc[b] \in {"leave", "compensate", "settle", "done", "dead"}
    /\ pc[b] = "compensate" => att[b].failed
    /\ pc[b] \in {"register", "registerCas"} => att[b].path
    /\ pc[b] \in {"unref", "unrefCas", "delete"} => att[b].path /\ ~att[b].success
    /\ pc[b] = "unrefCas" => att[b].cur # Null

LocalInv == \A b \in Builds : LocalOf(b)

\* The ends of phase A and phase B record a phase, and perhaps a failure.
LEMMA PhasesEnd ==
    ASSUME TypeOK, NEW b \in Builds,
           FinishA(b) \/ AFailed(b) \/ PersistAFails(b) \/ PhaseB(b) \/ PhaseBRaises(b)
    PROVE  /\ pc[b] \in {"attempted", "phaseB"} /\ pc'[b] \in {"phaseB", "phaseC", "leave"}
           /\ \E p \in Phases, f \in {TRUE, att[b].failed} :
                 att' = [att EXCEPT ![b] = [att[b] EXCEPT !.phase = p, !.failed = f]]
<1>0. /\ att \in [Builds -> Attempts] /\ pc \in [Builds -> Places] /\ att[b] \in Attempts
  BY DEF TypeOK
<1> USE DEF Goto, FailAt, Attempts
<1>1. CASE FinishA(b)
  <2>1. att' = [att EXCEPT ![b] = [att[b] EXCEPT !.phase = "G2C_P0_DONE",
                                                 !.failed = att[b].failed]]
    BY <1>0, <1>1 DEF FinishA
  <2> QED
    BY <1>0, <1>1, <2>1 DEF FinishA, Phases
<1>2. CASE AFailed(b)
  BY <1>0, <1>2 DEF AFailed, Phases
<1>3. CASE PersistAFails(b)
  <2>1. \E p \in Phases :
           att' = [att EXCEPT ![b] = [att[b] EXCEPT !.phase = p, !.failed = TRUE]]
    <3>1. CASE att' = [att EXCEPT ![b].failed = TRUE]
      <4>1. att' = [att EXCEPT ![b] = [att[b] EXCEPT !.phase = att[b].phase,
                                                     !.failed = TRUE]]
        BY <1>0, <3>1
      <4> QED
        BY <1>0, <4>1
    <3>2. CASE att' # [att EXCEPT ![b].failed = TRUE]
      <4>1. att' = [att EXCEPT ![b] = [att[b] EXCEPT !.failed = TRUE,
                                                     !.phase = "G2C_P0_DONE"]]
        BY <1>3, <3>2 DEF PersistAFails
      <4>2. att' = [att EXCEPT ![b] = [att[b] EXCEPT !.phase = "G2C_P0_DONE",
                                                     !.failed = TRUE]]
        BY <1>0, <4>1
      <4> QED
        BY <4>2 DEF Phases
    <3> QED
      BY <3>1, <3>2
  <2>2. pc[b] = "attempted" /\ pc' = [pc EXCEPT ![b] = "leave"]
    BY <1>3 DEF PersistAFails
  <2> QED
    BY <1>0, <2>1, <2>2
<1>4. CASE PhaseB(b)
  <2>1. \/ att' = [att EXCEPT ![b] = [att[b] EXCEPT !.phase = "A2C_DONE",
                                                    !.failed = att[b].failed]]
        \/ att' = [att EXCEPT ![b] = [att[b] EXCEPT !.phase = "FAILED_A2C",
                                                    !.failed = TRUE]]
    BY <1>0, <1>4 DEF PhaseB
  <2>2. pc[b] = "phaseB" /\ pc'[b] \in {"phaseC", "leave"}
    BY <1>0, <1>4 DEF PhaseB
  <2> QED
    BY <1>0, <2>1, <2>2 DEF Phases
<1>5. CASE PhaseBRaises(b)
  <2>1. PICK p \in {att[b].phase, "A2C_DONE"} :
           att' = [att EXCEPT ![b] = [att[b] EXCEPT !.phase = p, !.failed = TRUE]]
    BY <1>5 DEF PhaseBRaises
  <2>2. p \in Phases
    BY <1>0 DEF Phases
  <2>3. pc[b] = "phaseB" /\ pc'[b] = "leave"
    BY <1>0, <1>5 DEF PhaseBRaises
  <2> QED
    BY <2>1, <2>2, <2>3
<1> QED
  BY <1>1, <1>2, <1>3, <1>4, <1>5

\* What a plain step keeps, and where it leads.
LEMMA PlainKeeps ==
    ASSUME TypeOK, NEW b \in Builds, PlainStep(b)
    PROVE  /\ att'[b].owned = att[b].owned /\ att'[b].path = att[b].path
           /\ att'[b].fresh = att[b].fresh \/ (pc[b] = "phaseA" /\ pc'[b] = "generate")
           /\ att'[b].orphaned = att[b].orphaned
           /\ att[b].failed /\ pc[b] # "phaseC" => att'[b].failed
           /\ att'[b].success = att[b].success \/ (pc[b] = "phaseC" /\ pc'[b] = "leave")
           /\ att'[b].cur \in {att[b].cur, art}
           /\ (pc[b] = "new" /\ pc'[b] = "compensate") \/ pc[b] \notin {"new", "done", "dead"}
           /\ \/ pc'[b] \in {"compensate", "leave", "settle", "unrefCas", "dead"}
              \/ pc[b] = "phaseA" /\ pc'[b] = "generate"
              \/ pc[b] = "register" /\ pc'[b] = "registerCas"
              \/ pc[b] = "register" /\ pc'[b] = "attempted" /\ Registered(b)
              \/ pc[b] \in {"attempted", "phaseB"} /\ pc'[b] \in {"phaseB", "phaseC"}
<1>0. /\ att \in [Builds -> Attempts] /\ pc \in [Builds -> Places]
      /\ art \in Artifacts \cup {Null} /\ att[b] \in Attempts
  BY DEF TypeOK
<1> USE DEF Goto, FailAt, Attempts
<1>1. CASE FailBeforeClaim(b)
  BY <1>0, <1>1 DEF FailBeforeClaim
<1>2. CASE PhaseCFails(b) \/ CompensationRaises(b)
  BY <1>0, <1>2 DEF PhaseCFails, CompensationRaises
<1>7. CASE StartGenerate(b)
  BY <1>0, <1>7 DEF StartGenerate
<1>3. CASE ReadToRegister(b)
  BY <1>0, <1>3 DEF ReadToRegister
<1>4. CASE ReadToUnref(b)
  <2>1. /\ att' = [att EXCEPT ![b] = [att[b] EXCEPT !.cur = art]] /\ pc[b] = "unref"
        /\ pc'[b] \in {"settle", "unrefCas"}
    BY <1>0, <1>4 DEF ReadToUnref
  <2> QED
    BY <1>0, <2>1
<1>5. CASE PhaseC(b)
  <2>1. PICK f \in BOOLEAN :
           att' = [att EXCEPT ![b] = [att[b] EXCEPT !.phase = "E2A_VERIFIED",
                                                    !.success = TRUE, !.failed = f]]
    BY <1>5 DEF PhaseC
  <2>2. pc[b] = "phaseC" /\ pc'[b] = "leave"
    BY <1>0, <1>5 DEF PhaseC
  <2> QED
    BY <1>0, <2>1, <2>2
<1>6. CASE FinishA(b) \/ AFailed(b) \/ PersistAFails(b) \/ PhaseB(b) \/ PhaseBRaises(b)
  <2>1. PICK p \in Phases, f \in {TRUE, att[b].failed} :
           att' = [att EXCEPT ![b] = [att[b] EXCEPT !.phase = p, !.failed = f]]
    BY <1>6, PhasesEnd
  <2>2. /\ att'[b].owned = att[b].owned /\ att'[b].path = att[b].path
        /\ att'[b].fresh = att[b].fresh /\ att'[b].cur = att[b].cur
        /\ att'[b].success = att[b].success /\ att'[b].failed = f
        /\ att'[b].orphaned = att[b].orphaned
    BY <1>0, <2>1
  <2>3. pc[b] \in {"attempted", "phaseB"} /\ pc'[b] \in {"phaseB", "phaseC", "leave"}
    BY <1>6, PhasesEnd
  <2> QED
    BY <1>0, <2>2, <2>3
<1> QED
  BY <1>1, <1>2, <1>3, <1>4, <1>5, <1>6, <1>7 DEF PlainStep

\* The steps of a build that stay within its own record keep this, ...
LEMMA PlainLocal ==
    ASSUME TypeOK, NEW b \in Builds, LocalOf(b), PlainStep(b)
    PROVE  LocalOf(b)'
<1>0. /\ att \in [Builds -> Attempts] /\ pc \in [Builds -> Places]
      /\ art \in Artifacts \cup {Null} /\ att[b] \in Attempts
  BY DEF TypeOK
<1> USE DEF LocalOf, Goto, FailAt, Held, Attempts
<1>1. CASE FailBeforeClaim(b) \/ PhaseCFails(b) \/ CompensationRaises(b)
  BY <1>0, <1>1 DEF FailBeforeClaim, PhaseCFails, CompensationRaises
<1>2. CASE ReadToRegister(b)
  BY <1>0, <1>2 DEF ReadToRegister
<1>3. CASE ReadToUnref(b)
  BY <1>0, <1>3 DEF ReadToUnref
<1>4. CASE FinishA(b) \/ AFailed(b) \/ PersistAFails(b) \/ PhaseB(b) \/ PhaseBRaises(b)
  BY <1>4, PlainKeeps, PhasesEnd DEF PlainStep
<1>5. CASE PhaseC(b)
  BY <1>0, <1>5 DEF PhaseC
<1>6. CASE StartGenerate(b)
  BY <1>0, <1>6 DEF StartGenerate
<1> QED
  BY <1>1, <1>2, <1>3, <1>4, <1>5, <1>6 DEF PlainStep

\* ... and so do the others.
LEMMA LocalStep ==
    ASSUME TypeOK, NEW b \in Builds, LocalOf(b), Step(b)
    PROVE  LocalOf(b)'
<1>0. /\ att \in [Builds -> Attempts] /\ pc \in [Builds -> Places]
      /\ att[b] \in Attempts
  BY DEF TypeOK
<1>1. CASE SlotStep(b)
  BY <1>0, <1>1 DEF SlotStep, TakeTenantSlot, TakeSlot, AdmissionTimeout, Leave,
     LocalOf, Goto, Held, Attempts
<1>2. CASE FileStep(b)
  <2> USE DEF LocalOf, Goto, FailAt, Held, Attempts
  <2>1. CASE \E ok \in BOOLEAN : Generate(b, ok)
    BY <1>0, <2>1 DEF Generate
  <2>2. CASE GenerateRaises(b)
    BY <1>0, <2>2 DEF GenerateRaises
  <2>3. CASE GenerateOverloaded(b)
    BY <1>0, <2>3 DEF GenerateOverloaded
  <2>4. CASE Compensate(b) \/ DeleteObject(b)
    BY <1>0, <2>4 DEF Compensate, DeleteObject, UndoneWhole
  <2> QED
    BY <1>2, <2>1, <2>2, <2>3, <2>4 DEF FileStep
<1>3. CASE Register(b)
  BY <1>3, RegisterAlone DEF LocalOf, Held
<1>4. CASE Unref(b)
  BY <1>4, UnrefAlone DEF LocalOf, Held
<1>5. CASE Claim(b)
  BY <1>5, ClaimAlone DEF LocalOf, Held
<1>6. CASE Settle(b)
  BY <1>6, SettleAlone DEF LocalOf, Held
<1> QED
  BY <1>1, <1>2, <1>3, <1>4, <1>5, <1>6, PlainLocal, StepKinds

\* Whoever moves, every build's place stays true to what it has done.
LEMMA LocalInvStep ==
    ASSUME TypeOK, LocalInv, [Next]_vars
    PROVE  LocalInv'
<1>1. ASSUME NEW b \in Builds, Step(b)
      PROVE  LocalInv'
  <2> SUFFICES ASSUME NEW c \in Builds PROVE LocalOf(c)'
    BY DEF LocalInv
  <2>1. CASE c = b
    BY <1>1, <2>1, LocalStep DEF LocalInv
  <2>2. CASE c # b
    <3>1. pc'[c] = pc[c] /\ att'[c] = att[c]
      BY <1>1, <2>2, StepAlone DEF Alone
    <3> QED
      BY <3>1 DEF LocalInv, LocalOf
  <2> QED
    BY <2>1, <2>2
<1>2. CASE Crash
  <2> SUFFICES ASSUME NEW c \in Builds PROVE LocalOf(c)'
    BY DEF LocalInv
  <2>1. att' = att /\ pc'[c] = IF pc[c] \in {"new", "done"} THEN pc[c] ELSE "dead"
    BY <1>2 DEF Crash
  <2> QED
    BY <2>1 DEF LocalInv, LocalOf, Held
<1>3. CASE Finished \/ UNCHANGED vars
  BY <1>3 DEF Finished, vars, LocalInv, LocalOf
<1> QED
  BY <1>1, <1>2, <1>3 DEF Next

\* The state keeps its type, and permits are conserved.
LEMMA BuildInvStep ==
    ASSUME BuildInv, LocalInv, [Next]_vars
    PROVE  BuildInv'
<1> USE DEF BuildInv
<1>1. ASSUME NEW b \in Builds, Step(b)
      PROVE  BuildInv'
  <2>1. /\ PermitsConserved' /\ slots' \in 0..BuildSlots
        /\ tenantSlots' \in [Tenants -> 0..TenantSlots]
    BY <1>1, PermitsStep
  <2>2. pc' \in [Builds -> Places] /\ att' \in [Builds -> Attempts]
    BY <1>1, StepAlone DEF Alone
  <2>3. rec' \in [Scopes -> ClaimRecords \cup {Null}]
    <3>1. rec \in [Scopes -> ClaimRecords \cup {Null}] /\ rec[ScopeOf(b)] \in ClaimRecords \cup {Null}
      BY BuildAssumption DEF TypeOK, Scopes, ScopeOf
    <3>2. CASE Claim(b)
      <4>1. AfterClaim(rec[ScopeOf(b)], Request(b), 0) \in ClaimRecords \cup {Null}
        BY <3>1, ClaimLeaves
      <4> QED
        BY <3>1, <3>2, <4>1, ClaimAlone
    <3>3. CASE Settle(b)
      <4>1. Settled(b) \in ClaimRecords \cup {Null}
        BY <3>1, SettlementLeaves
      <4> QED
        BY <3>1, <3>3, <4>1, SettleAlone
    <3> QED
      BY <1>1, <3>1, <3>2, <3>3, StepKinds, PlainAlone, SlotAlone, FileAlone, RegisterAlone,
         UnrefAlone
  <2>4. scaffold' \subseteq Keys /\ file' \in BOOLEAN
    BY <1>1, StepKinds, PlainAlone, SlotAlone, FileAlone, RegisterAlone, UnrefAlone, ClaimAlone,
       SettleAlone DEF TypeOK
  <2>5. art' \in Artifacts \cup {Null}
    <3>1. art \in Artifacts \cup {Null} /\ att[b].cur \in Artifacts \cup {Null}
      BY DEF TypeOK, Attempts
    <3>2. CASE Register(b)
      BY <3>1, <3>2, RegisterAlone, ReferenceAdded
    <3>3. CASE Unref(b)
      <4>1. att[b].cur \in Artifacts
        BY <3>1, <3>3, UnrefAlone DEF LocalInv, LocalOf
      <4> QED
        BY <3>1, <3>3, <4>1, UnrefAlone, ReferenceTaken
    <3> QED
      BY <1>1, <3>1, <3>2, <3>3, StepKinds, PlainAlone, SlotAlone, FileAlone, ClaimAlone,
         SettleAlone
  <2> QED
    BY <2>1, <2>2, <2>3, <2>4, <2>5 DEF TypeOK
<1>2. CASE Crash
  BY <1>2, CrashFrees
<1>3. CASE Finished \/ UNCHANGED vars
  BY <1>3 DEF Finished, vars, TypeOK, PermitsConserved, HoldsSlot
<1> QED
  BY <1>1, <1>2, <1>3 DEF Next

\* The type invariant and the conservation of permits, with what they rest on.
THEOREM BuildInvariant ==
    Spec => [](BuildInv /\ LocalInv)
<1>1. Init => BuildInv /\ LocalInv
  <2> SUFFICES ASSUME Init PROVE BuildInv /\ LocalInv
    OBVIOUS
  <2>1. TypeOK
    <3>1. Fresh \in Attempts
      BY BuildAssumption DEF Fresh, Attempts, Phases
    <3> QED
      BY <3>1, BuildAssumption DEF Init, TypeOK, Places
  <2>2. Running = {} /\ \A t \in Tenants : Using(t) = {}
    BY DEF Init, Running, Using, HoldsSlot
  <2>3. Cardinality({}) = 0
    BY FS_EmptySet
  <2>4. PermitsConserved
    <3>1. slots + Cardinality(Running) = BuildSlots
      BY <2>2, <2>3, BuildAssumption DEF Init
    <3>2. ASSUME NEW t \in Tenants
          PROVE  tenantSlots[t] + Cardinality(Using(t)) = TenantSlots
      <4>1. tenantSlots[t] = TenantSlots /\ Cardinality(Using(t)) = 0
        BY <2>2, <2>3 DEF Init
      <4> QED
        BY <4>1, BuildAssumption
    <3> QED
      BY <3>1, <3>2, Counted
  <2>5. LocalInv
    BY DEF Init, LocalInv, LocalOf, Fresh, Held
  <2> QED
    BY <2>1, <2>4, <2>5 DEF BuildInv
<1>2. BuildInv /\ LocalInv /\ [Next]_vars => (BuildInv /\ LocalInv)'
  BY BuildInvStep, LocalInvStep DEF BuildInv
<1> QED
  BY <1>1, <1>2, PTL DEF Spec

-----------------------------------------------------------------------------
(* One builder of a key *)

\* A record is never forgotten and names a build of its key; a build at work
\* holds the claim of its key.
ClaimsInv ==
    /\ \A s \in Scopes :
          rec[s] # Null => rec[s].expires_at = 0 /\ ScopeOf(rec[s].owner) = s
    /\ \A b \in Builds : Building(b) => OwnedBy(rec[ScopeOf(b)], b)

\* Two builds at work on one key are one.
LEMMA ClaimsExclude ==
    ASSUME TypeOK, ClaimsInv
    PROVE  OneBuilder
  BY DEF ClaimsInv, OneBuilder, OwnedBy

\* No step but a claim brings a build to work.
LEMMA BuildingEnds ==
    ASSUME TypeOK, NEW b \in Builds, Step(b), ~Claim(b)
    PROVE  /\ att'[b].owned = att[b].owned
           /\ pc[b] = "new" => PlainStep(b) /\ pc'[b] = "compensate"
           /\ pc[b] \notin {"done", "dead"}
<1>0. att \in [Builds -> Attempts] /\ pc \in [Builds -> Places] /\ att[b] \in Attempts
  BY DEF TypeOK
<1>1. CASE PlainStep(b)
  BY <1>1, PlainKeeps
<1>2. CASE SlotStep(b)
  BY <1>0, <1>2 DEF SlotStep, TakeTenantSlot, TakeSlot, AdmissionTimeout, Leave, Attempts
<1>3. CASE FileStep(b)
  <2>1. pc[b] \in {"generate", "compensate", "delete"}
    BY <1>3 DEF FileStep, Generate, GenerateRaises, GenerateOverloaded, Compensate, DeleteObject
  <2>2. CASE \E ok \in BOOLEAN : Generate(b, ok)
    BY <1>0, <2>1, <2>2 DEF Generate, Attempts
  <2>3. CASE GenerateRaises(b) \/ GenerateOverloaded(b)
    BY <1>0, <2>1, <2>3 DEF GenerateRaises, GenerateOverloaded, FailAt, Attempts
  <2>4. CASE Compensate(b) \/ DeleteObject(b)
    BY <1>0, <2>1, <2>4 DEF Compensate, DeleteObject
  <2> QED
    BY <1>3, <2>2, <2>3, <2>4 DEF FileStep
<1>4. CASE Register(b)
  BY <1>4, RegisterAlone
<1>5. CASE Unref(b)
  BY <1>5, UnrefAlone
<1>6. CASE Settle(b)
  BY <1>6, SettleAlone
<1> QED
  BY <1>1, <1>2, <1>3, <1>4, <1>5, <1>6, StepKinds

\* Claims stay with those that work under them.
LEMMA ClaimsStep ==
    ASSUME TypeOK, LocalInv, ClaimsInv, [Next]_vars
    PROVE  ClaimsInv'
<1>0. /\ rec \in [Scopes -> ClaimRecords \cup {Null}]
      /\ \A b \in Builds : ScopeOf(b) \in Scopes
  BY BuildAssumption DEF TypeOK, Scopes, ScopeOf
<1>1. ASSUME rec' = rec, \A b \in Builds : Building(b)' => Building(b)
      PROVE  ClaimsInv'
  BY <1>1 DEF ClaimsInv
<1>2. ASSUME NEW b \in Builds, Step(b), ~Claim(b)
      PROVE  \A c \in Builds : Building(c)' => Building(c)
  <2>1. Alone(b) /\ LocalOf(b)
    BY <1>2, StepAlone DEF LocalInv
  <2> QED
    BY <1>2, <2>1, BuildingEnds DEF Alone, Building, LocalOf
<1>3. ASSUME NEW b \in Builds, Claim(b)
      PROVE  ClaimsInv'
  <2> DEFINE r == rec[ScopeOf(b)]
             n == AfterClaim(r, Request(b), 0)
             claimed == ClaimStatus(r, Request(b), 0) = "CLAIMED"
  <2>1. /\ Alone(b) /\ rec' = [rec EXCEPT ![ScopeOf(b)] = n]
        /\ ~claimed => ~Building(b)'
    BY <1>3, ClaimAlone DEF Building
  <2>2. IF claimed
        THEN /\ n \in ClaimRecords /\ n.owner = b /\ n.state = "IN_PROGRESS" /\ n.expires_at = 0
             /\ r = Null \/ r.state = "FAILED_RETRYABLE" \/ r.expires_at # 0
        ELSE n = r
    BY ClaimLeaves
  <2>3. n # Null \/ n = r
    BY <2>2, NoRecordAssumption
  <2> HIDE DEF n, claimed
  <2>4. rec'[ScopeOf(b)] = n /\ \A s \in Scopes \ {ScopeOf(b)} : rec'[s] = rec[s]
    BY <1>0, <2>1
  <2>5. \A c \in Builds \ {b} : Building(c)' => Building(c)
    BY <2>1 DEF Alone, Building
  <2>6. CASE claimed
    <3>1. \A c \in Builds \ {b} : Building(c) => ScopeOf(c) # ScopeOf(b)
      BY <1>0, <2>2, <2>6 DEF ClaimsInv, OwnedBy
    <3>2. OwnedBy(rec'[ScopeOf(b)], b)
      BY <2>2, <2>4, <2>6, NoRecordAssumption DEF OwnedBy
    <3>3. \A c \in Builds : Building(c)' => OwnedBy(rec'[ScopeOf(c)], c)
      BY <1>0, <2>4, <2>5, <3>1, <3>2 DEF ClaimsInv
    <3>4. \A s \in Scopes :
             rec'[s] # Null => rec'[s].expires_at = 0 /\ ScopeOf(rec'[s].owner) = s
      BY <2>2, <2>4, <2>6 DEF ClaimsInv
    <3> QED
      BY <3>3, <3>4 DEF ClaimsInv, ScopeOf
  <2>7. CASE ~claimed
    <3>1. rec' = rec
      BY <1>0, <2>1, <2>2, <2>7
    <3> QED
      BY <1>1, <2>1, <2>5, <2>7, <3>1
  <2> QED
    BY <2>6, <2>7
<1>4. ASSUME NEW b \in Builds, Settle(b)
      PROVE  ClaimsInv'
  <2> DEFINE r == rec[ScopeOf(b)]
             n == Settled(b)
  <2>1. Alone(b) /\ rec' = [rec EXCEPT ![ScopeOf(b)] = n] /\ ~Building(b)'
    BY <1>4, SettleAlone DEF Building
  <2>2. \/ n = r
        \/ OwnedBy(r, b) /\ n \in ClaimRecords /\ n.owner = r.owner /\ n.expires_at = r.expires_at
    BY SettlementLeaves
  <2> HIDE DEF n
  <2>3. rec'[ScopeOf(b)] = n /\ \A s \in Scopes \ {ScopeOf(b)} : rec'[s] = rec[s]
    BY <1>0, <2>1
  <2>4. \A c \in Builds \ {b} : Building(c)' => Building(c)
    BY <2>1 DEF Alone, Building
  <2>5. \A c \in Builds : Building(c)' => OwnedBy(rec'[ScopeOf(c)], c)
    BY <1>0, <2>1, <2>2, <2>3, <2>4 DEF ClaimsInv, OwnedBy
  <2>6. \A s \in Scopes :
           rec'[s] # Null => rec'[s].expires_at = 0 /\ ScopeOf(rec'[s].owner) = s
    BY <1>0, <2>2, <2>3 DEF ClaimsInv, OwnedBy
  <2> QED
    BY <2>5, <2>6 DEF ClaimsInv, ScopeOf
<1>5. ASSUME NEW b \in Builds, Step(b), ~Claim(b), ~Settle(b)
      PROVE  rec' = rec
  BY <1>5, StepKinds, PlainAlone, SlotAlone, FileAlone, RegisterAlone, UnrefAlone
<1>6. CASE Crash
  BY <1>1, <1>6 DEF Crash, Building
<1>7. CASE Finished \/ UNCHANGED vars
  BY <1>1, <1>7 DEF Finished, vars, Building
<1> QED
  BY <1>1, <1>2, <1>3, <1>4, <1>5, <1>6, <1>7 DEF Next

\* One build of a key at a time, its cleanup included.
THEOREM OneBuilderOfAKey ==
    Spec => []OneBuilder
<1>1. Init => ClaimsInv
  BY DEF Init, ClaimsInv, Building, Fresh
<1>2. BuildInv /\ LocalInv /\ ClaimsInv /\ [Next]_vars => ClaimsInv'
  BY ClaimsStep DEF BuildInv
<1>3. BuildInv /\ ClaimsInv => OneBuilder
  BY ClaimsExclude DEF BuildInv
<1> QED
  BY <1>1, <1>2, <1>3, BuildInvariant, PTL DEF Spec

-----------------------------------------------------------------------------
(* The right to delete the abstract class *)

\* What a build read of the ownership record is the record, or an older one.
CurInv ==
    /\ art # Null => art.ver > 0
    /\ \A b \in Builds :
          att[b].cur # Null =>
             art # Null /\ att[b].cur.ver <= art.ver /\ (att[b].cur.ver = art.ver => att[b].cur = art)

\* An unchanged record is the one that was read, and the one written is newer.
LEMMA ReadIsLatest ==
    ASSUME TypeOK, CurInv, NEW b \in Builds, UnchangedSince(b)
    PROVE  att[b].cur = art /\ VersionOf(art) \in Nat
<1>1. art \in Artifacts \cup {Null} /\ att[b].cur \in Artifacts \cup {Null}
  BY DEF TypeOK, Attempts
<1>2. att[b].cur # Null => att[b].cur.ver \in Nat /\ att[b].cur.ver <= art.ver /\ art # Null
  BY <1>1 DEF CurInv, Artifacts
<1> QED
  BY <1>1, <1>2 DEF UnchangedSince, VersionOf, CurInv, Artifacts

\* What a step does to the ownership record: a registration or a compensation
\* writes over the latest one, every other step leaves it.
LEMMA RecordChanges ==
    ASSUME BuildInv, LocalInv, CurInv, NEW b \in Builds, Step(b)
    PROVE  \/ art' = art
           \/ Register(b) /\ pc'[b] = "attempted" /\ art' = WithReference(b, art)
                 /\ att[b].cur = art
           \/ Unref(b) /\ art # Null /\ art' = Released(b, art) /\ att[b].cur = art
                 /\ pc'[b] = IF Orphaned(b, art) THEN "delete" ELSE "settle"
<1> USE DEF BuildInv
<1>1. CASE Register(b)
  BY <1>1, RegisterAlone, ReadIsLatest
<1>2. CASE Unref(b)
  BY <1>2, UnrefAlone, ReadIsLatest DEF LocalInv, LocalOf
<1>3. CASE ~Register(b) /\ ~Unref(b)
  BY <1>3, StepKinds, PlainAlone, SlotAlone, FileAlone, ClaimAlone, SettleAlone
<1> QED
  BY <1>1, <1>2, <1>3

\* What a build holds of the record after its step.
LEMMA CurKept ==
    ASSUME TypeOK, NEW b \in Builds, Step(b)
    PROVE  att'[b].cur = Null \/ (art' = art /\ att'[b].cur \in {att[b].cur, art})
<1>0. att \in [Builds -> Attempts] /\ att[b] \in Attempts
  BY DEF TypeOK
<1>1. CASE PlainStep(b)
  BY <1>1, PlainKeeps, PlainAlone
<1>2. CASE SlotStep(b)
  BY <1>0, <1>2, SlotAlone DEF SlotStep, TakeTenantSlot, TakeSlot, AdmissionTimeout, Leave, Attempts
<1>3. CASE FileStep(b)
  <2>1. CASE \E ok \in BOOLEAN : Generate(b, ok)
    <3>1. PICK ok \in BOOLEAN :
             att' = [att EXCEPT ![b] = [att[b] EXCEPT !.ok = ok, !.path = TRUE]]
      BY <2>1 DEF Generate
    <3> QED
      BY <1>0, <1>3, <3>1, FileAlone DEF Attempts
  <2>2. CASE GenerateRaises(b) \/ GenerateOverloaded(b)
    BY <1>0, <1>3, <2>2, FileAlone DEF GenerateRaises, GenerateOverloaded, FailAt, Attempts
  <2>3. CASE Compensate(b) \/ DeleteObject(b)
    BY <1>3, <2>3, FileAlone DEF Compensate, DeleteObject
  <2> QED
    BY <1>3, <2>1, <2>2, <2>3 DEF FileStep
<1>4. CASE Register(b)
  BY <1>4, RegisterAlone
<1>5. CASE Unref(b)
  BY <1>5, UnrefAlone
<1>6. CASE Claim(b)
  BY <1>6, ClaimAlone
<1>7. CASE Settle(b)
  BY <1>7, SettleAlone
<1> QED
  BY <1>1, <1>2, <1>3, <1>4, <1>5, <1>6, <1>7, StepKinds

\* Versions only grow.
LEMMA CurStep ==
    ASSUME BuildInv, LocalInv, CurInv, [Next]_vars
    PROVE  CurInv'
<1> USE DEF BuildInv
<1>1. ASSUME NEW b \in Builds, Step(b)
      PROVE  CurInv'
  <2>1. Alone(b) /\ (att'[b].cur = Null \/ (art' = art /\ att'[b].cur \in {att[b].cur, art}))
    BY <1>1, StepAlone, CurKept
  <2>2. art \in Artifacts \cup {Null} /\ \A c \in Builds : att[c].cur \in Artifacts \cup {Null}
    BY DEF TypeOK, Attempts
  <2>3. CASE art' = art
    <3> SUFFICES ASSUME NEW c \in Builds, att'[c].cur # Null
                 PROVE  /\ art # Null /\ att'[c].cur.ver <= art.ver
                        /\ att'[c].cur.ver = art.ver => att'[c].cur = art
      BY <2>3 DEF CurInv
    <3>1. att'[c].cur \in {att[c].cur, art}
      BY <2>1 DEF Alone
    <3> QED
      BY <2>2, <3>1 DEF CurInv, Artifacts
  <2>4. CASE art' # art
    <3>1. art' # Null /\ art'.ver = VersionOf(art) + 1
      BY <1>1, <2>2, <2>4, RecordChanges, ReferenceAdded, ReferenceTaken DEF VersionOf
    <3>2. att'[b].cur = Null
      BY <2>1, <2>4
    <3> SUFFICES ASSUME NEW c \in Builds, att'[c].cur # Null
                 PROVE  /\ art' # Null /\ att'[c].cur.ver <= art'.ver
                        /\ att'[c].cur.ver # art'.ver
      BY <2>2, <3>1 DEF CurInv, VersionOf, Artifacts
    <3>3. c # b /\ att'[c].cur = att[c].cur
      BY <2>1, <3>2 DEF Alone
    <3>4. att[c].cur.ver \in Nat /\ art # Null /\ att[c].cur.ver <= art.ver /\ art.ver \in Nat
      BY <2>2, <3>3 DEF CurInv, Artifacts
    <3> QED
      BY <3>1, <3>3, <3>4 DEF VersionOf
  <2> QED
    BY <2>3, <2>4
<1>2. CASE Crash \/ Finished \/ UNCHANGED vars
  BY <1>2 DEF Crash, Finished, vars, CurInv
<1> QED
  BY <1>1, <1>2 DEF Next

\* The builds that generated the class, those of them that have not registered it
\* yet, and those whose compensation decided to delete it.
Makers == {b \in Builds : att[b].path /\ att[b].fresh}

Registering == {b \in Makers : pc[b] \in {"register", "registerCas"}}

Deleters == {b \in Builds : att[b].orphaned}

\* The ownership record names a creator and is not deleted: it holds the right to
\* delete the class.
Created == art # Null /\ ~art.deleted /\ art.created_by # Null

Rights == Cardinality(Deleters) + Cardinality(Registering) + (IF Created THEN 1 ELSE 0)

\* A build that generates the class brings one right to delete it, which the
\* ownership record keeps from its registration on, if that began the record, and
\* which passes to the compensation that takes the last reference away.
RightInv == Rights <= Cardinality(Makers)

\* The sets are finite, in every state.
LEMMA RightsCount ==
    /\ IsFiniteSet(Makers) /\ IsFiniteSet(Registering) /\ IsFiniteSet(Deleters)
    /\ Cardinality(Makers) \in Nat /\ Cardinality(Registering) \in Nat
    /\ Cardinality(Deleters) \in Nat
<1>1. /\ Makers \in SUBSET Builds /\ Registering \in SUBSET Builds /\ Deleters \in SUBSET Builds
  BY DEF Makers, Registering, Deleters
<1>2. IsFiniteSet(Makers) /\ IsFiniteSet(Registering) /\ IsFiniteSet(Deleters)
  BY <1>1, BuildAssumption, FS_Subset
<1> QED
  BY <1>2, FS_CardinalityType

LEMMA RightsCountNext ==
    /\ IsFiniteSet(Makers') /\ IsFiniteSet(Registering') /\ IsFiniteSet(Deleters')
    /\ Cardinality(Makers') \in Nat /\ Cardinality(Registering') \in Nat
    /\ Cardinality(Deleters') \in Nat
<1>1. /\ Makers' \in SUBSET Builds /\ Registering' \in SUBSET Builds
      /\ Deleters' \in SUBSET Builds
  BY DEF Makers, Registering, Deleters
<1>2. IsFiniteSet(Makers') /\ IsFiniteSet(Registering') /\ IsFiniteSet(Deleters')
  BY <1>1, BuildAssumption, FS_Subset
<1> QED
  BY <1>2, FS_CardinalityType

\* No right comes from where no class is generated, registered or orphaned.
LEMMA NoRightGained ==
    ASSUME RightInv, Makers \subseteq Makers', Registering' \subseteq Registering,
           Deleters' \subseteq Deleters, Created' => Created
    PROVE  RightInv'
<1>1. /\ Cardinality(Makers) <= Cardinality(Makers')
      /\ Cardinality(Registering') <= Cardinality(Registering)
      /\ Cardinality(Deleters') <= Cardinality(Deleters)
  BY RightsCount, RightsCountNext, FS_Subset
<1> QED
  BY <1>1, RightsCount, RightsCountNext DEF RightInv, Rights

\* Where a build comes to be of one of these sets.
LEMMA RightKept ==
    ASSUME TypeOK, LocalInv, NEW b \in Builds, Step(b), \A ok \in BOOLEAN : ~Generate(b, ok)
    PROVE  /\ Makers \subseteq Makers' /\ Registering' \subseteq Registering
           /\ ~Unref(b) => Deleters' \subseteq Deleters
           /\ Deleters' \subseteq Deleters \cup {b}
<1>0. /\ att \in [Builds -> Attempts] /\ pc \in [Builds -> Places] /\ Alone(b)
      /\ att[b] \in Attempts /\ LocalOf(b)
  BY StepAlone DEF TypeOK, LocalInv
<1>1. /\ att'[b].path = att[b].path
      /\ att[b].path => att'[b].fresh = att[b].fresh
      /\ pc'[b] \in {"register", "registerCas"} => pc[b] \in {"register", "registerCas"}
      /\ ~Unref(b) => att'[b].orphaned = att[b].orphaned
  <2>1. CASE PlainStep(b)
    BY <1>0, <2>1, PlainKeeps DEF LocalOf
  <2>2. CASE SlotStep(b)
    BY <1>0, <2>2 DEF SlotStep, TakeTenantSlot, TakeSlot, AdmissionTimeout, Leave, Goto, Attempts
  <2>3. CASE FileStep(b)
    <3>1. CASE GenerateRaises(b)
      BY <1>0, <3>1 DEF GenerateRaises, FailAt, Goto, Attempts
    <3>2. CASE GenerateOverloaded(b)
      BY <1>0, <3>2 DEF GenerateOverloaded, Goto, Attempts
    <3>3. CASE Compensate(b) \/ DeleteObject(b)
      BY <1>0, <3>3 DEF Compensate, DeleteObject, Goto
    <3> QED
      BY <2>3, <3>1, <3>2, <3>3 DEF FileStep
  <2>4. CASE Register(b)
    BY <2>4, RegisterAlone
  <2>5. CASE Unref(b)
    BY <2>5, UnrefAlone
  <2>6. CASE Claim(b)
    BY <1>0, <2>6 DEF Claim, Goto, Attempts
  <2>7. CASE Settle(b)
    BY <2>7, SettleAlone
  <2> QED
    BY <2>1, <2>2, <2>3, <2>4, <2>5, <2>6, <2>7, StepKinds
<1>2. \A c \in Builds \ {b} : pc'[c] = pc[c] /\ att'[c] = att[c]
  BY <1>0 DEF Alone
<1>3. Makers \subseteq Makers'
  BY <1>1, <1>2 DEF Makers
<1>4. Registering' \subseteq Registering
  BY <1>1, <1>2 DEF Registering, Makers
<1>5. (~Unref(b) => Deleters' \subseteq Deleters) /\ Deleters' \subseteq Deleters \cup {b}
  BY <1>1, <1>2 DEF Deleters
<1> QED
  BY <1>3, <1>4, <1>5

\* There are never more rights than builds that generated the class.
LEMMA RightStep ==
    ASSUME BuildInv, LocalInv, CurInv, RightInv, [Next]_vars
    PROVE  RightInv'
<1> USE DEF BuildInv
<1>0. /\ att \in [Builds -> Attempts] /\ pc \in [Builds -> Places]
      /\ art \in Artifacts \cup {Null}
  BY DEF TypeOK
<1>1. ASSUME NEW b \in Builds, NEW ok \in BOOLEAN, Generate(b, ok)
      PROVE  RightInv'
  <2>1. /\ att' = [att EXCEPT ![b] = [att[b] EXCEPT !.ok = ok, !.path = TRUE]]
        /\ art' = art /\ pc' = [pc EXCEPT ![b] = "register"] /\ ~att[b].path
    BY <1>1 DEF Generate, Goto, LocalInv, LocalOf
  <2>2. /\ att'[b].path /\ att'[b].fresh = att[b].fresh /\ att'[b].orphaned = att[b].orphaned
        /\ pc'[b] = "register"
        /\ \A c \in Builds \ {b} : att'[c] = att[c] /\ pc'[c] = pc[c]
    BY <1>0, <2>1 DEF Attempts
  <2>3. b \notin Makers /\ b \notin Registering /\ Deleters' = Deleters /\ (Created' <=> Created)
    BY <2>1, <2>2 DEF Makers, Registering, Deleters, Created
  <2>4. CASE att[b].fresh
    <3>1. Makers' = Makers \cup {b} /\ Registering' = Registering \cup {b}
      BY <2>2, <2>4 DEF Makers, Registering
    <3>2. /\ Cardinality(Makers') = Cardinality(Makers) + 1
          /\ Cardinality(Registering') = Cardinality(Registering) + 1
      BY <2>3, <3>1, RightsCount, FS_AddElement
    <3> QED
      BY <2>3, <3>2, RightsCount DEF RightInv, Rights
  <2>5. CASE ~att[b].fresh
    <3>1. Makers' = Makers /\ Registering' = Registering
      BY <2>2, <2>3, <2>5 DEF Makers, Registering
    <3> QED
      BY <2>3, <3>1, NoRightGained
  <2> QED
    BY <2>4, <2>5
<1>2. ASSUME NEW b \in Builds, Register(b), pc'[b] = "attempted",
             art' = WithReference(b, art), Step(b)
      PROVE  RightInv'
  <2>1. /\ Makers \subseteq Makers' /\ Registering' \subseteq Registering
        /\ Deleters' \subseteq Deleters
    BY <1>2, RightKept DEF Register, Generate, Unref
  <2>2. CASE (art = Null \/ art.deleted) /\ Created'
    <3>1. att[b].fresh /\ ~Created
      BY <1>0, <1>2, <2>2, ReferenceAdded DEF Created
    <3>2. b \in Registering /\ b \notin Registering'
      <4>1. pc[b] = "registerCas" /\ att[b].path
        BY <1>2 DEF Register, LocalInv, LocalOf
      <4> QED
        BY <1>2, <3>1, <4>1 DEF Registering, Makers
    <3>3. /\ Registering' \subseteq Registering \ {b}
          /\ Cardinality(Registering \ {b}) = Cardinality(Registering) - 1
          /\ IsFiniteSet(Registering \ {b})
      BY <2>1, <3>2, RightsCount, FS_RemoveElement
    <3>4. /\ Cardinality(Registering') <= Cardinality(Registering) - 1
          /\ Cardinality(Makers) <= Cardinality(Makers')
          /\ Cardinality(Deleters') <= Cardinality(Deleters)
      BY <2>1, <3>3, RightsCount, RightsCountNext, FS_Subset
    <3> QED
      BY <2>2, <3>1, <3>4, RightsCount, RightsCountNext DEF RightInv, Rights
  <2>3. CASE ~Created'
    BY <2>1, <2>3, NoRightGained
  <2>4. CASE art # Null /\ ~art.deleted
    <3>1. Created' => Created
      BY <1>0, <1>2, <2>4, ReferenceAdded DEF Created
    <3> QED
      BY <2>1, <3>1, NoRightGained
  <2> QED
    BY <2>2, <2>3, <2>4
<1>3. ASSUME NEW b \in Builds, Unref(b), art # Null, art' = Released(b, art), att[b].cur = art,
             pc'[b] = IF Orphaned(b, art) THEN "delete" ELSE "settle", Step(b)
      PROVE  RightInv'
  <2>1. /\ Makers \subseteq Makers' /\ Registering' \subseteq Registering
        /\ Deleters' \subseteq Deleters \cup {b}
    BY <1>3, RightKept DEF Unref, Generate
  <2>2. /\ art'.created_by = art.created_by
        /\ art'.deleted = (art.deleted \/ Orphaned(b, art))
    BY <1>0, <1>3, ReferenceTaken
  <2>3. CASE Orphaned(b, art)
    <3>1. Created /\ ~Created'
      BY <1>3, <2>2, <2>3 DEF Created, Orphaned
    <3>2. Cardinality(Deleters \cup {b}) <= Cardinality(Deleters) + 1 /\ IsFiniteSet(Deleters \cup {b})
      BY RightsCount, FS_AddElement
    <3>3. /\ Cardinality(Deleters') <= Cardinality(Deleters \cup {b})
          /\ Cardinality(Deleters \cup {b}) \in Nat
          /\ Cardinality(Registering') <= Cardinality(Registering)
          /\ Cardinality(Makers) <= Cardinality(Makers')
      BY <2>1, <3>2, RightsCount, RightsCountNext, FS_Subset, FS_CardinalityType
    <3> QED
      BY <3>1, <3>2, <3>3, RightsCount, RightsCountNext DEF RightInv, Rights
  <2>4. CASE ~Orphaned(b, art)
    <3>1. Created' => Created
      BY <1>3, <2>2, <2>4 DEF Created
    <3>2. Deleters' \subseteq Deleters
      <4>1. ~att'[b].orphaned
        BY <1>3, <2>4, UnrefAlone
      <4> QED
        BY <2>1, <4>1 DEF Deleters
    <3> QED
      BY <2>1, <3>1, <3>2, NoRightGained
  <2> QED
    BY <2>3, <2>4
<1>4. ASSUME NEW b \in Builds, Step(b), art' = art, \A ok \in BOOLEAN : ~Generate(b, ok)
      PROVE  RightInv'
  <2>1. /\ Makers \subseteq Makers' /\ Registering' \subseteq Registering
        /\ ~Unref(b) => Deleters' \subseteq Deleters
        /\ Deleters' \subseteq Deleters \cup {b}
    BY <1>4, RightKept
  <2>2. Created' <=> Created
    BY <1>4 DEF Created
  <2>3. ASSUME Unref(b) PROVE att'[b].orphaned = att[b].orphaned
    <3>1. ASSUME UnchangedSince(b), art' = Released(b, att[b].cur) PROVE FALSE
      <4>1. att[b].cur \in Artifacts
        BY <2>3 DEF Unref, LocalInv, LocalOf, TypeOK, Attempts
      <4>2. art'.ver = att[b].cur.ver + 1 /\ att[b].cur = art
        BY <3>1, <4>1, ReferenceTaken, ReadIsLatest
      <4> QED
        BY <1>4, <4>1, <4>2 DEF Artifacts
    <3> QED
      BY <2>3, <3>1, UnrefAlone
  <2>4. Deleters' \subseteq Deleters
    BY <2>1, <2>3 DEF Deleters
  <2> QED
    BY <2>1, <2>2, <2>4, NoRightGained
<1>5. ASSUME NEW b \in Builds, Step(b)
      PROVE  RightInv'
  BY <1>1, <1>2, <1>3, <1>4, <1>5, RecordChanges
<1>6. CASE Crash
  <2>1. UNCHANGED <<att, art>> /\ \A b \in Builds : pc'[b] \notin {"register", "registerCas"}
    BY <1>6 DEF Crash
  <2> QED
    BY <2>1, NoRightGained DEF Makers, Registering, Deleters, Created
<1>7. CASE Finished \/ UNCHANGED vars
  BY <1>7, NoRightGained DEF Finished, vars, Makers, Registering, Deleters, Created
<1> QED
  BY <1>5, <1>6, <1>7 DEF Next

\* No more compensations decide to delete the abstract class than builds have
\* generated it.
THEOREM OneDeleterOfAClass ==
    Spec => []OneDeleter
<1>1. Init => CurInv /\ RightInv
  <2> SUFFICES ASSUME Init PROVE CurInv /\ RightInv
    OBVIOUS
  <2>1. Makers = {} /\ Registering = {} /\ Deleters = {} /\ ~Created
    BY DEF Init, Fresh, Makers, Registering, Deleters, Created
  <2>2. RightInv
    BY <2>1, FS_EmptySet DEF RightInv, Rights
  <2> QED
    BY <2>2 DEF Init, Fresh, CurInv
<1>2. BuildInv /\ LocalInv /\ CurInv /\ RightInv /\ [Next]_vars => (CurInv /\ RightInv)'
  BY CurStep, RightStep
<1>3. RightInv => OneDeleter
  <2>1. OneDeleter <=> Cardinality(Deleters) <= Cardinality(Makers)
    BY DEF OneDeleter, Deleters, Makers
  <2> QED
    BY <2>1, RightsCount DEF RightInv, Rights
<1> QED
  BY <1>1, <1>2, <1>3, BuildInvariant, PTL DEF Spec

-----------------------------------------------------------------------------
(* What a completed build keeps *)

\* Tenants build under generator keys of their own.  The claim is the tenant's
\* but the scaffold and the reference are the key's alone, so tenants that share
\* a key undo each other's builds.
KeysApart == \A b, c \in Builds : KeyOf[b] = KeyOf[c] => TenantOf[b] = TenantOf[c]

\* A key's reference to the class, and its scaffold, which a build that failed
\* before it claimed the key may have deleted.
Referenced(k) == art # Null /\ ~art.deleted /\ k \in art.refs

Kept(k) == k \in scaffold \/ \E b \in Builds : KeyOf[b] = k /\ att[b].failed /\ ~att[b].owned

\* A build at work that has generated its scaffold, and that has registered.
HasScaffold(b) ==
    /\ Building(b)
    /\ \/ pc[b] \in {"register", "registerCas", "attempted", "phaseB", "phaseC"}
       \/ att[b].success

HasReference(b) ==
    /\ Building(b)
    /\ pc[b] \in {"attempted", "phaseB", "phaseC"} \/ att[b].success

\* Completed builds, and those at work that may complete, have both.
KeptInv ==
    /\ \A s \in Scopes : Completed(s) => Referenced(s[2]) /\ Kept(s[2])
    /\ \A b \in Builds : HasScaffold(b) => Kept(KeyOf[b])
    /\ \A b \in Builds : HasReference(b) => Referenced(KeyOf[b])

\* While a build works on a key, no build of the key is completed and no other
\* one is at work.
LEMMA AloneOnKey ==
    ASSUME TypeOK, ClaimsInv, KeysApart, NEW b \in Builds, Building(b)
    PROVE  /\ \A s \in Scopes : Completed(s) => s[2] # KeyOf[b]
           /\ \A c \in Builds : Building(c) /\ KeyOf[c] = KeyOf[b] => c = b
<1>1. OwnedBy(rec[ScopeOf(b)], b) /\ ScopeOf(b) \in Scopes
  BY BuildAssumption DEF ClaimsInv, Scopes, ScopeOf
<1>2. ASSUME NEW s \in Scopes, Completed(s), s[2] = KeyOf[b]
      PROVE  FALSE
  <2>1. rec[s] \in ClaimRecords /\ ScopeOf(rec[s].owner) = s
    BY <1>2 DEF TypeOK, Completed, ClaimsInv
  <2>2. rec[s].owner \in Builds
    BY <2>1 DEF ClaimRecords
  <2>3. KeyOf[rec[s].owner] = KeyOf[b]
    BY <1>2, <2>1 DEF ScopeOf
  <2>4. s = ScopeOf(b)
    BY <2>1, <2>2, <2>3 DEF KeysApart, ScopeOf
  <2> QED
    BY <1>1, <1>2, <2>4 DEF Completed, OwnedBy
<1>3. ASSUME NEW c \in Builds, Building(c), KeyOf[c] = KeyOf[b]
      PROVE  c = b
  <2>1. ScopeOf(c) = ScopeOf(b)
    BY <1>3 DEF KeysApart, ScopeOf
  <2> QED
    BY <1>3, <2>1, ClaimsExclude DEF OneBuilder
<1> QED
  BY <1>2, <1>3

\* A build that failed without a claim stays one.
LEMMA UnclaimedStays ==
    ASSUME TypeOK, NEW b \in Builds, LocalOf(b), Step(b), att[b].failed, ~att[b].owned
    PROVE  att'[b].failed /\ ~att'[b].owned
<1>0. att \in [Builds -> Attempts] /\ pc \in [Builds -> Places] /\ att[b] \in Attempts
  BY DEF TypeOK
<1>1. pc[b] \notin {"new", "tenant", "instance"} \cup Held
  BY DEF LocalOf
<1>2. CASE PlainStep(b)
  BY <1>1, <1>2, PlainKeeps DEF Held
<1>3. CASE SlotStep(b)
  BY <1>0, <1>1, <1>3 DEF SlotStep, TakeTenantSlot, TakeSlot, AdmissionTimeout, Leave, Held
<1>4. CASE FileStep(b)
  BY <1>0, <1>1, <1>4 DEF FileStep, Generate, GenerateRaises, GenerateOverloaded, Compensate,
     DeleteObject, Held
<1>5. CASE Register(b)
  BY <1>1, <1>5 DEF Register, Held
<1>6. CASE Unref(b)
  BY <1>6, UnrefAlone
<1>7. CASE Claim(b)
  BY <1>1, <1>7 DEF Claim
<1>8. CASE Settle(b)
  BY <1>8, SettleAlone
<1> QED
  BY <1>2, <1>3, <1>4, <1>5, <1>6, <1>7, <1>8, StepKinds

\* A scaffold goes only when a build compensates for the whole of its own.
LEMMA ScaffoldStep ==
    ASSUME TypeOK, LocalInv, NEW b \in Builds, Step(b)
    PROVE  \A k \in Keys :
              Kept(k) => Kept(k)' \/ (Compensate(b) /\ UndoneWhole(b) /\ k = KeyOf[b])
<1>0. Alone(b) /\ \A c \in Builds : LocalOf(c)
  BY StepAlone DEF LocalInv
<1>1. ASSUME NEW c \in Builds, att[c].failed, ~att[c].owned
      PROVE  att'[c].failed /\ ~att'[c].owned
  BY <1>0, <1>1, UnclaimedStays DEF Alone
<1>2. scaffold \subseteq scaffold' \/
         (Compensate(b) /\ UndoneWhole(b) /\ scaffold' = scaffold \ {KeyOf[b]})
  <2>1. CASE FileStep(b)
    BY <2>1 DEF FileStep, Generate, GenerateRaises, GenerateOverloaded, Compensate, DeleteObject
  <2> QED
    BY <2>1, StepKinds, PlainAlone, SlotAlone, RegisterAlone, UnrefAlone, ClaimAlone, SettleAlone
<1> QED
  BY <1>1, <1>2 DEF Kept

\* A reference goes only when a build that has not succeeded takes its own away.
LEMMA ReferenceStep ==
    ASSUME BuildInv, LocalInv, CurInv, NEW b \in Builds, Step(b)
    PROVE  /\ \A k \in Keys : Referenced(k) => Referenced(k)' \/ (Unref(b) /\ k = KeyOf[b])
           /\ Register(b) /\ pc'[b] = "attempted" => Referenced(KeyOf[b])'
<1> USE DEF BuildInv
<1>0. art \in Artifacts \cup {Null} /\ KeyOf[b] \in Keys
  BY BuildAssumption DEF TypeOK
<1>1. ASSUME Register(b), pc'[b] = "attempted"
      PROVE  art' = WithReference(b, art)
  <2>1. UnchangedSince(b) /\ art' = WithReference(b, att[b].cur)
    BY <1>1, RegisterAlone
  <2> QED
    BY <2>1, ReadIsLatest
<1>2. CASE art' = art /\ ~(Register(b) /\ pc'[b] = "attempted")
  BY <1>2 DEF Referenced
<1>3. CASE Register(b) /\ pc'[b] = "attempted"
  <2>1. art' = WithReference(b, art)
    BY <1>1, <1>3
  <2>2. art' # Null /\ KeyOf[b] \in art'.refs /\ ~art'.deleted
    BY <1>0, <2>1, ReferenceAdded
  <2>3. art # Null /\ ~art.deleted => art'.refs = art.refs \cup {KeyOf[b]}
    BY <1>0, <2>1, ReferenceAdded
  <2> QED
    BY <2>2, <2>3 DEF Referenced
<1>4. CASE Unref(b) /\ art # Null /\ art' = Released(b, art)
  <2>1. /\ art' # Null /\ art'.refs = art.refs \ {KeyOf[b]}
        /\ art'.deleted = (art.deleted \/ Orphaned(b, art))
    BY <1>0, <1>4, ReferenceTaken
  <2>2. ASSUME NEW k \in Keys, Referenced(k), k # KeyOf[b]
        PROVE  Referenced(k)'
    <3>1. ~Orphaned(b, art)
      BY <2>2 DEF Referenced, Orphaned
    <3> QED
      BY <2>1, <2>2, <3>1 DEF Referenced
  <2> QED
    BY <1>4, <2>2 DEF Unref, Register
<1> QED
  BY <1>2, <1>3, <1>4, RecordChanges

\* Who comes to need a scaffold or a reference has it.
LEMMA NeedsStep ==
    ASSUME BuildInv, LocalInv, CurInv, NEW b \in Builds, Step(b)
    PROVE  /\ HasScaffold(b)' => HasScaffold(b) \/ Kept(KeyOf[b])'
           /\ HasReference(b)' => HasReference(b) \/ Referenced(KeyOf[b])'
<1> USE DEF BuildInv, HasScaffold, HasReference, Building
<1>0. /\ att \in [Builds -> Attempts] /\ pc \in [Builds -> Places] /\ att[b] \in Attempts
      /\ LocalOf(b)
  BY DEF TypeOK, LocalInv
<1>1. CASE PlainStep(b)
  <2>1. art' = art /\ KeyOf[b] \in Keys
    BY <1>1, PlainAlone, BuildAssumption
  <2>2. Registered(b) => Referenced(KeyOf[b])'
    BY <2>1 DEF Registered, Referenced
  <2> QED
    BY <1>0, <1>1, <2>2, PlainKeeps DEF LocalOf
<1>2. CASE SlotStep(b)
  <2>1. att'[b].success = att[b].success /\ att'[b].owned = att[b].owned
    BY <1>0, <1>2 DEF SlotStep, TakeTenantSlot, TakeSlot, AdmissionTimeout, Leave, Attempts
  <2>2. /\ pc[b] \in {"tenant", "instance", "leave"}
        /\ pc'[b] \in {"instance", "phaseA", "settle", "compensate"}
    BY <1>0, <1>2 DEF SlotStep, TakeTenantSlot, TakeSlot, AdmissionTimeout, Leave, Goto
  <2> QED
    BY <2>1, <2>2
<1>3. CASE FileStep(b)
  <2>1. CASE \E ok \in BOOLEAN : Generate(b, ok)
    <3>1. PICK ok \in BOOLEAN : Generate(b, ok)
      BY <2>1
    <3>2. att' = [att EXCEPT ![b] = [att[b] EXCEPT !.ok = ok, !.path = TRUE]]
      BY <3>1 DEF Generate
    <3>3. att'[b].success = att[b].success
      BY <1>0, <3>2 DEF Attempts
    <3>4. KeyOf[b] \in scaffold' /\ pc'[b] = "register" /\ pc[b] = "generate"
      BY <1>0, <3>1 DEF Generate, Goto
    <3>5. ~att[b].success
      BY <1>0, <3>4 DEF LocalOf
    <3> QED
      BY <3>3, <3>4, <3>5 DEF Kept
  <2>2. CASE GenerateRaises(b) \/ GenerateOverloaded(b)
    <3>1. att'[b].success = att[b].success /\ pc[b] = "generate" /\ pc'[b] = "leave"
      <4>1. CASE GenerateRaises(b)
        BY <1>0, <4>1 DEF GenerateRaises, FailAt, Goto, Attempts
      <4>2. CASE GenerateOverloaded(b)
        BY <1>0, <4>2 DEF GenerateOverloaded, Goto, Attempts
      <4> QED
        BY <2>2, <4>1, <4>2
    <3> QED
      BY <1>0, <3>1 DEF LocalOf
  <2>3. CASE Compensate(b) \/ DeleteObject(b)
    <3>1. /\ att' = att /\ pc[b] \in {"compensate", "delete"}
          /\ pc'[b] \in {"unref", "settle"}
      BY <1>0, <2>3 DEF Compensate, DeleteObject, Goto
    <3> QED
      BY <3>1
  <2> QED
    BY <1>3, <2>1, <2>2, <2>3 DEF FileStep
<1>4. CASE Register(b)
  <2>1. Register(b) /\ pc'[b] = "attempted" => Referenced(KeyOf[b])'
    BY ReferenceStep
  <2> QED
    BY <1>0, <1>4, <2>1, RegisterAlone DEF LocalOf
<1>5. CASE Unref(b)
  BY <1>5, UnrefAlone
<1>6. CASE Claim(b)
  BY <1>0, <1>6, ClaimAlone DEF LocalOf
<1>7. CASE Settle(b)
  BY <1>7, SettleAlone
<1> QED
  BY <1>1, <1>2, <1>3, <1>4, <1>5, <1>6, <1>7, StepKinds

\* A build completes under the claim it holds, when it has succeeded.
LEMMA CompletedStep ==
    ASSUME TypeOK, NEW b \in Builds, Step(b)
    PROVE  \A s \in Scopes :
              Completed(s)' => Completed(s) \/ (s = ScopeOf(b) /\ HasReference(b) /\ HasScaffold(b))
<1>0. /\ rec \in [Scopes -> ClaimRecords \cup {Null}]
      /\ ScopeOf(b) \in Scopes
  BY BuildAssumption DEF TypeOK, Scopes, ScopeOf
<1>1. CASE Claim(b)
  <2> DEFINE r == rec[ScopeOf(b)]
             n == AfterClaim(r, Request(b), 0)
  <2>1. rec' = [rec EXCEPT ![ScopeOf(b)] = n] /\ (n = r \/ n.state = "IN_PROGRESS")
    BY <1>1, ClaimAlone, ClaimLeaves
  <2> HIDE DEF n
  <2> QED
    BY <1>0, <2>1 DEF Completed
<1>2. CASE Settle(b)
  <2> DEFINE r == rec[ScopeOf(b)]
             n == Settled(b)
  <2>1. /\ rec' = [rec EXCEPT ![ScopeOf(b)] = n] /\ pc[b] = "settle"
        /\ n = r \/ (att[b].owned /\ n.state = IF att[b].success THEN "SUCCEEDED"
                                                ELSE "FAILED_RETRYABLE")
    BY <1>2, SettleAlone, SettlementLeaves
  <2> HIDE DEF n
  <2> QED
    BY <1>0, <2>1 DEF Completed, HasReference, HasScaffold, Building
<1>3. CASE ~Claim(b) /\ ~Settle(b)
  BY <1>3, StepKinds, PlainAlone, SlotAlone, FileAlone, RegisterAlone, UnrefAlone DEF Completed
<1> QED
  BY <1>1, <1>2, <1>3

\* Nothing that is completed, or may come to be, loses its scaffold or its
\* reference.
LEMMA KeptStep ==
    ASSUME KeysApart, BuildInv, LocalInv, ClaimsInv, CurInv, KeptInv, [Next]_vars
    PROVE  KeptInv'
<1> USE DEF BuildInv
<1>0. /\ \A b \in Builds : KeyOf[b] \in Keys
      /\ \A s \in Scopes : s[2] \in Keys
  BY BuildAssumption DEF Scopes
<1>1. ASSUME NEW b \in Builds, Step(b)
      PROVE  KeptInv'
  <2> DEFINE k == KeyOf[b]
  <2>1. Alone(b) /\ LocalOf(b) /\ ClaimsInv
    BY <1>1, StepAlone DEF LocalInv
  <2>2. ASSUME Compensate(b), UndoneWhole(b)
        PROVE  \/ Kept(k)'
               \/ /\ Building(b) /\ ~HasScaffold(b)' /\ ~HasScaffold(b)
    <3>1. /\ pc[b] = "compensate" /\ att' = att /\ att[b].failed
          /\ pc'[b] \in {"unref", "settle"}
      BY <2>2, <2>1 DEF Compensate, Goto, LocalOf, TypeOK
    <3>2. ~att[b].success
      BY <2>2, <2>1 DEF UndoneWhole, LocalOf
    <3>3. CASE att[b].owned
      BY <3>1, <3>2, <3>3 DEF Building, HasScaffold
    <3>4. CASE ~att[b].owned
      BY <3>1, <3>4 DEF Kept
    <3> QED
      BY <3>3, <3>4
  <2>3. ASSUME Unref(b)
        PROVE  Building(b) /\ ~HasReference(b)' /\ ~HasReference(b)
    BY <2>3, <2>1, UnrefAlone DEF LocalOf, Building, HasReference
  <2>4. \A c \in Builds : HasScaffold(c)' => HasScaffold(c) \/ (c = b /\ Kept(k)')
    BY <1>1, <2>1, NeedsStep DEF Alone, HasScaffold, Building
  <2>5. \A c \in Builds : HasReference(c)' => HasReference(c) \/ (c = b /\ Referenced(k)')
    BY <1>1, <2>1, NeedsStep DEF Alone, HasReference, Building
  <2>6. \A s \in Scopes :
           Completed(s)' => Completed(s) \/ (s[2] = k /\ HasReference(b) /\ HasScaffold(b))
    BY <1>1, CompletedStep DEF ScopeOf
  <2>7. \A c \in Builds : HasScaffold(c) \/ HasReference(c) => Building(c)
    BY DEF HasScaffold, HasReference
  <2>8. Building(b) =>
           /\ \A s \in Scopes : Completed(s) => s[2] # k
           /\ \A c \in Builds : Building(c) /\ KeyOf[c] = k => c = b
    BY AloneOnKey
  <2>9. ASSUME NEW j \in Keys, Kept(j),
               \/ \E s \in Scopes : Completed(s) /\ s[2] = j
               \/ \E c \in Builds : HasScaffold(c) /\ KeyOf[c] = j /\ (c = b => HasScaffold(b)')
        PROVE  Kept(j)'
    <3>1. CASE j = k /\ Compensate(b) /\ UndoneWhole(b)
      BY <2>2, <2>7, <2>8, <2>9, <3>1
    <3> QED
      BY <1>1, <2>9, <3>1, ScaffoldStep
  <2>10. ASSUME NEW j \in Keys, Referenced(j),
                \/ \E s \in Scopes : Completed(s) /\ s[2] = j
                \/ \E c \in Builds : HasReference(c) /\ KeyOf[c] = j /\ (c = b => HasReference(b)')
         PROVE  Referenced(j)'
    <3>1. CASE j = k /\ Unref(b)
      BY <2>3, <2>7, <2>8, <2>10, <3>1
    <3> QED
      BY <1>1, <2>10, <3>1, ReferenceStep
  <2>11. \A c \in Builds : HasScaffold(c)' => Kept(KeyOf[c])'
    BY <1>0, <2>4, <2>9 DEF KeptInv
  <2>12. \A c \in Builds : HasReference(c)' => Referenced(KeyOf[c])'
    BY <1>0, <2>5, <2>10 DEF KeptInv
  <2>13. ASSUME HasReference(b), HasScaffold(b), NEW s \in Scopes, Completed(s)', s[2] = k
         PROVE  Referenced(k)' /\ Kept(k)'
    <3>1. Kept(k) /\ Referenced(k)
      BY <2>13 DEF KeptInv
    <3>2. ~Unref(b) /\ (Compensate(b) /\ UndoneWhole(b) => Kept(k)')
      BY <2>2, <2>3, <2>13
    <3> QED
      BY <1>0, <1>1, <3>1, <3>2, ScaffoldStep, ReferenceStep
  <2>14. \A s \in Scopes : Completed(s)' => Referenced(s[2])' /\ Kept(s[2])'
    <3> SUFFICES ASSUME NEW s \in Scopes, Completed(s)'
                 PROVE  Referenced(s[2])' /\ Kept(s[2])'
      OBVIOUS
    <3>1. CASE Completed(s)
      <4>1. Referenced(s[2]) /\ Kept(s[2]) /\ s[2] \in Keys
        BY <1>0, <3>1 DEF KeptInv
      <4> QED
        BY <2>9, <2>10, <3>1, <4>1
    <3>2. CASE ~Completed(s)
      BY <2>6, <2>13, <3>2
    <3> QED
      BY <3>1, <3>2
  <2> QED
    BY <2>11, <2>12, <2>14 DEF KeptInv
<1>2. CASE Crash
  <2>1. /\ \A b \in Builds : Building(b)' => Building(b) /\ pc'[b] = pc[b]
        /\ UNCHANGED <<rec, scaffold, art, att>>
    BY <1>2 DEF Crash, Building
  <2> QED
    BY <2>1 DEF KeptInv, Completed, Referenced, Kept, HasScaffold, HasReference
<1>3. CASE Finished \/ UNCHANGED vars
  BY <1>3 DEF Finished, vars, KeptInv, Completed, Referenced, Kept, HasScaffold, HasReference,
     Building
<1> QED
  BY <1>1, <1>2, <1>3 DEF Next

\* What a completed build has, it keeps.
THEOREM CompletedBuildsKeep ==
    ASSUME KeysApart
    PROVE  Spec => []KeptInv
<1>1. Init => ClaimsInv /\ CurInv /\ KeptInv
  BY DEF Init, ClaimsInv, CurInv, KeptInv, Completed, HasScaffold, HasReference, Building, Fresh
<1>2. BuildInv /\ LocalInv /\ ClaimsInv /\ CurInv /\ KeptInv /\ [Next]_vars
         => (ClaimsInv /\ CurInv /\ KeptInv)'
  BY KeysApart, ClaimsStep, CurStep, KeptStep DEF BuildInv
<1> QED
  BY <1>1, <1>2, BuildInvariant, PTL DEF Spec

\* A completed build keeps its reference, and the class it refers to is never
\* marked deleted.
THEOREM ReferencesAreKept ==
    ASSUME KeysApart
    PROVE  Spec => []ReferenceKept
<1>1. KeptInv => ReferenceKept
  BY DEF KeptInv, ReferenceKept, Referenced
<1> QED
  BY <1>1, KeysApart, CompletedBuildsKeep, PTL

\* Only a build that failed before it came to claim the key deletes a completed
\* one's scaffold.
THEOREM ScaffoldsAreKept ==
    ASSUME KeysApart
    PROVE  Spec => []ScaffoldKept
<1>1. KeptInv => ScaffoldKept
  BY DEF KeptInv, ScaffoldKept, Kept
<1> QED
  BY <1>1, KeysApart, CompletedBuildsKeep, PTL
=============================================================================
