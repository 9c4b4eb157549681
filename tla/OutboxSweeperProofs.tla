------------------------ MODULE OutboxSweeperProofs ------------------------
(***************************************************************************)
(* Theorems about the leased sweepers, for any number of sweepers and      *)
(* records, any lease and renewal times and any stalls and deaths.         *)
(***************************************************************************)
EXTENDS OutboxSweeper, TLAPS

\* Every sweeper starts idle: nobody believes in a lease.
LEMMA LeaseInvInit == Init => LeaseInv
<1> SUFFICES ASSUME Init PROVE LeaseInv
  OBVIOUS
<1>1. NoSweep \in Sweeps
  BY DEF NoSweep, Sweeps
<1>2. TypeOK
  BY <1>1 DEF Init, TypeOK, Places
<1>3. TokensDistinct /\ \A w \in Sweepers : BelieverRecorded(w)
  BY DEF Init, TokensDistinct, BelieverRecorded, Believes, Sweeping
<1>4. TokenBounds
  BY DEF Init, TokenBounds, NoSweep
<1> QED
  BY <1>2, <1>3, <1>4 DEF LeaseInv

\* acquire() hands out a token nobody has, and only when no sweeper can still
\* believe in an earlier lease.
LEMMA AcquireKeeps ==
    ASSUME LeaseInv, NEW w \in Sweepers, Acquire(w)
    PROVE  LeaseInv'
<1> DEFINE s == [token |-> counter + 1, expires |-> now + LeaseTtl,
                 renewed |-> now, since |-> Entry(w), batch |-> {}, hand |-> {}]
<1> USE DEF LeaseInv
<1>1. s \in Sweeps /\ Acquired(counter, LeaseTtl, now) \in Leases
  BY SweeperAssumption DEF TypeOK, Sweeps, Entry, Acquired, Leases
<1>2. TypeOK'
  BY <1>1 DEF Acquire, Goto, TypeOK, Places
<1>3. /\ sweep'[w].token = counter + 1
      /\ sweep'[w].expires = now + LeaseTtl
      /\ \A v \in Sweepers : v # w => sweep'[v] = sweep[v] /\ pc'[v] = pc[v]
      /\ counter' = counter + 1 /\ now' = now
  BY DEF Acquire, Goto, TypeOK
<1>4. lock' = [token |-> counter + 1, expires |-> now + LeaseTtl]
  BY DEF Acquire, Acquired
<1>5. \A v \in Sweepers : sweep[v] \in Sweeps /\ sweep[v].token <= counter
  BY DEF TypeOK, TokenBounds
<1>6. \A v \in Sweepers : ~Believes(v)
  <2> SUFFICES ASSUME NEW v \in Sweepers, Believes(v) PROVE FALSE
    OBVIOUS
  <2>1. lock = [token |-> sweep[v].token, expires |-> sweep[v].expires]
    BY DEF BelieverRecorded
  <2>2. lock # Null /\ lock.expires = sweep[v].expires
    BY <2>1, <1>5, NullLeaseAssumption DEF Leases, Sweeps
  <2> QED
    BY <2>2, <1>5 DEF Acquire, Acquirable, Believes, TypeOK, Sweeps
<1>7. TokenBounds'
  BY <1>3, <1>4, <1>5 DEF TokenBounds, TypeOK, Sweeps
<1>8. TokensDistinct'
  BY <1>3, <1>5 DEF TokensDistinct, Sweeping, TypeOK, Sweeps
<1>9. ASSUME NEW v \in Sweepers PROVE BelieverRecorded(v)'
  <2>1. CASE v = w
    BY <2>1, <1>3, <1>4 DEF BelieverRecorded
  <2>2. CASE v # w
    BY <2>2, <1>3, <1>6 DEF BelieverRecorded, Believes, Sweeping
  <2> QED
    BY <2>1, <2>2
<1> QED
  BY <1>2, <1>7, <1>8, <1>9

\* renew() extends the lease of the one sweeper that holds its token.
LEMMA RenewKeeps ==
    ASSUME LeaseInv, NEW w \in Sweepers, Renew(w)
    PROVE  LeaseInv'
<1> USE DEF LeaseInv
<1>1. lock \in Leases /\ lock.token = sweep[w].token
  BY DEF Renew, Renewable, Holds, TypeOK
<1>2. /\ lock' = [lock EXCEPT !.expires = now + RenewTtl]
      /\ lock' \in Leases /\ lock'.token = lock.token
      /\ lock'.expires = now + RenewTtl
  BY <1>1, SweeperAssumption DEF Renew, Renewed, Leases, TypeOK
<1>3. /\ sweep' \in [Sweepers -> Sweeps]
      /\ \A v \in Sweepers : sweep'[v].token = sweep[v].token
      /\ \A v \in Sweepers : v # w => sweep'[v] = sweep[v]
      /\ sweep'[w].expires = now + RenewTtl
  <2> DEFINE s == [sweep[w] EXCEPT !.expires = now + RenewTtl, !.renewed = now,
                                   !.since = Entry(w)]
  <2>1. sweep[w] \in Sweeps /\ now \in Nat /\ now + RenewTtl \in Nat /\ Entry(w) \in Nat
    BY SweeperAssumption DEF TypeOK, Entry
  <2>2. s \in Sweeps /\ s.token = sweep[w].token /\ s.expires = now + RenewTtl
    BY <2>1 DEF Sweeps
  <2>3. sweep' = [sweep EXCEPT ![w] = s]
    BY DEF Renew
  <2> QED
    BY <2>2, <2>3 DEF TypeOK
<1>4. \A v \in Sweepers : Sweeping(v)' <=> Sweeping(v)
  BY DEF Renew, Goto, Sweeping, TypeOK
<1>5. TypeOK'
  BY <1>2, <1>3 DEF Renew, Goto, TypeOK, Places
<1>6. TokenBounds'
  BY <1>1, <1>2, <1>3, NullLeaseAssumption DEF TokenBounds, Renew
<1>7. TokensDistinct'
  BY <1>3, <1>4 DEF TokensDistinct
<1>8. ASSUME NEW v \in Sweepers PROVE BelieverRecorded(v)'
  <2>1. CASE v = w
    BY <2>1, <1>1, <1>2, <1>3 DEF BelieverRecorded, Leases
  <2>2. CASE v # w
    <3> SUFFICES ASSUME Believes(v)' PROVE FALSE
      BY DEF BelieverRecorded
    <3>1. Believes(v)
      BY <2>2, <1>3, <1>4 DEF Believes, Renew
    <3>2. lock.token = sweep[v].token
      BY <3>1 DEF BelieverRecorded
    <3>3. Sweeping(w) /\ Sweeping(v)
      BY <3>1 DEF Believes, Renew, Sweeping
    <3> QED
      BY <2>2, <3>2, <3>3, <1>1 DEF TokensDistinct
  <2> QED
    BY <2>1, <2>2
<1> QED
  BY <1>5, <1>6, <1>7, <1>8

\* release() takes away nobody's lease but the releaser's own.
LEMMA ReleaseKeeps ==
    ASSUME LeaseInv, NEW w \in Sweepers, Release(w)
    PROVE  LeaseInv'
<1> USE DEF LeaseInv
<1>1. NoSweep \in Sweeps /\ NoSweep.token = 0
  BY DEF NoSweep, Sweeps
<1>2. lock' \in Leases \cup {Null} /\ (lock' = Null \/ lock' = lock)
  BY DEF Release, Released, TypeOK
<1>3. TypeOK'
  BY <1>1, <1>2 DEF Release, Return, TypeOK, Places
<1>4. \A v \in Sweepers : v # w => sweep'[v] = sweep[v] /\ pc'[v] = pc[v]
  BY DEF Release, Return, TypeOK
<1>5. ~Sweeping(w)' /\ sweep'[w].token = 0
  BY <1>1 DEF Release, Return, TypeOK, Sweeping
<1>6. TokenBounds'
  BY <1>2, <1>4, <1>5 DEF TokenBounds, Release, TypeOK
<1>7. TokensDistinct'
  BY <1>4, <1>5 DEF TokensDistinct, Sweeping
<1>8. ASSUME NEW v \in Sweepers PROVE BelieverRecorded(v)'
  <2> SUFFICES ASSUME Believes(v)' PROVE lock' = lock /\ v # w
    BY <1>4 DEF BelieverRecorded, Believes, Sweeping, Release
  <2>1. v # w
    BY <1>5 DEF Believes
  <2>2. Believes(v)
    BY <2>1, <1>4 DEF Believes, Sweeping, Release
  <2>3. lock.token = sweep[v].token
    BY <2>2 DEF BelieverRecorded
  <2>4. sweep[v].token # sweep[w].token
    BY <2>1, <2>2 DEF TokensDistinct, Believes, Sweeping, Release
  <2> QED
    BY <2>1, <2>3, <2>4 DEF Release, Released, Holds
<1> QED
  BY <1>3, <1>6, <1>7, <1>8

\* A sweeper that stops, with its lease lost or by dying, disturbs no other.
LEMMA StopKeeps ==
    ASSUME LeaseInv, NEW w \in Sweepers, LoseLease(w) \/ Die(w)
    PROVE  LeaseInv'
<1> USE DEF LeaseInv
<1>1. NoSweep \in Sweeps /\ NoSweep.token = 0
  BY DEF NoSweep, Sweeps
<1>2. /\ UNCHANGED <<lock, counter, now, pending, fence, done>>
      /\ \A v \in Sweepers : v # w => sweep'[v] = sweep[v] /\ pc'[v] = pc[v]
      /\ sweep' \in [Sweepers -> Sweeps] /\ pc' \in [Sweepers -> Places]
      /\ ~Sweeping(w)' /\ sweep'[w].token = 0
  BY <1>1 DEF LoseLease, Die, Return, TypeOK, Places, Sweeping
<1>3. TypeOK' /\ TokenBounds'
  BY <1>2 DEF TypeOK, TokenBounds
<1>4. TokensDistinct'
  BY <1>2 DEF TokensDistinct, Sweeping
<1>5. ASSUME NEW v \in Sweepers PROVE BelieverRecorded(v)'
  BY <1>2 DEF BelieverRecorded, Believes, Sweeping
<1> QED
  BY <1>3, <1>4, <1>5

\* What a sweeper does, and what its hooks do to it, inside its sweep
Inside(w) ==
    \/ Fetch(w) \/ Proceed(w) \/ Finish(w) \/ HookRaises(w) \/ Mark(w) \/ MarkFails(w)
    \/ \E r \in Records : Publish(w, r) \/ PublishFenced(w, r) \/ PublishFails(w, r)

\* Inside its sweep a sweeper takes records up and puts them down.
LEMMA InsideHandles ==
    ASSUME TypeOK, NEW w \in Sweepers, Inside(w)
    PROVE  \E b \in SUBSET Records, h \in SUBSET Records :
              /\ sweep' = Handling(w, b, h)
              /\ b \subseteq sweep[w].batch \/ (Fetch(w) /\ b = pending)
<1>1. sweep[w] \in Sweeps /\ Entry(w) \in Nat
  BY DEF TypeOK, Entry
<1>5. CASE Fetch(w)
  <2>1. sweep' = Handling(w, pending, {}) /\ pending \in SUBSET Records
    BY <1>5 DEF Fetch, TypeOK
  <2> QED
    BY <1>5, <2>1
<1>6. CASE Proceed(w) \/ Finish(w) \/ HookRaises(w) \/ Mark(w) \/ MarkFails(w)
  <2>1. sweep' = Handling(w, sweep[w].batch, {})
    BY <1>6 DEF Proceed, Finish, HookRaises, Mark, MarkFails
  <2> QED
    BY <1>1, <2>1 DEF Sweeps
<1>7. CASE \E r \in Records : Publish(w, r) \/ PublishFenced(w, r) \/ PublishFails(w, r)
  <2>1. PICK r \in Records : Publish(w, r) \/ PublishFenced(w, r) \/ PublishFails(w, r)
    BY <1>7
  <2>2. \/ sweep' = Handling(w, sweep[w].batch \ {r}, {r})
        \/ sweep' = Handling(w, sweep[w].batch \ {r}, {})
    BY <2>1 DEF Publish, PublishFenced, PublishFails
  <2>3. sweep[w].batch \ {r} \in SUBSET Records /\ sweep[w].batch \ {r} \subseteq sweep[w].batch
    BY <1>1 DEF Sweeps
  <2> QED
    BY <2>2, <2>3
<1> QED
  BY <1>5, <1>6, <1>7 DEF Inside

\* What Handling changes, and what it leaves alone
LEMMA HandlingKeeps ==
    ASSUME TypeOK, NEW w \in Sweepers, NEW b \in SUBSET Records, NEW h \in SUBSET Records,
           sweep' = Handling(w, b, h)
    PROVE  /\ sweep' \in [Sweepers -> Sweeps]
           /\ \A v \in Sweepers \ {w} : sweep'[v] = sweep[v]
           /\ sweep'[w].batch = b /\ sweep'[w].hand = h /\ sweep'[w].since = Entry(w)
           /\ \A v \in Sweepers : /\ sweep'[v].token = sweep[v].token
                                  /\ sweep'[v].expires = sweep[v].expires
                                  /\ sweep'[v].renewed = sweep[v].renewed
<1> DEFINE s == [sweep[w] EXCEPT !.batch = b, !.hand = h, !.since = Entry(w)]
<1>1. sweep[w] \in Sweeps /\ Entry(w) \in Nat
  BY DEF TypeOK, Entry
<1>2. /\ s \in Sweeps /\ s.token = sweep[w].token /\ s.expires = sweep[w].expires
      /\ s.renewed = sweep[w].renewed /\ s.batch = b /\ s.hand = h /\ s.since = Entry(w)
  BY <1>1 DEF Sweeps
<1>3. sweep' = [sweep EXCEPT ![w] = s]
  BY DEF Handling
<1> HIDE DEF s
<1> QED
  BY <1>2, <1>3 DEF TypeOK

\* Inside a sweep no lease, no clock and nobody's standing change.
LEMMA InsideFrame ==
    ASSUME TypeOK, NEW w \in Sweepers, Inside(w)
    PROVE  /\ UNCHANGED <<lock, counter, now>>
           /\ pending' \subseteq pending
           /\ fence' \in [Records -> Nat] /\ done' \subseteq Records
           /\ pc' \in [Sweepers -> Places]
           /\ \A v \in Sweepers \ {w} : pc'[v] = pc[v]
           /\ \A v \in Sweepers : Sweeping(v)' <=> Sweeping(v)
<1>1. CASE Fetch(w) \/ Proceed(w) \/ Finish(w) \/ HookRaises(w) \/ MarkFails(w)
  BY <1>1 DEF Fetch, Proceed, Finish, HookRaises, MarkFails, Goto, TypeOK, Places, Sweeping
<1>2. CASE Mark(w)
  <2>1. sweep[w].hand \subseteq Records
    BY DEF TypeOK, Sweeps
  <2> QED
    BY <1>2, <2>1 DEF Mark, Goto, TypeOK, Places, Sweeping
<1>3. CASE \E r \in Records : Publish(w, r) \/ PublishFenced(w, r) \/ PublishFails(w, r)
  <2>1. PICK r \in Records : Publish(w, r) \/ PublishFenced(w, r) \/ PublishFails(w, r)
    BY <1>3
  <2>2. sweep[w].token \in Nat
    BY DEF TypeOK, Sweeps
  <2> QED
    BY <2>1, <2>2 DEF Publish, PublishFenced, PublishFails, Goto, TypeOK, Places, Sweeping
<1> QED
  BY <1>1, <1>2, <1>3 DEF Inside

\* Fetching, publishing, marking and finishing move a sweeper about inside its
\* sweep: no token, no handle and no lease changes.
LEMMA InsideKeeps ==
    ASSUME LeaseInv, NEW w \in Sweepers, Inside(w)
    PROVE  LeaseInv'
<1> USE DEF LeaseInv
<1>1. /\ sweep' \in [Sweepers -> Sweeps]
      /\ \A v \in Sweepers :
            sweep'[v].token = sweep[v].token /\ sweep'[v].expires = sweep[v].expires
  BY InsideHandles, HandlingKeeps
<1>2. TypeOK'
  BY <1>1, InsideFrame DEF TypeOK
<1>3. TokenBounds' /\ TokensDistinct'
  BY <1>1, InsideFrame DEF TokenBounds, TokensDistinct
<1>4. ASSUME NEW v \in Sweepers PROVE BelieverRecorded(v)'
  BY <1>1, InsideFrame DEF BelieverRecorded, Believes
<1> QED
  BY <1>2, <1>3, <1>4

\* The passing of time only ends beliefs.
LEMMA TickKeeps == LeaseInv /\ Tick => LeaseInv'
<1> SUFFICES ASSUME LeaseInv, Tick PROVE LeaseInv'
  OBVIOUS
<1> USE DEF LeaseInv
<1>1. now' = now + 1 /\ UNCHANGED <<lock, counter, pending, fence, done, pc, sweep>>
  BY DEF Tick
<1>2. TypeOK' /\ TokenBounds' /\ TokensDistinct'
  BY <1>1 DEF TypeOK, TokenBounds, TokensDistinct, Sweeping
<1>3. ASSUME NEW v \in Sweepers PROVE BelieverRecorded(v)'
  BY <1>1 DEF BelieverRecorded, Believes, Sweeping, TypeOK, Sweeps
<1> QED
  BY <1>2, <1>3

\* Every step of the sweepers, their clock and their failures keeps LeaseInv.
LEMMA LeaseInvStep == LeaseInv /\ [Next]_vars => LeaseInv'
<1> SUFFICES ASSUME LeaseInv, [Next]_vars PROVE LeaseInv'
  OBVIOUS
<1>1. CASE Tick
  BY <1>1, TickKeeps
<1>2. CASE UNCHANGED vars \/ Finished
  BY <1>2 DEF Finished, vars, LeaseInv, TypeOK, TokensDistinct, TokenBounds,
              BelieverRecorded, Believes, Sweeping
<1>3. ASSUME NEW w \in Sweepers, SweeperStep(w) \/ SweeperFault(w)
      PROVE  LeaseInv'
  BY <1>3, AcquireKeeps, RenewKeeps, ReleaseKeeps, StopKeeps, InsideKeeps
     DEF SweeperStep, SweeperFault, Inside
<1> QED
  BY <1>1, <1>2, <1>3 DEF Next

\* One who believes is the one the lock records, so there is one.
LEMMA InvImpliesOneBeliever == LeaseInv => OneBeliever
<1> SUFFICES ASSUME LeaseInv, NEW w \in Sweepers, NEW v \in Sweepers,
                    Believes(w), Believes(v)
             PROVE  w = v
  BY DEF OneBeliever
<1>1. lock.token = sweep[w].token /\ lock.token = sweep[v].token
  BY DEF LeaseInv, BelieverRecorded
<1> QED
  BY <1>1 DEF LeaseInv, TokensDistinct, Believes

\* The lease invariant holds in every reachable state, type correctness with it.
THEOREM LeaseInvariant == Spec => []LeaseInv
<1> QED
  BY LeaseInvInit, LeaseInvStep, PTL DEF Spec

\* No two sweepers ever both believe that they own the lease.
THEOREM OneSweeperBelieves == Spec => []OneBeliever
<1> QED
  BY LeaseInvariant, InvImpliesOneBeliever, PTL

-----------------------------------------------------------------------------
(* Publication *)

\* The lock records the newest token; what is in hand was written under its
\* holder's token; and what is done is listed no more, and fenced from whoever
\* fetched it before.
MarkInv ==
    /\ lock # Null => lock.token = counter
    /\ \A w \in Sweepers : \A r \in sweep[w].hand : sweep[w].token <= fence[r]
    /\ \A w \in Sweepers : sweep[w].hand \cap sweep[w].batch = {}
    /\ \A r \in done :
          /\ r \notin pending
          /\ \A w \in Sweepers :
                Sweeping(w) /\ r \in sweep[w].batch => sweep[w].token < fence[r]

\* Whoever believes in its lease is recorded, and under the newest token.
LEMMA BelieverIsRecorded ==
    ASSUME LeaseInv, NEW w \in Sweepers, Believes(w)
    PROVE  lock # Null /\ lock.token = sweep[w].token
<1>1. sweep[w].token \in Nat /\ sweep[w].expires \in Nat
  BY DEF LeaseInv, TypeOK, Sweeps
<1>2. lock \in Leases /\ lock.token = sweep[w].token
  BY <1>1 DEF LeaseInv, BelieverRecorded, Leases
<1> QED
  BY <1>2, NullLeaseAssumption

\* A step that writes and marks nothing keeps MarkInv if whoever it leaves
\* sweeping has no more in its batch than before or than is pending.
LEMMA SilentKeeps ==
    ASSUME MarkInv, UNCHANGED <<pending, fence, done>>,
           lock' # Null => lock'.token = counter',
           \A v \in Sweepers :
              \/ sweep'[v].hand = {}
              \/ /\ sweep'[v].hand = sweep[v].hand /\ sweep'[v].token = sweep[v].token
                 /\ sweep'[v].batch = sweep[v].batch,
           \A v \in Sweepers : Sweeping(v)' =>
              \/ Sweeping(v) /\ sweep'[v].token = sweep[v].token
                             /\ sweep'[v].batch \subseteq sweep[v].batch
              \/ sweep'[v].batch \subseteq pending
    PROVE  MarkInv'
  BY DEF MarkInv

\* A record written under the newer of two tokens stays fenced from the older.
LEMMA PublishKeeps ==
    ASSUME LeaseInv, MarkInv, NEW w \in Sweepers, NEW r \in Records, Publish(w, r)
    PROVE  MarkInv'
<1> USE DEF LeaseInv
<1>1. Inside(w) /\ r \in sweep[w].batch /\ Sweeping(w)
  BY DEF Inside, Publish, Sweeping
<1>2. /\ sweep' = Handling(w, sweep[w].batch \ {r}, {r})
      /\ sweep[w].batch \ {r} \in SUBSET Records /\ {r} \in SUBSET Records
  BY DEF Publish, TypeOK, Sweeps
<1>3. /\ \A v \in Sweepers \ {w} : sweep'[v] = sweep[v]
      /\ sweep'[w].batch = sweep[w].batch \ {r} /\ sweep'[w].hand = {r}
      /\ \A v \in Sweepers : sweep'[v].token = sweep[v].token
  BY <1>2, HandlingKeeps
<1>4. /\ sweep[w].token \in Nat /\ fence[r] \in Nat /\ fence[r] <= sweep[w].token
      /\ fence'[r] = sweep[w].token /\ \A q \in Records : q # r => fence'[q] = fence[q]
      /\ UNCHANGED <<lock, counter, pending, done>>
  BY DEF Publish, Accepted, TypeOK, Sweeps
<1>5. \A q \in Records : fence[q] \in Nat /\ fence'[q] \in Nat /\ fence[q] <= fence'[q]
  BY <1>4 DEF TypeOK
<1>6. \A v \in Sweepers : sweep[v].hand \subseteq Records /\ sweep[v].token \in Nat
  BY DEF TypeOK, Sweeps
<1>7. ASSUME NEW v \in Sweepers, NEW q \in sweep'[v].hand
      PROVE  sweep'[v].token <= fence'[q]
  <2>1. CASE v = w
    BY <2>1, <1>3, <1>4, <1>7
  <2>2. CASE v # w
    <3>1. q \in sweep[v].hand /\ q \in Records
      BY <2>2, <1>3, <1>6, <1>7
    <3> QED
      BY <3>1, <1>3, <1>5, <1>6 DEF MarkInv
  <2> QED
    BY <2>1, <2>2
<1>8. ASSUME NEW q \in done
      PROVE  /\ q \notin pending
             /\ \A v \in Sweepers :
                   Sweeping(v)' /\ q \in sweep'[v].batch => sweep'[v].token < fence'[q]
  <2>1. q \in Records
    BY DEF TypeOK
  <2>2. \A v \in Sweepers : sweep'[v].batch \subseteq sweep[v].batch
    BY <1>3
  <2>3. \A v \in Sweepers : Sweeping(v)' <=> Sweeping(v)
    BY <1>1, InsideFrame
  <2> QED
    BY <2>1, <2>2, <2>3, <1>3, <1>5, <1>6 DEF MarkInv
<1>9. \A v \in Sweepers : sweep'[v].hand \cap sweep'[v].batch = {}
  BY <1>3 DEF MarkInv
<1> QED
  BY <1>4, <1>7, <1>8, <1>9 DEF MarkInv

\* Whoever marks a record while its lease runs has the newest token: everybody
\* else that fetched the record is fenced from it.
LEMMA MarkKeeps ==
    ASSUME LeaseInv, MarkInv, NEW w \in Sweepers, Mark(w)
    PROVE  MarkInv'
<1> USE DEF LeaseInv
<1>1. Inside(w) /\ Sweeping(w)
  BY DEF Inside, Mark, Sweeping
<1>2. sweep' = Handling(w, sweep[w].batch, {}) /\ sweep[w].batch \in SUBSET Records
  BY DEF Mark, TypeOK, Sweeps
<1>3. /\ \A v \in Sweepers \ {w} : sweep'[v] = sweep[v]
      /\ sweep'[w].batch = sweep[w].batch /\ sweep'[w].hand = {}
      /\ \A v \in Sweepers : sweep'[v].token = sweep[v].token
  BY <1>2, HandlingKeeps
<1>4. /\ UNCHANGED <<lock, counter, fence>> /\ pending' = pending \ sweep[w].hand
      /\ done' = IF now < sweep[w].expires THEN done \cup sweep[w].hand ELSE done
  BY DEF Mark
<1>5. \A v \in Sweepers : Sweeping(v)' <=> Sweeping(v)
  BY <1>1, InsideFrame
<1>6. \A v \in Sweepers : /\ \A q \in sweep'[v].hand : sweep'[v].token <= fence'[q]
                           /\ sweep'[v].hand \cap sweep'[v].batch = {}
  BY <1>3, <1>4 DEF MarkInv
<1>7. ASSUME NEW q \in done'
      PROVE  /\ q \notin pending'
             /\ \A v \in Sweepers :
                   Sweeping(v)' /\ q \in sweep'[v].batch => sweep'[v].token < fence'[q]
  <2>1. CASE q \in done
    BY <2>1, <1>3, <1>4, <1>5 DEF MarkInv
  <2>2. CASE q \notin done
    <3>1. q \in sweep[w].hand /\ Believes(w)
      BY <2>2, <1>1, <1>4, <1>7 DEF Believes
    <3>2. sweep[w].token = counter /\ sweep[w].token <= fence[q]
      BY <3>1, BelieverIsRecorded DEF MarkInv
    <3>3. q \notin sweep[w].batch
      BY <3>1 DEF MarkInv
    <3>4. \A v \in Sweepers \ {w} : Sweeping(v) => sweep[v].token < sweep[w].token
      BY <1>1, <3>2 DEF TokensDistinct, TokenBounds, TypeOK, Sweeps
    <3>5. fence[q] \in Nat /\ \A v \in Sweepers : sweep[v].token \in Nat
      BY <3>1 DEF TypeOK, Sweeps
    <3> QED
      BY <3>1, <3>2, <3>3, <3>4, <3>5, <1>3, <1>4, <1>5
  <2> QED
    BY <2>1, <2>2
<1> QED
  BY <1>4, <1>6, <1>7 DEF MarkInv

\* Every step keeps MarkInv.
LEMMA MarkInvStep ==
    ASSUME LeaseInv, MarkInv, [Next]_vars
    PROVE  MarkInv'
<1> USE DEF LeaseInv
<1>0. (lock # Null => lock.token = counter) /\ \A v \in Sweepers : sweep[v] \in Sweeps
  BY DEF MarkInv, TypeOK
<1>1. CASE Tick \/ Finished \/ UNCHANGED vars
  <2>1. UNCHANGED <<lock, counter, pending, fence, done, pc, sweep>>
    BY <1>1 DEF Tick, Finished, vars
  <2> QED
    BY <2>1, <1>0, SilentKeeps DEF Sweeping
<1>2. ASSUME NEW w \in Sweepers, Inside(w), ~Mark(w), \A r \in Records : ~Publish(w, r)
      PROVE  MarkInv'
  <2>1. PICK b \in SUBSET Records, h \in SUBSET Records :
            /\ sweep' = Handling(w, b, h)
            /\ b \subseteq sweep[w].batch \/ (Fetch(w) /\ b = pending)
    BY <1>2, InsideHandles
  <2>2. UNCHANGED <<pending, fence, done>>
    BY <1>2 DEF Inside, Fetch, Proceed, Finish, HookRaises, MarkFails, PublishFenced, PublishFails
  <2>3. \E c : sweep' = Handling(w, c, {})
    BY <1>2 DEF Inside, Fetch, Proceed, Finish, HookRaises, MarkFails, PublishFenced, PublishFails
  <2>4. sweep'[w].hand = {}
    BY <2>3, <1>0 DEF Handling, TypeOK, Sweeps
  <2> QED
    BY <1>0, <1>2, <2>1, <2>2, <2>4, HandlingKeeps, InsideFrame, SilentKeeps
<1>3. ASSUME NEW w \in Sweepers, Acquire(w)
      PROVE  MarkInv'
  <2> DEFINE s == [token |-> counter + 1, expires |-> now + LeaseTtl,
                   renewed |-> now, since |-> Entry(w), batch |-> {}, hand |-> {}]
  <2>1. sweep' = [sweep EXCEPT ![w] = s] /\ s.batch = {} /\ s.hand = {}
    BY <1>3 DEF Acquire
  <2> HIDE DEF s
  <2>2. /\ sweep'[w].batch = {} /\ sweep'[w].hand = {}
        /\ \A v \in Sweepers \ {w} : sweep'[v] = sweep[v] /\ pc'[v] = pc[v]
    BY <1>3, <2>1 DEF Acquire, Goto, TypeOK
  <2>3. lock'.token = counter'
    BY <1>3 DEF Acquire, Acquired
  <2> QED
    BY <1>3, <2>2, <2>3, SilentKeeps DEF Acquire, Sweeping
<1>4. ASSUME NEW w \in Sweepers, Renew(w)
      PROVE  MarkInv'
  <2> DEFINE s == [sweep[w] EXCEPT !.expires = now + RenewTtl, !.renewed = now, !.since = Entry(w)]
  <2>1. /\ sweep' = [sweep EXCEPT ![w] = s] /\ s.batch = sweep[w].batch
        /\ s.token = sweep[w].token /\ s.hand = sweep[w].hand
    BY <1>4, <1>0 DEF Renew, Sweeps
  <2> HIDE DEF s
  <2>2. \A v \in Sweepers : /\ sweep'[v].batch = sweep[v].batch /\ sweep'[v].token = sweep[v].token
                            /\ sweep'[v].hand = sweep[v].hand
    BY <2>1 DEF TypeOK
  <2>3. lock # Null /\ lock'.token = lock.token
    BY <1>4 DEF Renew, Renewable, Holds, Renewed, TypeOK, Leases
  <2>4. \A v \in Sweepers : Sweeping(v)' <=> Sweeping(v)
    BY <1>4 DEF Renew, Goto, Sweeping, TypeOK
  <2> QED
    BY <1>0, <1>4, <2>2, <2>3, <2>4, SilentKeeps DEF Renew
<1>5. ASSUME NEW w \in Sweepers, Release(w) \/ LoseLease(w) \/ Die(w)
      PROVE  MarkInv'
  <2>1. /\ sweep'[w].batch = {} /\ sweep'[w].hand = {}
        /\ \A v \in Sweepers \ {w} : sweep'[v] = sweep[v] /\ pc'[v] = pc[v]
    BY <1>5 DEF Release, LoseLease, Die, Return, NoSweep, TypeOK
  <2>2. lock' = Null \/ lock' = lock
    BY <1>5 DEF Release, Released, LoseLease, Die
  <2>3. UNCHANGED <<counter, pending, fence, done>>
    BY <1>5 DEF Release, LoseLease, Die
  <2> QED
    BY <1>0, <2>1, <2>2, <2>3, SilentKeeps DEF Sweeping
<1>6. ASSUME NEW w \in Sweepers, SweeperStep(w) \/ SweeperFault(w)
      PROVE  MarkInv'
  BY <1>2, <1>3, <1>4, <1>5, <1>6, PublishKeeps, MarkKeeps DEF SweeperStep, SweeperFault, Inside
<1> QED
  BY <1>1, <1>6 DEF Next

\* However sweepers stall, fail and die between writing a record and marking it, a
\* record marked within a lease is written by nobody again.
THEOREM NothingMarkedIsPublished == Spec => MarkedIsFinal
<1>1. Init => MarkInv
  BY DEF Init, MarkInv, NoSweep
<1>2. LeaseInv /\ MarkInv /\ [Next]_vars => MarkInv'
  BY MarkInvStep
<1>3. LeaseInv /\ MarkInv =>
         \A w \in Sweepers, r \in Records : Publish(w, r) => r \notin done
  <2> SUFFICES ASSUME LeaseInv, MarkInv, NEW w \in Sweepers, NEW r \in Records, Publish(w, r),
                      r \in done
               PROVE  FALSE
    OBVIOUS
  <2>1. Sweeping(w) /\ r \in sweep[w].batch /\ sweep[w].token >= fence[r]
    BY DEF Publish, Accepted, Sweeping
  <2>2. sweep[w].token \in Nat /\ fence[r] \in Nat
    BY DEF LeaseInv, TypeOK, Sweeps
  <2> QED
    BY <2>1, <2>2 DEF MarkInv
<1> QED
  BY <1>1, <1>2, <1>3, LeaseInvariant, PTL DEF Spec, MarkedIsFinal

-----------------------------------------------------------------------------
(* Keeping the lease *)

\* Three stays in sweep(), and the wait for a renewal that is not yet due, fit into
\* a lease as granted and as renewed
LeaseSized ==
    \A ttl \in {LeaseTtl, RenewTtl} : 3 * StayTime < ttl /\ 3 * StayTime + RenewEvery <= ttl

\* The latest a prompt sweeper comes to its place, counted from its renewal
Latest(place) ==
    LET slack == IF RenewEvery = 0 THEN 0 ELSE RenewEvery - 1
    IN  CASE place = "fetch"   -> 0
          [] place = "publish" -> slack
          [] place = "mark"    -> slack + StayTime
          [] place = "next"    -> slack + 2 * StayTime

\* Where a prompt sweeper is and when it last renewed its lease
OnTime(w) ==
    /\ now <= sweep[w].since + StayTime
    /\ \E ttl \in {LeaseTtl, RenewTtl} : sweep[w].expires = sweep[w].renewed + ttl
    /\ pc[w] \in {"fetch", "next", "publish", "mark"} => sweep[w].since <= sweep[w].renewed + Latest(pc[w])

PromptAreOnTime ==
    \A w \in Prompt : pc[w] # "lost" /\ (Sweeping(w) => OnTime(w))

\* A prompt sweeper that comes to its renewal still holds the lease.
LEMMA RenewalInTime ==
    ASSUME LeaseSized, LeaseInv, NEW w \in Prompt, OnTime(w), pc[w] = "next"
    PROVE  Renewable(lock, sweep[w].token, now)
<1>1. w \in Sweepers /\ StayTime \in Nat /\ RenewEvery \in Nat /\ LeaseTtl \in Nat /\ RenewTtl \in Nat
  BY SweeperAssumption
<1>2. /\ sweep[w].since \in Nat /\ sweep[w].renewed \in Nat /\ sweep[w].expires \in Nat
      /\ sweep[w].token \in Nat /\ now \in Nat
  BY <1>1 DEF LeaseInv, TypeOK, Sweeps
<1>3. sweep[w].since <= sweep[w].renewed + (IF RenewEvery = 0 THEN 0 ELSE RenewEvery - 1) + 2 * StayTime
  BY <1>1, <1>2 DEF OnTime, Latest
<1>4. now < sweep[w].expires
  BY <1>1, <1>2, <1>3 DEF OnTime, LeaseSized
<1>5. Believes(w)
  BY <1>4 DEF Believes, Sweeping
<1>6. lock # Null /\ lock.token = sweep[w].token
  BY <1>1, <1>5, BelieverIsRecorded
<1>7. lock.expires = sweep[w].expires
  BY <1>1, <1>5 DEF LeaseInv, BelieverRecorded
<1> QED
  BY <1>4, <1>6, <1>7 DEF Renewable, Holds

\* A step of another sweeper leaves a prompt one where it is.
LEMMA OthersStayOnTime ==
    ASSUME PromptAreOnTime, now' = now, NEW w \in Sweepers,
           \A v \in Sweepers \ {w} : sweep'[v] = sweep[v] /\ pc'[v] = pc[v],
           w \in Prompt => pc'[w] # "lost" /\ (Sweeping(w)' => OnTime(w)')
    PROVE  PromptAreOnTime'
  BY SweeperAssumption DEF PromptAreOnTime, OnTime, Sweeping

\* Every step keeps prompt sweepers on time.
LEMMA OnTimeStep ==
    ASSUME LeaseSized, LeaseInv, PromptAreOnTime, [Next]_vars
    PROVE  PromptAreOnTime'
<1> USE DEF LeaseInv
<1>0. /\ StayTime \in Nat /\ RenewEvery \in Nat /\ LeaseTtl \in Nat /\ RenewTtl \in Nat /\ now \in Nat
      /\ Prompt \subseteq Sweepers
  BY SweeperAssumption DEF TypeOK
<1>1. CASE Finished \/ UNCHANGED vars
  <2>1. UNCHANGED <<now, pc, sweep>>
    BY <1>1 DEF Finished, vars
  <2> QED
    BY <2>1 DEF PromptAreOnTime, OnTime, Sweeping
<1>2. CASE Tick
  <2>1. UNCHANGED <<pc, sweep>> /\ now' = now + 1
    BY <1>2 DEF Tick
  <2>2. ASSUME NEW w \in Prompt, Sweeping(w)
        PROVE  OnTime(w)'
    <3>1. now < sweep[w].since + StayTime
      BY <1>2, <2>2 DEF Tick, Sweeping
    <3>2. sweep[w].since \in Nat
      BY <1>0 DEF TypeOK, Sweeps
    <3> QED
      BY <1>0, <2>1, <2>2, <3>1, <3>2 DEF OnTime, PromptAreOnTime
  <2> QED
    BY <2>1, <2>2 DEF PromptAreOnTime, Sweeping
<1>3. ASSUME NEW w \in Sweepers, SweeperStep(w) \/ SweeperFault(w)
      PROVE  PromptAreOnTime'
  <2>1. /\ now' = now
        /\ \A v \in Sweepers \ {w} : sweep'[v] = sweep[v] /\ pc'[v] = pc[v]
    <3>1. CASE Inside(w)
      BY <3>1, InsideHandles, HandlingKeeps, InsideFrame
    <3>2. CASE Acquire(w) \/ Renew(w) \/ LoseLease(w) \/ Release(w) \/ Die(w)
      BY <3>2 DEF Acquire, Renew, LoseLease, Release, Die, Return, Goto, TypeOK
    <3> QED
      BY <1>3, <3>1, <3>2 DEF SweeperStep, SweeperFault, Inside
  <2>2. ASSUME w \in Prompt, Sweeping(w)'
        PROVE  OnTime(w)'
    <3>1. Entry(w) = now
      BY <2>2 DEF Entry
    <3>2. sweep[w] \in Sweeps /\ pc \in [Sweepers -> Places]
      BY DEF TypeOK
    <3>3. CASE Acquire(w)
      <4>1. /\ sweep'[w].since = now /\ sweep'[w].renewed = now /\ sweep'[w].expires = now + LeaseTtl
            /\ pc'[w] = "fetch"
        BY <3>1, <3>2, <3>3 DEF Acquire, Goto, TypeOK
      <4> QED
        BY <1>0, <2>1, <4>1 DEF OnTime, Latest
    <3>4. CASE Renew(w)
      <4>1. /\ sweep'[w].since = now /\ sweep'[w].renewed = now /\ sweep'[w].expires = now + RenewTtl
            /\ pc'[w] = "publish"
        BY <3>1, <3>2, <3>4 DEF Renew, Goto, TypeOK, Sweeps
      <4> QED
        BY <1>0, <2>1, <4>1 DEF OnTime, Latest
    <3>5. CASE Inside(w)
      <4>1. /\ sweep'[w].since = now /\ sweep'[w].renewed = sweep[w].renewed
            /\ sweep'[w].expires = sweep[w].expires
        BY <3>1, <3>5, InsideHandles, HandlingKeeps
      <4>2. \/ pc[w] = "fetch" /\ pc'[w] = "next"
            \/ pc[w] = "next" /\ pc'[w] = "publish" /\ now - sweep[w].renewed < RenewEvery
            \/ pc[w] = "publish" /\ pc'[w] \in {"next", "mark"}
            \/ pc[w] = "mark" /\ pc'[w] = "next"
            \/ pc'[w] = "release"
        <5>1. CASE Fetch(w) \/ Finish(w) \/ HookRaises(w) \/ Mark(w) \/ MarkFails(w)
          BY <5>1, <3>2 DEF Fetch, Finish, HookRaises, Mark, MarkFails, Goto
        <5>2. CASE Proceed(w)
          BY <5>2, <1>0, <3>2 DEF Proceed, Goto, RenewDue, Sweeps
        <5>3. CASE \E r \in Records : Publish(w, r) \/ PublishFenced(w, r) \/ PublishFails(w, r)
          BY <5>3, <3>2 DEF Publish, PublishFenced, PublishFails, Goto
        <5> QED
          BY <3>5, <5>1, <5>2, <5>3 DEF Inside
      <4>3. OnTime(w)
        <5>1. Sweeping(w)
          BY <2>2, <3>5, InsideFrame
        <5> QED
          BY <2>2, <5>1 DEF PromptAreOnTime
      <4>4. now <= sweep[w].since + StayTime /\ sweep[w].since \in Nat /\ sweep[w].renewed \in Nat
        BY <3>2, <4>3 DEF OnTime, Sweeps
      <4>5. pc'[w] \in {"fetch", "next", "publish", "mark"} => now <= sweep[w].renewed + Latest(pc'[w])
        BY <1>0, <4>2, <4>3, <4>4 DEF OnTime, Latest
      <4> QED
        BY <1>0, <2>1, <4>1, <4>3, <4>5 DEF OnTime
    <3>6. CASE LoseLease(w) \/ Release(w) \/ Die(w)
      BY <2>2, <3>2, <3>6 DEF LoseLease, Release, Die, Return, Sweeping
    <3> QED
      BY <1>3, <3>3, <3>4, <3>5, <3>6 DEF SweeperStep, SweeperFault, Inside
  <2>3. ASSUME w \in Prompt
        PROVE  pc'[w] # "lost"
    <3>1. ~LoseLease(w)
      BY <2>3, RenewalInTime DEF LoseLease, PromptAreOnTime, Sweeping
    <3> QED
      BY <1>3, <3>1 DEF SweeperStep, SweeperFault, Acquire, Fetch, Proceed, Renew, Publish,
         PublishFenced, PublishFails, Mark, MarkFails, Finish, Release, HookRaises, Die, Return,
         Goto, TypeOK
  <2> QED
    BY <2>1, <2>2, <2>3, OthersStayOnTime
<1> QED
  BY <1>1, <1>2, <1>3 DEF Next

\* Where the lease is sized for three stays and a renewal, a sweeper that does not
\* stall never loses it, whatever the others do.
THEOREM PromptKeepTheLease ==
    ASSUME LeaseSized
    PROVE  Spec => []LeaseKept
<1>1. Init => PromptAreOnTime
  BY SweeperAssumption DEF Init, PromptAreOnTime, Sweeping
<1>2. PromptAreOnTime => LeaseKept
  BY DEF PromptAreOnTime, LeaseKept
<1>3. LeaseInv /\ PromptAreOnTime /\ [Next]_vars => PromptAreOnTime'
  BY OnTimeStep
<1> QED
  BY <1>1, <1>2, <1>3, LeaseInvariant, PTL DEF Spec
=============================================================================
