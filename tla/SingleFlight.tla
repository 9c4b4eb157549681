---------------------------- MODULE SingleFlight ----------------------------
(***************************************************************************)
(* BaseCacheStore.get_or_load() and aget_or_load(): concurrent misses of a *)
(* key share one run of the loader, the leader's; the followers wait for   *)
(* it with a timeout.  Threads interleave at every access to the cache and *)
(* the table of flights, tasks of an event loop only where they await: for *)
(* a task, looking up and joining are one step, and so is what follows the *)
(* loader.  Threads and tasks share the cache but never a flight.          *)
(***************************************************************************)
EXTENDS Integers, FiniteSets

CONSTANTS
    Threads,       \* callers of get_or_load()
    Tasks,         \* callers of aget_or_load(), on one event loop
    Keys,
    Values,        \* what loaders return
    Null,
    MaxCalls       \* bound on the calls made

ASSUME SingleFlightAssumption ==
    /\ IsFiniteSet(Threads) /\ IsFiniteSet(Tasks) /\ Threads \cap Tasks = {}
    /\ MaxCalls \in Nat
    /\ Null \notin Values /\ Null \notin Nat

Callers == Threads \cup Tasks

VARIABLES
    cache,         \* the cached value of a key
    flights,       \* st['flights'] of each kind of caller
    flight,        \* the flight objects
    pc,            \* where each caller is
    call,          \* each caller's call
    made,          \* calls made
    fills          \* history: times tasks filled a key since it last went

vars == <<cache, flights, flight, pc, call, made, fills>>

Kinds == {"thread", "task"}

KindOf(c) == IF c \in Threads THEN "thread" ELSE "task"

\* _Flight objects of threads and futures of tasks, enough for every caller to
\* lead or follow one of its own
FlightIds == Kinds \X (1..Cardinality(Callers))

\* "interrupt" is a KeyboardInterrupt or SystemExit, "cancelled" a CancelledError
Interruptions == {"interrupt", "cancelled"}

\* What a flight ended with besides a value; "timeout" is a TimeoutError of the
\* loader's own
Errors == Interruptions \cup {"error", "timeout", "aborted"}

ASSUME NullErrorAssumption == Null \notin Errors \cup FlightIds \cup {"fill"}

Flights ==
    [done : BOOLEAN, value : Values \cup {Null}, error : Errors \cup {Null}]

\* value and error are those of the loader, later of the call itself.
\* History: the caller was interrupted itself.
Calls ==
    [key : Keys \cup {Null}, flight : FlightIds \cup {Null},
     value : Values \cup {Null}, error : Errors \cup {"fill", Null}, struck : BOOLEAN]

Places == {"idle", "join", "load", "set", "finish", "pop", "wait", "fallback", "own"}

TypeOK ==
    /\ cache \in [Keys -> Values \cup {Null}]
    /\ flights \in [Kinds \X Keys -> FlightIds \cup {Null}]
    /\ flight \in [FlightIds -> Flights]
    /\ pc \in [Callers -> Places]
    /\ call \in [Callers -> Calls]
    /\ made \in Nat
    /\ fills \in [Keys -> Nat]

NewFlight == [done |-> FALSE, value |-> Null, error |-> Null]

NoCall == [key |-> Null, flight |-> Null, value |-> Null, error |-> Null, struck |-> FALSE]

Init ==
    /\ cache = [k \in Keys |-> Null]
    /\ flights = [e \in Kinds \X Keys |-> Null]
    /\ flight = [f \in FlightIds |-> NewFlight]
    /\ pc = [c \in Callers |-> "idle"]
    /\ call = [c \in Callers |-> NoCall]
    /\ made = 0
    /\ fills = [k \in Keys |-> 0]

Goto(c, place) == pc' = [pc EXCEPT ![c] = place]

\* The entry of c's call in the table
Entry(c) == <<KindOf(c), call[c].key>>

\* The flight objects without those that only c held
Without(c, objects) ==
    LET held == {call[d].flight : d \in Callers \ {c}}
    IN  [f \in FlightIds |-> IF f \in held THEN objects[f] ELSE NewFlight]

\* The call returns a value or raises
Return(c, value, error, struck) ==
    /\ Goto(c, "idle")
    /\ call' = [call EXCEPT ![c] = [NoCall EXCEPT !.value = value, !.error = error,
                                                  !.struck = struck]]

-----------------------------------------------------------------------------
(* Looking up the cache, and leading or following *)

Hit(c, k) ==
    /\ pc[c] = "idle" /\ made < MaxCalls
    /\ cache[k] # Null
    /\ made' = made + 1
    /\ Return(c, cache[k], Null, FALSE)
    /\ UNCHANGED <<cache, flights, flight, fills>>

\* A flight nobody holds any more
FreeFlight(kind) ==
    CHOOSE f \in FlightIds : f[1] = kind /\ \A c \in Callers : call[c].flight # f

Lead(c, k) ==
    /\ flights[<<KindOf(c), k>>] = Null
    /\ flights' = [flights EXCEPT ![<<KindOf(c), k>>] = FreeFlight(KindOf(c))]
    /\ call' = [call EXCEPT ![c] = [NoCall EXCEPT !.key = k,
                                                  !.flight = FreeFlight(KindOf(c))]]
    /\ Goto(c, "load")
    /\ UNCHANGED flight

Follow(c, k) ==
    /\ flights[<<KindOf(c), k>>] # Null
    /\ call' = [call EXCEPT ![c] = [NoCall EXCEPT !.key = k,
                                                  !.flight = flights[<<KindOf(c), k>>]]]
    /\ Goto(c, "wait")
    /\ UNCHANGED <<flights, flight>>

\* A thread looks up, and takes the lock later
Miss(c, k) ==
    /\ c \in Threads
    /\ pc[c] = "idle" /\ made < MaxCalls
    /\ cache[k] = Null
    /\ made' = made + 1
    /\ call' = [call EXCEPT ![c] = [NoCall EXCEPT !.key = k]]
    /\ Goto(c, "join")
    /\ UNCHANGED <<cache, flights, flight, fills>>

Join(c) ==
    /\ pc[c] = "join"
    /\ Lead(c, call[c].key) \/ Follow(c, call[c].key)
    /\ UNCHANGED <<cache, made, fills>>

\* variant: a task misses without a look at the cache
MissedBlindly(k) == TRUE

Missed(k) == cache[k] = Null

TaskMiss(c, k) ==
    /\ c \in Tasks
    /\ pc[c] = "idle" /\ made < MaxCalls
    /\ Missed(k)
    /\ made' = made + 1
    /\ Lead(c, k) \/ Follow(c, k)
    /\ UNCHANGED <<cache, fills>>

-----------------------------------------------------------------------------
(* The leader *)

\* loader() returns None or a value
ThreadLoads(c, value) ==
    /\ c \in Threads /\ pc[c] = "load"
    /\ call' = [call EXCEPT ![c].value = value]
    /\ Goto(c, IF value = Null THEN "finish" ELSE "set")
    /\ UNCHANGED <<cache, flights, flight, made, fills>>

\* loader() or set() raises
ThreadRaises(c, error) ==
    /\ c \in Threads /\ pc[c] \in {"load", "set"}
    /\ call' = [call EXCEPT ![c] = [@ EXCEPT !.value = Null, !.error = error,
                                             !.struck = (error \in Interruptions)]]
    /\ Goto(c, "finish")
    /\ UNCHANGED <<cache, flights, flight, made, fills>>

Set(c) ==
    /\ pc[c] = "set"
    /\ cache' = [cache EXCEPT ![call[c].key] = call[c].value]
    /\ Goto(c, "finish")
    /\ UNCHANGED <<flights, flight, call, made, fills>>

\* The interruption that followers are not handed: a thread's leader replaces
\* KeyboardInterrupt and SystemExit, a task's CancelledError, and neither the
\* other's
KeptBy(kind) == IF kind = "task" THEN "cancelled" ELSE "interrupt"

\* variant: the leader's interruption is handed on
SharedAsIs(kind, error) == error

\* What the followers are told of the leader's error
Shared(kind, error) == IF error = KeptBy(kind) THEN "aborted" ELSE error

\* variant: an interrupted leader tells nobody
EndedUnlessStruck(kind, value, error) ==
    [done |-> error # KeptBy(kind), value |-> value, error |-> Shared(kind, error)]

\* The flight as its leader leaves it
Ended(kind, value, error) ==
    [done |-> TRUE, value |-> value, error |-> Shared(kind, error)]

Finish(c) ==
    /\ pc[c] = "finish"
    /\ flight' = [flight EXCEPT ![call[c].flight] = Ended(KindOf(c), call[c].value, call[c].error)]
    /\ Goto(c, "pop")
    /\ UNCHANGED <<cache, flights, call, made, fills>>

\* variant: only a leader that succeeded takes its flight off the table
LandedOnSuccess(c) ==
    IF flight[call[c].flight].error = Null THEN [flights EXCEPT ![Entry(c)] = Null] ELSE flights

Landed(c) == [flights EXCEPT ![Entry(c)] = Null]

Pop(c) ==
    /\ pc[c] = "pop"
    /\ flights' = Landed(c)
    /\ flight' = Without(c, flight)
    /\ Return(c, call[c].value, call[c].error, call[c].struck)
    /\ UNCHANGED <<cache, made, fills>>

\* All of the above at once, for a task
TaskFills(c, value) ==
    /\ c \in Tasks /\ pc[c] = "load"
    /\ cache' = [cache EXCEPT ![call[c].key] = value]
    /\ fills' = [fills EXCEPT ![call[c].key] = @ + 1]
    /\ flight' = Without(c, [flight EXCEPT ![call[c].flight] = Ended("task", value, Null)])
    /\ flights' = Landed(c)
    /\ Return(c, value, Null, FALSE)
    /\ UNCHANGED made

\* The loader returns None, or it or set() raises
TaskEnds(c, error) ==
    /\ c \in Tasks /\ pc[c] = "load"
    /\ flight' = Without(c, [flight EXCEPT ![call[c].flight] = Ended("task", Null, error)])
    /\ flights' = Landed(c)
    /\ Return(c, Null, error, error \in Interruptions)
    /\ UNCHANGED <<cache, made, fills>>

-----------------------------------------------------------------------------
(* The followers *)

\* A task takes a TimeoutError of the leader's loader for one of its own wait
FallsBack(c, error) == error = "aborted" \/ (error = "timeout" /\ c \in Tasks)

Served(c) ==
    /\ pc[c] = "wait" /\ flight[call[c].flight].done
    /\ LET f == flight[call[c].flight]
       IN  IF FallsBack(c, f.error)
           THEN /\ call' = [call EXCEPT ![c].flight = Null]
                /\ Goto(c, "fallback")
           ELSE Return(c, f.value, f.error, FALSE)
    /\ flight' = Without(c, flight)
    /\ UNCHANGED <<cache, flights, made, fills>>

\* cache_fill_timeout_seconds, or what is left until the deadline, are over
FillTimeout(c) ==
    /\ pc[c] = "wait" /\ ~flight[call[c].flight].done
    /\ call' = [call EXCEPT ![c].flight = Null]
    /\ flight' = Without(c, flight)
    /\ Goto(c, "fallback")
    /\ UNCHANGED <<cache, flights, made, fills>>

\* cache_fill_on_timeout = raise, stale or load
Fallback(c) ==
    /\ pc[c] = "fallback"
    /\ \/ Return(c, Null, "fill", FALSE)
       \/ Return(c, cache[call[c].key], Null, FALSE)
       \/ Goto(c, "own") /\ UNCHANGED call
    /\ UNCHANGED <<cache, flights, flight, made, fills>>

\* Its own run of the loader fills no cache
OwnLoad(c, value, error) ==
    /\ pc[c] = "own"
    /\ Return(c, value, error, FALSE)
    /\ UNCHANGED <<cache, flights, flight, made, fills>>

\* A waiting thread is itself interrupted, a waiting task cancelled
Interrupted(c) ==
    /\ pc[c] = "wait"
    /\ Return(c, Null, KeptBy(KindOf(c)), TRUE)
    /\ flight' = Without(c, flight)
    /\ UNCHANGED <<cache, flights, made, fills>>

\* The value expires, is evicted or invalidated
Vanish(k) ==
    /\ cache[k] # Null
    /\ cache' = [cache EXCEPT ![k] = Null]
    /\ fills' = [fills EXCEPT ![k] = 0]
    /\ UNCHANGED <<flights, flight, pc, call, made>>

\* The bound on calls is reached
Finished ==
    /\ made = MaxCalls /\ \A c \in Callers : pc[c] = "idle"
    /\ UNCHANGED vars

LoaderReturns(c, value) ==
    \/ ThreadLoads(c, value)
    \/ value # Null /\ TaskFills(c, value)
    \/ value = Null /\ TaskEnds(c, Null)
    \/ OwnLoad(c, value, Null)

\* Only tasks that follow tell a TimeoutError from other errors, and how a
\* caller's own run of the loader fails is nobody else's concern
LoaderRaises(c) ==
    \/ \E error \in Interruptions \cup {"error"} : ThreadRaises(c, error)
    \/ \E error \in Interruptions \cup {"error", "timeout"} : TaskEnds(c, error)
    \/ OwnLoad(c, Null, "error")

LoaderEnds(c) ==
    \/ \E value \in Values \cup {Null} : LoaderReturns(c, value)
    \/ LoaderRaises(c)

Step(c) ==
    \/ Join(c) \/ Set(c) \/ Finish(c) \/ Pop(c)
    \/ Served(c) \/ Fallback(c)

Next ==
    \/ \E c \in Callers :
          \/ \E k \in Keys : Hit(c, k) \/ Miss(c, k) \/ TaskMiss(c, k)
          \/ LoaderEnds(c) \/ Step(c)
          \/ FillTimeout(c) \/ Interrupted(c)
    \/ \E k \in Keys : Vanish(k)
    \/ Finished

\* Runners are scheduled and loaders return.  Nothing is assumed of timeouts.
Fairness == \A c \in Callers : WF_vars(Step(c) \/ LoaderEnds(c))

Spec == Init /\ [][Next]_vars /\ Fairness

-----------------------------------------------------------------------------
(* Properties *)

Leaders(f) ==
    {c \in Callers : pc[c] \in {"load", "set", "finish", "pop"} /\ call[c].flight = f}

\* A flight is on the table exactly while it has a leader, and it has one
\* leader: no failure, of the loader or of the cache, leaves an entry behind
\* that every later caller of the key would wait for, and no key is loaded by
\* two leaders of a kind at once.
FlightsLed ==
    /\ \A e \in DOMAIN flights :
          flights[e] # Null => \E c \in Leaders(flights[e]) : Entry(c) = e
    /\ \A c, d \in Callers :
          pc[c] \in {"load", "set", "finish", "pop"} /\ pc[d] \in {"load", "set", "finish", "pop"}
             /\ Entry(c) = Entry(d) => c = d
    /\ \A c \in Callers :
          pc[c] \in {"load", "set", "finish", "pop"} => flights[Entry(c)] = call[c].flight

\* A cancelled leader cancels no other task, and an interrupted one interrupts no
\* other thread: a task's call ends cancelled, and a thread's interrupted, only
\* if its own caller was, and nobody ever sees the marker that replaces the
\* interruption.  (A task that leads into a KeyboardInterrupt, and a thread into
\* a CancelledError, do hand it to their followers.)
InterruptsStayHome ==
    \A c \in Callers :
        pc[c] = "idle" =>
            /\ call[c].error = KeptBy(KindOf(c)) => call[c].struck
            /\ call[c].error # "aborted"

\* Tasks fill a key at most once while its value stays in the cache: none that
\* missed before the fill loads again after it.
OneFill == \A k \in Keys : fills[k] <= 1

\* A follower is served, by the value or by a reason to fall back, without the
\* help of its timeout, however its leader ends.
FollowersServed == \A c \in Callers : pc[c] = "wait" ~> pc[c] # "wait"

\* The state is well typed, and every flight on the table has its one leader.
FlightInv == TypeOK /\ FlightsLed
=============================================================================
