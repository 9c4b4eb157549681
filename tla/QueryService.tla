---------------------------- MODULE QueryService ----------------------------
(***************************************************************************)
(* The read path of the CQRS profile over the cache store: the callers of  *)
(* SingleFlight are queries in BaseQueryService.fetch() (threads) and      *)
(* readers on an event loop, whose loader reads the aggregate from the     *)
(* database, while command services commit new versions and then           *)
(* synchronize the cache before they return.  A loader reads at one moment *)
(* and returns at a later one, and a command dies or raises anywhere       *)
(* between its commit and its return.                                      *)
(***************************************************************************)
EXTENDS SingleFlight

CONSTANTS
    Writers,       \* command services in mutate()
    Syncs          \* what _synchronize_cache() does: "evict", "hydrate"

ASSUME QueryAssumption ==
    /\ Values \subseteq Nat \ {0}
    /\ Syncs \subseteq {"evict", "hydrate"}

VARIABLES
    db,            \* the version of each aggregate in the database, 0 for none
    writing,       \* per command, the aggregate and the version it has committed
    asked,         \* per caller, what its query asked for and its loader has read
    acked,         \* history: the latest version of which a command has returned
    overtaken      \* history: keys a command has changed behind a load's, or
                   \* another command's back, until a clean start

dbvars == <<db, writing, asked, acked, overtaken>>
allvars == <<cache, flights, flight, pc, call, made, fills,
             db, writing, asked, acked, overtaken>>

Versions == Values \cup {0}

\* seen is what the loader read, Null before it has; floor, history, is what
\* the query must see
Queries ==
    [key : Keys \cup {Null}, seen : Versions \cup {Null}, floor : Versions, loaded : BOOLEAN]

Writes == [key : Keys, version : Values]

QTypeOK ==
    /\ TypeOK
    /\ db \in [Keys -> Versions]
    /\ writing \in [Writers -> Writes \cup {Null}]
    /\ asked \in [Callers -> Queries]
    /\ acked \in [Keys -> Versions]
    /\ overtaken \subseteq Keys

QInit ==
    /\ Init
    /\ db = [k \in Keys |-> 0]
    /\ writing = [w \in Writers |-> Null]
    /\ asked = [c \in Callers |-> [key |-> Null, seen |-> Null, floor |-> 0, loaded |-> FALSE]]
    /\ acked = [k \in Keys |-> 0]
    /\ overtaken = {}

-----------------------------------------------------------------------------
(* fetch() *)

\* get_or_load() is called with the cache key of the query
Fetch(c, k) ==
    /\ Hit(c, k) \/ Miss(c, k) \/ TaskMiss(c, k)
    /\ asked' = [asked EXCEPT ![c] = [key |-> k, seen |-> Null, loaded |-> FALSE,
                                      floor |-> IF k \in overtaken THEN 0 ELSE acked[k]]]
    /\ UNCHANGED <<db, writing, acked, overtaken>>

\* _execute_db_read() gets the row; its answer is on the way
Read(c) ==
    /\ pc[c] \in {"load", "own"} /\ asked[c].seen = Null
    /\ asked' = [asked EXCEPT ![c].seen = db[asked[c].key], ![c].loaded = TRUE]
    /\ UNCHANGED <<vars, db, writing, acked, overtaken>>

\* No row is None, which is not cached and which fetch() raises on
Row(version) == IF version = 0 THEN Null ELSE version

LoadReturns(c) ==
    /\ asked[c].seen # Null
    /\ LoaderReturns(c, Row(asked[c].seen))
    /\ asked' = [asked EXCEPT ![c].seen = Null]
    /\ UNCHANGED <<db, writing, acked, overtaken>>

LoadRaises(c) ==
    /\ LoaderRaises(c)
    /\ asked' = [asked EXCEPT ![c].seen = Null]
    /\ UNCHANGED <<db, writing, acked, overtaken>>

\* fetch() checks the latency of a query that went to the database, last
SloBreached(c) ==
    /\ pc[c] = "idle" /\ asked[c].loaded /\ call[c].value # Null
    /\ call' = [call EXCEPT ![c] = [NoCall EXCEPT !.error = "error"]]
    /\ asked' = [asked EXCEPT ![c].loaded = FALSE]
    /\ UNCHANGED <<cache, flights, flight, pc, made, fills, db, writing, acked, overtaken>>

-----------------------------------------------------------------------------
(* mutate(), from its commit on *)

\* Loads that have read k and have not landed, and commands that have changed
\* it and not synchronized the cache
Busy(k) ==
    \/ \E c \in Callers :
          asked[c].key = k /\ (asked[c].seen # Null \/ pc[c] \in {"set", "finish", "pop"})
    \/ \E w \in Writers : writing[w] # Null /\ writing[w].key = k

Commit(w, k) ==
    /\ writing[w] = Null /\ db[k] + 1 \in Values
    /\ db' = [db EXCEPT ![k] = @ + 1]
    /\ writing' = [writing EXCEPT ![w] = [key |-> k, version |-> db[k] + 1]]
    /\ overtaken' = IF Busy(k) THEN overtaken \cup {k} ELSE overtaken
    /\ UNCHANGED <<vars, asked, acked>>

\* variant: the cache is hydrated only where it already held the aggregate, and
\* never evicted
SynchronizedLazily(w, how) ==
    IF cache[writing[w].key] = Null THEN cache
    ELSE [cache EXCEPT ![writing[w].key] = IF how = "evict" THEN @ ELSE writing[w].version]

\* _synchronize_cache()
Synchronized(w, how) ==
    [cache EXCEPT ![writing[w].key] = IF how = "evict" THEN Null ELSE writing[w].version]

\* The command returns to its caller, who may read at once
Synchronize(w, how) ==
    /\ writing[w] # Null
    /\ LET k == writing[w].key
           version == writing[w].version
       IN  /\ cache' = Synchronized(w, how)
           /\ fills' = [fills EXCEPT ![k] = IF how = "evict" THEN 0 ELSE @]
           /\ acked' = [acked EXCEPT ![k] = IF version > @ THEN version ELSE @]
    /\ writing' = [writing EXCEPT ![w] = Null]
    /\ UNCHANGED <<flights, flight, pc, call, made, db, asked, overtaken>>

\* The outbox or the cache raises, or the process dies: the commit stands, the
\* cache is left alone and nobody is told of the write
WriteFails(w) ==
    /\ writing[w] # Null
    /\ writing' = [writing EXCEPT ![w] = Null]
    /\ UNCHANGED <<vars, db, asked, acked, overtaken>>

-----------------------------------------------------------------------------

\* default_ttl_seconds are over, or the store evicts
Expire(k) ==
    /\ Vanish(k)
    /\ overtaken' = IF Busy(k) THEN overtaken ELSE overtaken \ {k}
    /\ UNCHANGED <<db, writing, asked, acked>>

QStep(c) ==
    /\ pc[c] # "idle"
    /\ \/ (Join(c) \/ Set(c) \/ Finish(c) \/ Pop(c) \/ Served(c) \/ Fallback(c)) /\ UNCHANGED dbvars
       \/ Read(c) \/ LoadReturns(c) \/ LoadRaises(c)

QFinished ==
    /\ Finished /\ \A w \in Writers : writing[w] = Null
    /\ UNCHANGED dbvars

QNext ==
    \/ \E c \in Callers :
          \/ \E k \in Keys : Fetch(c, k)
          \/ QStep(c) \/ SloBreached(c)
          \/ (FillTimeout(c) \/ Interrupted(c)) /\ UNCHANGED dbvars
    \/ \E w \in Writers :
          \/ \E k \in Keys : Commit(w, k)
          \/ \E how \in Syncs : Synchronize(w, how)
          \/ WriteFails(w)
    \/ \E k \in Keys : Expire(k)
    \/ QFinished

\* Runners are scheduled and loaders return.  Nothing is assumed of timeouts,
\* commands or expiry.
QFairness == \A c \in Callers : WF_allvars(QStep(c))

QSpec == QInit /\ [][QNext]_allvars /\ QFairness

-----------------------------------------------------------------------------
(* Properties *)

\* A query sees the last write that had returned when it began, wherever its
\* answer comes from: the cache, the flight it followed, a stale fallback or the
\* database.  Only a commit behind the back of a load under way, or of another
\* command, suspends this, and no longer than until the value it left in the
\* cache expires.
ReadAfterWrite ==
    \A c \in Callers :
        pc[c] = "idle" /\ call[c].value # Null => call[c].value >= asked[c].floor
=============================================================================
