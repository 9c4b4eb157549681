------------------------- MODULE QueryServiceProofs -------------------------
(***************************************************************************)
(* Theorems about the read path, for any threads, tasks, keys, versions    *)
(* and number of calls: of single flight by itself, of single flight among *)
(* commands that evict and hydrate, and of what a query reads.             *)
(***************************************************************************)
EXTENDS QueryService, FiniteSetTheorems, TLAPS

-----------------------------------------------------------------------------
(* Single flight *)

LeaderPlaces == {"load", "set", "finish", "pop"}

Leading(c) == pc[c] \in LeaderPlaces

LoaderErrors == Interruptions \cup {"error", "timeout", Null}

\* The flights a caller may lead or follow
FlightsOf(c) == {f \in FlightIds : f[1] = KindOf(c)}

\* What a caller's call may be at each place
Shaped(c, place, s) ==
    /\ place \in Places /\ s \in Calls
    /\ place \in {"idle", "join", "fallback", "own"} => s.flight = Null
    /\ place \in LeaderPlaces \cup {"wait"} => s.flight \in FlightsOf(c)
    /\ place # "idle" => s.key \in Keys
    /\ c \in Tasks => place \notin {"join", "set", "finish", "pop"}
    /\ place = "set" => s.value # Null
    /\ place \in LeaderPlaces => s.error \in LoaderErrors
    /\ place \in LeaderPlaces \cup {"idle"} /\ s.error = KeptBy(KindOf(c)) => s.struck
    /\ place = "idle" => s.error # "aborted"

CallsShaped == \A c \in Callers : Shaped(c, pc[c], call[c])

\* No flight hands on the interruption its kind of leader keeps
NoneInterrupts == \A f \in FlightIds : flight[f].error # KeptBy(f[1])

\* A filled key is in the cache, and a task that loads a key has it unfilled
FillsStay ==
    /\ \A k \in Keys : fills[k] > 0 => cache[k] # Null
    /\ \A c \in Tasks : pc[c] = "load" => fills[call[c].key] = 0

\* The invariant the steps preserve
Inv == FlightInv /\ CallsShaped /\ NoneInterrupts /\ FillsStay /\ OneFill

-----------------------------------------------------------------------------
(* Flights *)

LEMMA KindsOfFlights ==
    /\ Null \notin FlightIds
    /\ \A c \in Callers : KindOf(c) \in Kinds /\ FlightsOf(c) \subseteq FlightIds
    /\ \A kind : KeptBy(kind) \in Interruptions /\ KeptBy(kind) # "aborted" /\ KeptBy(kind) # Null
    /\ Null \notin Errors /\ "fill" # Null
  BY NullErrorAssumption DEF KindOf, Kinds, FlightsOf, KeptBy, Interruptions, Errors

\* A caller that holds no flight finds one of its kind that nobody holds.
LEMMA FreeFlightExists ==
    ASSUME TypeOK, NEW c \in Callers, call[c].flight = Null
    PROVE  /\ FreeFlight(KindOf(c)) \in FlightsOf(c)
           /\ \A d \in Callers : call[d].flight # FreeFlight(KindOf(c))
<1> DEFINE Others == Callers \ {c}
           Held == {call[d].flight : d \in Others}
           Numbers == 1..Cardinality(Callers)
           Mine == FlightsOf(c)
<1>1. IsFiniteSet(Callers) /\ Cardinality(Callers) \in Nat
  BY SingleFlightAssumption, FS_Union, FS_CardinalityType DEF Callers
<1>2. IsFiniteSet(Others) /\ Cardinality(Others) = Cardinality(Callers) - 1
  BY <1>1, FS_RemoveElement
<1>3. IsFiniteSet(Held) /\ Cardinality(Held) <= Cardinality(Others)
  <2> DEFINE M == [d \in Others |-> call[d].flight]
  <2>1. M \in Surjection(Others, Held)
    BY DEF Surjection
  <2> QED
    BY <1>2, <2>1, FS_Surjection DEF ExistsSurjection
<1>4. IsFiniteSet(Numbers) /\ Cardinality(Numbers) = Cardinality(Callers)
  BY <1>1, FS_Interval
<1>5. ~(Mine \subseteq Held)
  <2>1. SUFFICES ASSUME Mine \subseteq Held PROVE FALSE
    OBVIOUS
  <2>2. IsFiniteSet(Mine) /\ Cardinality(Mine) <= Cardinality(Held) /\ Cardinality(Held) \in Nat
    BY <1>3, <2>1, FS_Subset, FS_CardinalityType
  <2>3. Cardinality(Numbers) <= Cardinality(Mine)
    <3> DEFINE M == [f \in Mine |-> f[2]]
    <3>1. M \in [Mine -> Numbers]
      BY DEF FlightsOf, FlightIds
    <3>2. ASSUME NEW n \in Numbers PROVE \E f \in Mine : M[f] = n
      <4>1. <<KindOf(c), n>> \in Mine
        BY KindsOfFlights DEF FlightsOf, FlightIds
      <4>2. M[<<KindOf(c), n>>] = n
        BY <4>1
      <4> QED
        BY <4>1, <4>2
    <3>3. M \in Surjection(Mine, Numbers)
      BY <3>1, <3>2 DEF Surjection
    <3> QED
      BY <2>2, <3>3, FS_Surjection DEF ExistsSurjection
  <2>4. Cardinality(Others) \in Nat /\ Cardinality(Mine) \in Nat
    BY <1>2, <2>2, FS_CardinalityType
  <2> QED
    BY <1>1, <1>2, <1>3, <1>4, <2>2, <2>3, <2>4
<1>6. PICK f \in Mine : f \notin Held
  BY <1>5
<1>7. \A d \in Callers : call[d].flight # f
  BY <1>6, KindsOfFlights
<1>8. f \in FlightIds /\ f[1] = KindOf(c)
  BY <1>6 DEF FlightsOf
<1> QED
  BY <1>7, <1>8 DEF FreeFlight, FlightsOf

\* Flights that hand on no interruption their kind of leader keeps
Silent(objects) ==
    objects \in [FlightIds -> Flights] /\ \A f \in FlightIds : objects[f].error # KeptBy(f[1])

\* Flights stay well typed and silent when one nobody holds goes.
LEMMA WithoutSilent ==
    ASSUME NEW c \in Callers, NEW objects, Silent(objects)
    PROVE  Silent(Without(c, objects))
<1>1. NewFlight \in Flights /\ \A kind : NewFlight.error # KeptBy(kind)
  BY KindsOfFlights DEF NewFlight, Flights
<1> HIDE DEF NewFlight
<1> QED
  BY <1>1 DEF Without, Silent

\* Flights stay well typed and silent when a leader ends its own.
LEMMA EndedSilent ==
    ASSUME Silent(flight), NEW kind, NEW f \in FlightIds, f[1] = kind,
           NEW value \in Values \cup {Null}, NEW error \in LoaderErrors
    PROVE  Silent([flight EXCEPT ![f] = Ended(kind, value, error)])
<1> DEFINE e == Ended(kind, value, error)
<1>1. e \in Flights /\ e.error # KeptBy(kind)
  BY KindsOfFlights DEF Ended, Shared, Flights, Errors, LoaderErrors
<1> HIDE DEF e
<1>2. Silent([flight EXCEPT ![f] = e])
  BY <1>1 DEF Silent
<1> QED
  BY <1>2 DEF e

-----------------------------------------------------------------------------
(* A caller's step, by what it does to the table of flights *)

\* c goes to a place and its call becomes s.
Moves(c, place, s) ==
    /\ pc' = [pc EXCEPT ![c] = place]
    /\ call' = [call EXCEPT ![c] = s]
    /\ Shaped(c, place, s)

\* c leads, follows or does neither, as before
Stays(c, place, s) ==
    /\ flights' = flights
    /\ place \in LeaderPlaces <=> Leading(c)
    /\ Leading(c) => s.key = call[c].key /\ s.flight = call[c].flight

\* c enters its flight
Leads(c, place, s) ==
    /\ place = "load" /\ ~Leading(c)
    /\ flights[<<KindOf(c), s.key>>] = Null
    /\ flights' = [flights EXCEPT ![<<KindOf(c), s.key>>] = s.flight]

\* c takes its flight off the table
Lands(c, place, s) ==
    /\ place = "idle" /\ Leading(c)
    /\ flights' = Landed(c)

\* c's step, and everyone else's place and call
LEMMA OthersStay ==
    ASSUME TypeOK, NEW c \in Callers, NEW place, NEW s, Moves(c, place, s)
    PROVE  /\ pc'[c] = place /\ call'[c] = s
           /\ \A d \in Callers \ {c} : pc'[d] = pc[d] /\ call'[d] = call[d]
           /\ pc' \in [Callers -> Places] /\ call' \in [Callers -> Calls]
  BY DEF Moves, TypeOK, Shaped

LEMMA ShapesKept ==
    ASSUME TypeOK, CallsShaped, NEW c \in Callers, NEW place, NEW s, Moves(c, place, s)
    PROVE  CallsShaped'
<1>1. SUFFICES ASSUME NEW d \in Callers PROVE Shaped(d, pc'[d], call'[d])
  BY DEF CallsShaped, Shaped, Calls
<1>2. CASE d = c
  BY <1>2, OthersStay DEF Moves
<1>3. CASE d # c
  BY <1>3, OthersStay DEF CallsShaped
<1> QED
  BY <1>2, <1>3

\* The table names each flight that has a leader, whichever way c goes.
LEMMA TableKept ==
    ASSUME TypeOK, CallsShaped, FlightsLed, NEW c \in Callers, NEW place, NEW s,
           Moves(c, place, s),
           Stays(c, place, s) \/ Leads(c, place, s) \/ Lands(c, place, s)
    PROVE  /\ flights' \in [Kinds \X Keys -> FlightIds \cup {Null}]
           /\ FlightsLed'
<1>1. /\ pc'[c] = place /\ call'[c] = s
      /\ \A d \in Callers \ {c} : pc'[d] = pc[d] /\ call'[d] = call[d]
  BY OthersStay
<1>2. \A d \in Callers :
        Leading(d) => Entry(d) \in Kinds \X Keys /\ flights[Entry(d)] = call[d].flight
  BY DEF Leading, LeaderPlaces, FlightsLed, CallsShaped, Shaped, Entry, KindOf, Kinds
<1>3. \A d \in Callers \ {c} : Entry(d)' = Entry(d) /\ Leading(d)' = Leading(d)
  BY <1>1 DEF Entry, Leading
<1>4. /\ Entry(c)' = <<KindOf(c), s.key>>
      /\ Leading(c)' = (place \in LeaderPlaces)
  BY <1>1 DEF Entry, Leading
<1>5. \A d, e \in Callers : Leading(d) /\ Leading(e) /\ Entry(d) = Entry(e) => d = e
  BY DEF Leading, LeaderPlaces, FlightsLed
<1>6. \A e \in Kinds \X Keys :
        flights[e] # Null =>
           \E d \in Callers : Leading(d) /\ Entry(d) = e /\ call[d].flight = flights[e]
  BY DEF Leading, LeaderPlaces, FlightsLed, Leaders, TypeOK
<1>7. \A d \in Callers : Leading(d) => call[d].flight \in FlightIds /\ call[d].flight # Null
  BY KindsOfFlights DEF Leading, CallsShaped, Shaped
<1>8. SUFFICES /\ flights' \in [Kinds \X Keys -> FlightIds \cup {Null}]
               /\ \A e \in Kinds \X Keys :
                     flights'[e] # Null =>
                        \E d \in Callers :
                           Leading(d)' /\ Entry(d)' = e /\ call'[d].flight = flights'[e]
               /\ \A d, e \in Callers :
                     Leading(d)' /\ Leading(e)' /\ Entry(d)' = Entry(e)' => d = e
               /\ \A d \in Callers : Leading(d)' => flights'[Entry(d)'] = call'[d].flight
  BY DEF FlightsLed, Leaders, Leading, LeaderPlaces
<1>9. CASE Stays(c, place, s)
  <2>1. Leading(c)' = Leading(c) /\ (Leading(c) => Entry(c)' = Entry(c))
    BY <1>4, <1>9 DEF Stays, Entry, Leading
  <2>2. \A d \in Callers : Leading(d) => call'[d].flight = call[d].flight
    BY <1>1, <1>9 DEF Stays
  <2>3. \A d \in Callers : Leading(d)' = Leading(d) /\ (Leading(d) => Entry(d)' = Entry(d))
    BY <1>3, <2>1
  <2>4. flights' = flights /\ flights \in [Kinds \X Keys -> FlightIds \cup {Null}]
    BY <1>9 DEF Stays, TypeOK
  <2> QED
    BY <1>2, <1>5, <1>6, <2>2, <2>3, <2>4, Zenon
<1>10. CASE Leads(c, place, s)
  <2> DEFINE own == <<KindOf(c), s.key>>
  <2>1. own \in Kinds \X Keys /\ s.flight \in FlightIds
    BY <1>10, KindsOfFlights DEF Leads, Moves, Shaped, LeaderPlaces
  <2>2. flights' \in [Kinds \X Keys -> FlightIds \cup {Null}]
    BY <1>10, <2>1 DEF Leads, TypeOK
  <2>3. flights'[own] = s.flight /\ \A e \in (Kinds \X Keys) \ {own} : flights'[e] = flights[e]
    BY <1>10, <2>1 DEF Leads, TypeOK
  <2>4. Leading(c)' /\ ~Leading(c) /\ Entry(c)' = own
    BY <1>4, <1>10 DEF Leads, LeaderPlaces
  <2>5. \A d \in Callers : Leading(d) => d # c /\ Entry(d) # own
    BY <1>2, <1>7, <1>10, <2>4 DEF Leads
  <2>6. \A d \in Callers \ {c} : Leading(d)' => Leading(d) /\ Entry(d)' # own
    BY <1>3, <2>5
  <2> HIDE DEF own
  <2>7. ASSUME NEW e \in Kinds \X Keys, flights'[e] # Null
        PROVE  \E d \in Callers : Leading(d)' /\ Entry(d)' = e /\ call'[d].flight = flights'[e]
    <3>1. CASE e = own
      BY <1>1, <2>3, <2>4, <3>1
    <3>2. CASE e # own
      <4>1. flights'[e] = flights[e]
        BY <2>3, <3>2
      <4>2. PICK d \in Callers : Leading(d) /\ Entry(d) = e /\ call[d].flight = flights[e]
        BY <1>6, <2>7, <4>1
      <4> QED
        BY <1>1, <1>3, <2>5, <4>1, <4>2
    <3> QED
      BY <3>1, <3>2
  <2>8. ASSUME NEW d \in Callers, NEW e \in Callers,
               Leading(d)', Leading(e)', Entry(d)' = Entry(e)'
        PROVE  d = e
    BY <1>3, <1>5, <2>4, <2>6, <2>8
  <2>9. ASSUME NEW d \in Callers, Leading(d)'
        PROVE  flights'[Entry(d)'] = call'[d].flight
    <3>1. CASE d = c
      BY <1>1, <2>3, <2>4, <3>1
    <3>2. CASE d # c
      BY <1>1, <1>2, <1>3, <2>3, <2>6, <2>9, <3>2
    <3> QED
      BY <3>1, <3>2
  <2> QED
    BY <2>2, <2>7, <2>8, <2>9
<1>11. CASE Lands(c, place, s)
  <2>1. Leading(c) /\ Entry(c) \in Kinds \X Keys /\ ~Leading(c)'
    BY <1>2, <1>4, <1>11 DEF Lands, LeaderPlaces
  <2>2. flights' \in [Kinds \X Keys -> FlightIds \cup {Null}]
    BY <1>11, <2>1 DEF Lands, Landed, TypeOK
  <2>3. /\ flights'[Entry(c)] = Null
        /\ \A e \in (Kinds \X Keys) \ {Entry(c)} : flights'[e] = flights[e]
    BY <1>11, <2>1 DEF Lands, Landed, TypeOK
  <2>4. \A d \in Callers : Leading(d)' => d # c /\ Leading(d) /\ Entry(d) # Entry(c)
    BY <1>3, <1>5, <2>1
  <2>5. ASSUME NEW e \in Kinds \X Keys, flights'[e] # Null
        PROVE  \E d \in Callers : Leading(d)' /\ Entry(d)' = e /\ call'[d].flight = flights'[e]
    <3>1. e # Entry(c) /\ flights'[e] = flights[e]
      BY <2>3, <2>5
    <3>2. PICK d \in Callers : Leading(d) /\ Entry(d) = e /\ call[d].flight = flights[e]
      BY <1>6, <2>5, <3>1
    <3> QED
      BY <1>1, <1>3, <3>1, <3>2
  <2>6. ASSUME NEW d \in Callers, NEW e \in Callers,
               Leading(d)', Leading(e)', Entry(d)' = Entry(e)'
        PROVE  d = e
    BY <1>3, <1>5, <2>4, <2>6
  <2>7. ASSUME NEW d \in Callers, Leading(d)'
        PROVE  flights'[Entry(d)'] = call'[d].flight
    BY <1>1, <1>2, <1>3, <2>3, <2>4, <2>7
  <2> QED
    BY <2>2, <2>5, <2>6, <2>7
<1> QED
  BY <1>9, <1>10, <1>11
\* A step that leaves the cache and the fills alone
LEMMA FillsKept ==
    ASSUME Inv, NEW c \in Callers, NEW place, NEW s, Moves(c, place, s),
           cache' = cache, fills' = fills,
           c \in Tasks /\ place = "load" => fills[s.key] = 0
    PROVE  FillsStay' /\ OneFill'
<1>1. \A d \in Tasks : pc'[d] = "load" => fills[call'[d].key] = 0
  <2>1. TypeOK
    BY DEF Inv, FlightInv
  <2> QED
    BY <2>1, OthersStay DEF Inv, FillsStay, Callers
<1> QED
  BY <1>1 DEF Inv, FillsStay, OneFill

\* A step of c with all it must see to
LEMMA MovesKeep ==
    ASSUME Inv, NEW c \in Callers, NEW place, NEW s, Moves(c, place, s),
           Stays(c, place, s) \/ Leads(c, place, s) \/ Lands(c, place, s),
           flight' \in [FlightIds -> Flights], NoneInterrupts',
           cache' \in [Keys -> Values \cup {Null}], fills' \in [Keys -> Nat],
           FillsStay', OneFill', made' \in Nat
    PROVE  Inv'
<1>1. TypeOK /\ FlightsLed /\ CallsShaped
  BY DEF Inv, FlightInv
<1>2. CallsShaped' /\ FlightsLed'
  BY <1>1, ShapesKept, TableKept
<1>3. TypeOK'
  BY <1>1, OthersStay, TableKept DEF TypeOK
<1> QED
  BY <1>2, <1>3 DEF Inv, FlightInv

\* A step of c that leaves the cache alone and reads the flights, or drops those
\* that c alone held
LEMMA ReadingMoves ==
    ASSUME Inv, NEW c \in Callers, NEW place, NEW s, Moves(c, place, s),
           Stays(c, place, s) \/ Leads(c, place, s) \/ Lands(c, place, s),
           flight' = flight \/ flight' = Without(c, flight),
           cache' = cache, fills' = fills,
           c \in Tasks /\ place = "load" => fills[s.key] = 0,
           made' \in Nat
    PROVE  Inv'
<1>1. TypeOK /\ Silent(flight)
  BY DEF Inv, FlightInv, TypeOK, NoneInterrupts, Silent
<1>2. flight' \in [FlightIds -> Flights] /\ NoneInterrupts'
  BY <1>1, WithoutSilent DEF NoneInterrupts, Silent
<1>3. cache' \in [Keys -> Values \cup {Null}] /\ fills' \in [Keys -> Nat]
  BY <1>1 DEF TypeOK
<1> QED
  BY <1>2, <1>3, FillsKept, MovesKeep

\* The place and the call of a caller whose call returns
LEMMA ReturnMoves ==
    ASSUME Inv, NEW c \in Callers,
           NEW value \in Values \cup {Null}, NEW error \in Errors \cup {"fill", Null},
           NEW struck \in BOOLEAN,
           Return(c, value, error, struck), error # "aborted",
           error = KeptBy(KindOf(c)) => struck
    PROVE  \E s : Moves(c, "idle", s)
<1> DEFINE s == [NoCall EXCEPT !.value = value, !.error = error, !.struck = struck]
<1>1. /\ s \in Calls /\ s.flight = Null /\ s.error = error /\ s.struck = struck
  BY DEF Calls, NoCall
<1>2. pc' = [pc EXCEPT ![c] = "idle"] /\ call' = [call EXCEPT ![c] = s]
  BY DEF Return, Goto
<1> HIDE DEF s
<1>3. Shaped(c, "idle", s)
  BY <1>1 DEF Shaped, Places, LeaderPlaces
<1> QED
  BY <1>2, <1>3 DEF Moves

\* A call that returns: a leader's lands its flight.
LEMMA ReturnKeeps ==
    ASSUME Inv, NEW c \in Callers,
           NEW value \in Values \cup {Null}, NEW error \in Errors \cup {"fill", Null},
           NEW struck \in BOOLEAN,
           Return(c, value, error, struck), error # "aborted",
           error = KeptBy(KindOf(c)) => struck,
           (Leading(c) /\ flights' = Landed(c)) \/ (~Leading(c) /\ flights' = flights),
           flight' = flight \/ flight' = Without(c, flight),
           cache' = cache, fills' = fills, made' \in Nat
    PROVE  Inv'
<1>1. PICK s : Moves(c, "idle", s)
  BY ReturnMoves
<1>2. Stays(c, "idle", s) \/ Lands(c, "idle", s)
  BY DEF Stays, Lands, LeaderPlaces
<1> QED
  BY <1>1, <1>2, ReadingMoves

-----------------------------------------------------------------------------
(* Looking up, leading and following *)

LEMMA HitKeeps == ASSUME Inv, NEW c \in Callers, NEW k \in Keys, Hit(c, k) PROVE Inv'
<1>1. cache[k] \in Values \cup {Null} /\ made + 1 \in Nat /\ ~Leading(c)
  BY DEF Inv, FlightInv, TypeOK, Hit, Leading, LeaderPlaces
<1>2. Null # "aborted" /\ Null # KeptBy(KindOf(c))
  BY KindsOfFlights DEF Errors
<1>3. Return(c, cache[k], Null, FALSE) /\ made' \in Nat
  BY <1>1 DEF Hit
<1> QED
  BY <1>1, <1>2, <1>3, ReturnKeeps DEF Hit

LEMMA MissKeeps == ASSUME Inv, NEW c \in Callers, NEW k \in Keys, Miss(c, k) PROVE Inv'
<1> DEFINE s == [NoCall EXCEPT !.key = k]
<1>1. /\ s \in Calls /\ s.key = k /\ s.flight = Null
  BY DEF Calls, NoCall
<1>2. pc' = [pc EXCEPT ![c] = "join"] /\ call' = [call EXCEPT ![c] = s]
  BY DEF Miss, Goto
<1>3. c \notin Tasks /\ made' \in Nat /\ pc[c] = "idle" /\ flights' = flights
  BY SingleFlightAssumption DEF Miss, Inv, FlightInv, TypeOK
<1> HIDE DEF s
<1>4. Moves(c, "join", s) /\ Stays(c, "join", s)
  BY <1>1, <1>2, <1>3 DEF Moves, Shaped, Places, LeaderPlaces, Stays, Leading
<1> QED
  BY <1>3, <1>4, ReadingMoves DEF Miss

\* A caller at the table, which leads or follows
LEMMA AtTheTable ==
    ASSUME Inv, NEW c \in Callers, NEW k \in Keys, pc[c] \in {"idle", "join"},
           Lead(c, k) \/ Follow(c, k),
           cache' = cache, fills' = fills, made' \in Nat,
           c \in Tasks => fills[k] = 0
    PROVE  Inv'
<1>1. TypeOK /\ call[c].flight = Null /\ ~Leading(c)
  BY DEF Inv, FlightInv, CallsShaped, Shaped, Leading, LeaderPlaces
<1>2. Null \in LoaderErrors /\ Null # KeptBy(KindOf(c))
  BY KindsOfFlights DEF LoaderErrors
<1>3. CASE Lead(c, k)
  <2> DEFINE s == [NoCall EXCEPT !.key = k, !.flight = FreeFlight(KindOf(c))]
  <2>1. FreeFlight(KindOf(c)) \in FlightsOf(c) /\ FreeFlight(KindOf(c)) \in FlightIds
    BY <1>1, FreeFlightExists, KindsOfFlights
  <2>2. s \in Calls /\ s.key = k /\ s.flight = FreeFlight(KindOf(c)) /\ s.error = Null
    BY <2>1 DEF Calls, NoCall
  <2>3. pc' = [pc EXCEPT ![c] = "load"] /\ call' = [call EXCEPT ![c] = s]
    BY <1>3 DEF Lead, Goto
  <2> HIDE DEF s
  <2>4. Shaped(c, "load", s)
    BY <1>2, <2>1, <2>2 DEF Shaped, Places, LeaderPlaces, LoaderErrors
  <2>5. Moves(c, "load", s)
    BY <2>3, <2>4 DEF Moves
  <2>6. Leads(c, "load", s) /\ flight' = flight
    BY <1>1, <1>3, <2>2 DEF Lead, Leads
  <2> QED
    BY <2>2, <2>5, <2>6, ReadingMoves
<1>4. CASE Follow(c, k)
  <2> DEFINE f == flights[<<KindOf(c), k>>]
             s == [NoCall EXCEPT !.key = k, !.flight = f]
  <2>1. f \in FlightsOf(c) /\ f \in FlightIds
    <3>1. f \in FlightIds /\ <<KindOf(c), k>> \in Kinds \X Keys /\ f # Null
      BY <1>1, <1>4, KindsOfFlights DEF Follow, TypeOK
    <3>2. PICK d \in Callers : Leading(d) /\ call[d].flight = f /\ Entry(d) = <<KindOf(c), k>>
      BY <1>1, <3>1 DEF Inv, FlightInv, TypeOK, FlightsLed, Leaders, Leading, LeaderPlaces
    <3>3. call[d].flight \in FlightsOf(d) /\ KindOf(d) = KindOf(c)
      BY <3>2 DEF Inv, CallsShaped, Shaped, Leading, Entry
    <3> QED
      BY <3>1, <3>2, <3>3 DEF FlightsOf
  <2>2. s \in Calls /\ s.key = k /\ s.flight = f
    BY <2>1 DEF Calls, NoCall
  <2>3. pc' = [pc EXCEPT ![c] = "wait"] /\ call' = [call EXCEPT ![c] = s]
    BY <1>4 DEF Follow, Goto
  <2> HIDE DEF s, f
  <2>4. Shaped(c, "wait", s)
    BY <2>1, <2>2 DEF Shaped, Places, LeaderPlaces
  <2>5. Moves(c, "wait", s)
    BY <2>3, <2>4 DEF Moves
  <2>6. Stays(c, "wait", s) /\ flight' = flight
    BY <1>1, <1>4 DEF Follow, Stays, LeaderPlaces
  <2> QED
    BY <2>5, <2>6, ReadingMoves
<1> QED
  BY <1>3, <1>4

LEMMA JoinKeeps == ASSUME Inv, NEW c \in Callers, Join(c) PROVE Inv'
<1>1. c \notin Tasks /\ call[c].key \in Keys /\ made \in Nat
  BY DEF Inv, FlightInv, TypeOK, CallsShaped, Shaped, Join
<1> QED
  BY <1>1, AtTheTable DEF Join

LEMMA TaskMissKeeps == ASSUME Inv, NEW c \in Callers, NEW k \in Keys, TaskMiss(c, k) PROVE Inv'
<1>1. fills[k] = 0
  BY DEF Inv, FlightInv, TypeOK, FillsStay, TaskMiss, Missed
<1>2. made' \in Nat
  BY DEF Inv, FlightInv, TypeOK, TaskMiss
<1> QED
  BY <1>1, <1>2, AtTheTable DEF TaskMiss
-----------------------------------------------------------------------------
(* The leader *)

\* A leader's step from one of its places to another
LEMMA LeaderMoves ==
    ASSUME Inv, NEW c \in Callers, NEW place \in LeaderPlaces,
           c \notin Tasks, Leading(c), Goto(c, place), flights' = flights,
           NEW s \in Calls, call' = [call EXCEPT ![c] = s],
           s.key = call[c].key, s.flight = call[c].flight, s.error \in LoaderErrors,
           place = "set" => s.value # Null, s.error = KeptBy(KindOf(c)) => s.struck
    PROVE  Moves(c, place, s) /\ Stays(c, place, s)
<1>1. Shaped(c, pc[c], call[c]) /\ pc[c] \in LeaderPlaces
  BY DEF Inv, CallsShaped, Leading
<1>2. call[c].flight \in FlightsOf(c) /\ call[c].key \in Keys
  BY <1>1 DEF Shaped, LeaderPlaces
<1>3. Shaped(c, place, s)
  BY <1>2 DEF Shaped, Places, LeaderPlaces
<1> QED
  BY <1>3 DEF Moves, Goto, Stays

\* What a leader's call is
LEMMA LeaderCall ==
    ASSUME Inv, NEW c \in Callers, Leading(c)
    PROVE  /\ call[c] \in Calls /\ call = [call EXCEPT ![c] = call[c]]
           /\ call[c].value \in Values \cup {Null} /\ call[c].error \in LoaderErrors
           /\ call[c].struck \in BOOLEAN /\ (call[c].error = KeptBy(KindOf(c)) => call[c].struck)
           /\ call[c].key \in Keys /\ call[c].flight \in FlightsOf(c)
           /\ call[c].flight \in FlightIds
           /\ (pc[c] = "set" => call[c].value # Null)
<1>1. Shaped(c, pc[c], call[c]) /\ pc[c] \in LeaderPlaces /\ call \in [Callers -> Calls]
  BY DEF Inv, FlightInv, TypeOK, CallsShaped, Leading
<1>2. call = [call EXCEPT ![c] = call[c]]
  BY <1>1
<1> QED
  BY <1>1, <1>2, KindsOfFlights DEF Shaped, LeaderPlaces, Calls

LEMMA ThreadLoadsKeeps ==
    ASSUME Inv, NEW c \in Callers, NEW value \in Values \cup {Null}, ThreadLoads(c, value)
    PROVE  Inv'
<1> DEFINE place == IF value = Null THEN "finish" ELSE "set"
           s == [call[c] EXCEPT !.value = value]
<1>1. /\ Leading(c) /\ c \notin Tasks /\ place \in LeaderPlaces /\ Goto(c, place)
      /\ (place = "set" => value # Null) /\ place # "load" /\ flights' = flights
  BY SingleFlightAssumption DEF ThreadLoads, Leading, LeaderPlaces
<1>2. /\ s \in Calls /\ s.key = call[c].key /\ s.flight = call[c].flight
      /\ s.value = value /\ s.error = call[c].error /\ s.struck = call[c].struck
  BY <1>1, LeaderCall DEF Calls
<1>3. call' = [call EXCEPT ![c] = s] /\ made' \in Nat
  BY DEF ThreadLoads, Inv, FlightInv, TypeOK
<1> HIDE DEF place, s
<1>4. Moves(c, place, s) /\ Stays(c, place, s)
  BY <1>1, <1>2, <1>3, LeaderCall, LeaderMoves
<1> QED
  BY <1>1, <1>3, <1>4, ReadingMoves DEF ThreadLoads

LEMMA ThreadRaisesKeeps ==
    ASSUME Inv, NEW c \in Callers, NEW error \in LoaderErrors \ {Null}, ThreadRaises(c, error)
    PROVE  Inv'
<1> DEFINE s == [call[c] EXCEPT !.value = Null, !.error = error,
                                !.struck = (error \in Interruptions)]
<1>1. /\ Leading(c) /\ c \notin Tasks /\ "finish" \in LeaderPlaces /\ Goto(c, "finish")
      /\ flights' = flights
  BY SingleFlightAssumption DEF ThreadRaises, Leading, LeaderPlaces
<1>2. error \in Errors \cup {"fill", Null} /\ (error \in Interruptions) \in BOOLEAN
  BY DEF LoaderErrors, Errors
<1>3. /\ s \in Calls /\ s.key = call[c].key /\ s.flight = call[c].flight
      /\ s.error = error /\ (error = KeptBy(KindOf(c)) => s.struck)
  BY <1>1, <1>2, LeaderCall, KindsOfFlights DEF Calls
<1>4. call' = [call EXCEPT ![c] = s] /\ made' \in Nat
  BY DEF ThreadRaises, Inv, FlightInv, TypeOK
<1> HIDE DEF s
<1>5. Moves(c, "finish", s) /\ Stays(c, "finish", s)
  BY <1>1, <1>3, <1>4, LeaderMoves
<1> QED
  BY <1>1, <1>4, <1>5, ReadingMoves DEF ThreadRaises

LEMMA SetKeeps == ASSUME Inv, NEW c \in Callers, Set(c) PROVE Inv'
<1>1. /\ Leading(c) /\ "finish" \in LeaderPlaces /\ Goto(c, "finish") /\ call' = call
      /\ flights' = flights /\ flight' = flight /\ fills' = fills /\ made' = made
      /\ cache' = [cache EXCEPT ![call[c].key] = call[c].value] /\ pc[c] = "set"
  BY DEF Set, Leading, LeaderPlaces
<1>2. c \notin Tasks
  BY <1>1 DEF Inv, CallsShaped, Shaped
<1>3. call[c].value \in Values /\ call[c].key \in Keys
  BY <1>1, LeaderCall
<1>4. Moves(c, "finish", call[c]) /\ Stays(c, "finish", call[c])
  BY <1>1, <1>2, LeaderCall, LeaderMoves
<1>6. TypeOK /\ NoneInterrupts
  BY DEF Inv, FlightInv
<1>7. /\ cache' \in [Keys -> Values \cup {Null}] /\ fills' \in [Keys -> Nat]
      /\ made' \in Nat /\ flight' \in [FlightIds -> Flights] /\ NoneInterrupts'
  BY <1>1, <1>3, <1>6 DEF TypeOK, NoneInterrupts
<1>8. \A k \in Keys : fills'[k] > 0 => cache'[k] # Null
  BY <1>1, <1>3, <1>6, SingleFlightAssumption DEF Inv, FillsStay, TypeOK
<1>9. \A d \in Tasks : pc'[d] = "load" => fills'[call'[d].key] = 0
  BY <1>1, <1>2, <1>6 DEF Inv, FillsStay, Goto, TypeOK, Callers
<1>10. FillsStay' /\ OneFill'
  BY <1>1, <1>8, <1>9 DEF FillsStay, OneFill, Inv
<1> QED
  BY <1>4, <1>7, <1>10, MovesKeep

LEMMA FinishKeeps == ASSUME Inv, NEW c \in Callers, Finish(c) PROVE Inv'
<1>1. /\ Leading(c) /\ "pop" \in LeaderPlaces /\ Goto(c, "pop") /\ call' = call
      /\ flights' = flights /\ cache' = cache /\ fills' = fills /\ made' = made
      /\ flight' = [flight EXCEPT ![call[c].flight] = Ended(KindOf(c), call[c].value, call[c].error)]
      /\ pc[c] = "finish"
  BY DEF Finish, Leading, LeaderPlaces
<1>2. c \notin Tasks
  BY <1>1 DEF Inv, CallsShaped, Shaped
<1>3. Moves(c, "pop", call[c]) /\ Stays(c, "pop", call[c])
  BY <1>1, <1>2, LeaderCall, LeaderMoves
<1>5. TypeOK /\ Silent(flight)
  BY DEF Inv, FlightInv, TypeOK, NoneInterrupts, Silent
<1>6. flight' \in [FlightIds -> Flights] /\ NoneInterrupts'
  <2> DEFINE value == call[c].value
             error == call[c].error
  <2>1. /\ call[c].flight \in FlightIds /\ call[c].flight[1] = KindOf(c)
        /\ value \in Values \cup {Null} /\ error \in LoaderErrors
    BY <1>1, LeaderCall DEF FlightsOf
  <2>2. flight' = [flight EXCEPT ![call[c].flight] = Ended(KindOf(c), value, error)]
    BY <1>1
  <2> HIDE DEF value, error
  <2>3. Silent(flight')
    BY <1>5, <2>1, <2>2, EndedSilent
  <2> QED
    BY <2>3 DEF NoneInterrupts, Silent
<1>7. /\ cache' \in [Keys -> Values \cup {Null}] /\ fills' \in [Keys -> Nat] /\ made' \in Nat
  BY <1>1, <1>5 DEF TypeOK
<1>8. FillsStay' /\ OneFill'
  BY <1>1, <1>2, <1>3, FillsKept
<1> QED
  BY <1>3, <1>6, <1>7, <1>8, MovesKeep

LEMMA PopKeeps == ASSUME Inv, NEW c \in Callers, Pop(c) PROVE Inv'
<1> DEFINE value == call[c].value
           error == call[c].error
           struck == call[c].struck
<1>1. /\ Leading(c) /\ flights' = Landed(c) /\ flight' = Without(c, flight)
      /\ cache' = cache /\ fills' = fills /\ made' = made
      /\ Return(c, value, error, struck)
  BY DEF Pop, Leading, LeaderPlaces
<1>2. /\ value \in Values \cup {Null} /\ error \in LoaderErrors
      /\ struck \in BOOLEAN /\ (error = KeptBy(KindOf(c)) => struck)
  BY <1>1, LeaderCall
<1> HIDE DEF value, error, struck
<1>3. error \in Errors \cup {"fill", Null} /\ error # "aborted"
  BY <1>2, KindsOfFlights DEF LoaderErrors, Errors, Interruptions
<1>4. made' \in Nat
  BY <1>1 DEF Inv, FlightInv, TypeOK
<1> QED
  BY <1>1, <1>2, <1>3, <1>4, ReturnKeeps

\* A task that loads
LEMMA TaskLoading ==
    ASSUME Inv, NEW c \in Tasks, pc[c] = "load"
    PROVE  /\ c \in Callers /\ Leading(c) /\ c \notin Threads
           /\ call[c].key \in Keys /\ call[c].flight \in FlightIds
           /\ call[c].flight[1] = "task" /\ fills[call[c].key] = 0
<1>1. c \in Callers /\ Leading(c) /\ c \notin Threads
  BY SingleFlightAssumption DEF Callers, Leading, LeaderPlaces
<1> QED
  BY <1>1, LeaderCall DEF Inv, FillsStay, FlightsOf, KindOf

LEMMA TaskFillsKeeps ==
    ASSUME Inv, NEW c \in Callers, NEW value \in Values, TaskFills(c, value)
    PROVE  Inv'
<1> DEFINE k == call[c].key
           f == call[c].flight
           after == [flight EXCEPT ![f] = Ended("task", value, Null)]
<1>1. /\ c \in Tasks /\ pc[c] = "load" /\ flights' = Landed(c)
      /\ flight' = Without(c, after) /\ made' = made
      /\ cache' = [cache EXCEPT ![k] = value] /\ fills' = [fills EXCEPT ![k] = @ + 1]
      /\ Return(c, value, Null, FALSE)
  BY DEF TaskFills
<1>2. /\ Leading(c) /\ k \in Keys /\ f \in FlightIds /\ f[1] = "task" /\ fills[k] = 0
  BY <1>1, TaskLoading
<1> HIDE DEF k, f
<1>3. /\ Null \in Errors \cup {"fill", Null} /\ Null # "aborted" /\ Null # KeptBy(KindOf(c))
      /\ Null \in LoaderErrors /\ value # Null /\ value \in Values \cup {Null}
  BY KindsOfFlights, SingleFlightAssumption DEF Errors, LoaderErrors
<1>4. TypeOK /\ Silent(flight)
  BY DEF Inv, FlightInv, TypeOK, NoneInterrupts, Silent
<1>5. Silent(after)
  BY <1>2, <1>3, <1>4, EndedSilent
<1> HIDE DEF after
<1>6. flight' \in [FlightIds -> Flights] /\ NoneInterrupts'
  BY <1>1, <1>5, WithoutSilent DEF Silent, NoneInterrupts
<1>7. PICK s : Moves(c, "idle", s)
  BY <1>1, <1>3, ReturnMoves
<1>8. Lands(c, "idle", s)
  BY <1>1, <1>2 DEF Lands
<1>9. /\ cache' \in [Keys -> Values \cup {Null}] /\ fills' \in [Keys -> Nat] /\ made' \in Nat
  BY <1>1, <1>2, <1>3, <1>4 DEF TypeOK
<1>10. \A j \in Keys : fills'[j] <= 1 /\ (fills'[j] > 0 => cache'[j] # Null)
  BY <1>1, <1>2, <1>3, <1>4 DEF Inv, FillsStay, OneFill, TypeOK
<1>11. \A d \in Tasks : pc'[d] = "load" => fills'[call'[d].key] = 0
  <2>1. ASSUME NEW d \in Tasks, pc'[d] = "load" PROVE fills'[call'[d].key] = 0
    <3>1. d \in Callers /\ d # c
      BY <1>4, <1>7, <2>1, OthersStay DEF Callers
    <3>2. pc[d] = "load" /\ call'[d] = call[d]
      BY <1>4, <1>7, <2>1, <3>1, OthersStay
    <3>3. /\ Leading(d) /\ d \notin Threads
          /\ call[d].key \in Keys /\ fills[call[d].key] = 0
      BY <3>2, TaskLoading
    <3>4. c \notin Threads
      BY <1>1, TaskLoading
    <3>5. call[d].key # k
      BY <1>2, <3>1, <3>3, <3>4 DEF Inv, FlightInv, FlightsLed, Leading, LeaderPlaces,
         Entry, KindOf, k
    <3> QED
      BY <1>1, <1>2, <1>4, <3>2, <3>3, <3>5 DEF TypeOK
  <2> QED
    BY <2>1
<1>12. FillsStay' /\ OneFill'
  BY <1>10, <1>11 DEF FillsStay, OneFill
<1> QED
  BY <1>6, <1>7, <1>8, <1>9, <1>12, MovesKeep

LEMMA TaskEndsKeeps ==
    ASSUME Inv, NEW c \in Callers, NEW error \in LoaderErrors, TaskEnds(c, error)
    PROVE  Inv'
<1> DEFINE f == call[c].flight
           after == [flight EXCEPT ![f] = Ended("task", Null, error)]
           struck == (error \in Interruptions)
<1>1. /\ c \in Tasks /\ pc[c] = "load" /\ flights' = Landed(c)
      /\ flight' = Without(c, after)
      /\ cache' = cache /\ fills' = fills /\ made' = made
      /\ Return(c, Null, error, struck)
  BY DEF TaskEnds
<1>2. Leading(c) /\ f \in FlightIds /\ f[1] = "task"
  BY <1>1, TaskLoading
<1>3. struck \in BOOLEAN /\ (error = KeptBy(KindOf(c)) => struck)
  BY KindsOfFlights
<1> HIDE DEF f, struck
<1>4. /\ error \in Errors \cup {"fill", Null} /\ error # "aborted"
      /\ Null \in Values \cup {Null}
  BY KindsOfFlights DEF Errors, LoaderErrors, Interruptions
<1>5. TypeOK /\ Silent(flight)
  BY DEF Inv, FlightInv, TypeOK, NoneInterrupts, Silent
<1>6. Silent(after)
  BY <1>2, <1>4, <1>5, EndedSilent
<1> HIDE DEF after
<1>7. flight' \in [FlightIds -> Flights] /\ NoneInterrupts'
  BY <1>1, <1>6, WithoutSilent DEF Silent, NoneInterrupts
<1>8. PICK s : Moves(c, "idle", s)
  BY <1>1, <1>3, <1>4, ReturnMoves
<1>9. Lands(c, "idle", s)
  BY <1>1, <1>2 DEF Lands
<1>10. /\ cache' \in [Keys -> Values \cup {Null}] /\ fills' \in [Keys -> Nat] /\ made' \in Nat
  BY <1>1, <1>5 DEF TypeOK
<1>11. FillsStay' /\ OneFill'
  BY <1>1, <1>8, FillsKept
<1> QED
  BY <1>7, <1>8, <1>9, <1>10, <1>11, MovesKeep

-----------------------------------------------------------------------------
(* The followers *)

\* What a caller that does not lead has at hand
LEMMA Following ==
    ASSUME Inv, NEW c \in Callers, pc[c] \in {"wait", "fallback", "own"}
    PROVE  /\ ~Leading(c) /\ call[c] \in Calls /\ call[c].key \in Keys
           /\ (pc[c] = "wait" => call[c].flight \in FlightIds)
           /\ call = [call EXCEPT ![c] = call[c]]
           /\ (pc[c] # "wait" => call[c].flight = Null)
           /\ (pc[c] = "wait" => call[c].flight[1] = KindOf(c))
           /\ made \in Nat
  BY DEF Inv, FlightInv, TypeOK, CallsShaped, Shaped, Leading, LeaderPlaces, FlightsOf

\* A caller that stops waiting to help itself
LEMMA FallsBackKeeps ==
    ASSUME Inv, NEW c \in Callers, pc[c] = "wait",
           call' = [call EXCEPT ![c].flight = Null], Goto(c, "fallback"),
           flight' = Without(c, flight), flights' = flights,
           cache' = cache, fills' = fills, made' = made
    PROVE  Inv'
<1> DEFINE s == [call[c] EXCEPT !.flight = Null]
<1>1. ~Leading(c) /\ call[c] \in Calls /\ call[c].key \in Keys /\ made' \in Nat
  BY Following
<1>2. s \in Calls /\ s.flight = Null /\ s.key = call[c].key
  BY <1>1 DEF Calls
<1>3. call' = [call EXCEPT ![c] = s]
  OBVIOUS
<1> HIDE DEF s
<1>4. Moves(c, "fallback", s)
  BY <1>1, <1>2, <1>3 DEF Moves, Goto, Shaped, Places, LeaderPlaces
<1>5. Stays(c, "fallback", s)
  BY <1>1 DEF Stays, LeaderPlaces
<1> QED
  BY <1>1, <1>4, <1>5, ReadingMoves

LEMMA ServedKeeps == ASSUME Inv, NEW c \in Callers, Served(c) PROVE Inv'
<1> DEFINE value == flight[call[c].flight].value
           error == flight[call[c].flight].error
<1>1. /\ pc[c] = "wait" /\ flight' = Without(c, flight) /\ flights' = flights
      /\ cache' = cache /\ fills' = fills /\ made' = made
      /\ IF FallsBack(c, error)
         THEN call' = [call EXCEPT ![c].flight = Null] /\ Goto(c, "fallback")
         ELSE Return(c, value, error, FALSE)
  BY DEF Served
<1>2. ~Leading(c) /\ call[c].flight \in FlightIds /\ made' \in Nat
  BY <1>1, Following
<1>3. flight[call[c].flight] \in Flights /\ error # KeptBy(KindOf(c))
  BY <1>1, <1>2, Following DEF Inv, FlightInv, TypeOK, NoneInterrupts
<1>4. value \in Values \cup {Null} /\ error \in Errors \cup {Null}
  BY <1>3 DEF Flights
<1> HIDE DEF value, error
<1>5. CASE FallsBack(c, error)
  BY <1>1, <1>5, FallsBackKeeps
<1>6. CASE ~FallsBack(c, error)
  <2>1. error # "aborted" /\ error # KeptBy(KindOf(c))
    BY <1>3, <1>6 DEF FallsBack, error
  <2>2. Return(c, value, error, FALSE)
    BY <1>1, <1>6
  <2> QED
    BY <1>1, <1>2, <1>4, <2>1, <2>2, ReturnKeeps
<1> QED
  BY <1>5, <1>6

LEMMA FillTimeoutKeeps == ASSUME Inv, NEW c \in Callers, FillTimeout(c) PROVE Inv'
  BY FallsBackKeeps DEF FillTimeout

LEMMA FallbackKeeps == ASSUME Inv, NEW c \in Callers, Fallback(c) PROVE Inv'
<1>1. /\ pc[c] = "fallback" /\ flights' = flights /\ flight' = flight
      /\ cache' = cache /\ fills' = fills /\ made' = made
  BY DEF Fallback
<1>2. /\ ~Leading(c) /\ call[c] \in Calls /\ call[c].key \in Keys /\ call[c].flight = Null
      /\ call = [call EXCEPT ![c] = call[c]] /\ made' \in Nat
  BY <1>1, Following
<1>3. /\ Null \in Values \cup {Null} /\ Null \in Errors \cup {"fill", Null}
      /\ Null # "aborted" /\ Null # KeptBy(KindOf(c)) /\ "fill" \in Errors \cup {"fill", Null}
      /\ FALSE \in BOOLEAN /\ "fill" # "aborted" /\ "fill" # KeptBy(KindOf(c))
  BY KindsOfFlights DEF Errors, KeptBy
<1>4. CASE Return(c, Null, "fill", FALSE)
  BY <1>1, <1>2, <1>3, <1>4, ReturnKeeps
<1>5. CASE Return(c, cache[call[c].key], Null, FALSE)
  <2>1. cache[call[c].key] \in Values \cup {Null}
    BY <1>2 DEF Inv, FlightInv, TypeOK
  <2> QED
    BY <1>1, <1>2, <1>3, <1>5, <2>1, ReturnKeeps
<1>6. CASE Goto(c, "own") /\ UNCHANGED call
  <2>1. Moves(c, "own", call[c])
    BY <1>2, <1>6 DEF Moves, Goto, Shaped, Places, LeaderPlaces
  <2>2. Stays(c, "own", call[c])
    BY <1>1, <1>2 DEF Stays, LeaderPlaces
  <2> QED
    BY <1>1, <1>2, <2>1, <2>2, ReadingMoves
<1> QED
  BY <1>4, <1>5, <1>6 DEF Fallback

LEMMA OwnLoadKeeps ==
    ASSUME Inv, NEW c \in Callers, NEW value \in Values \cup {Null},
           NEW error \in {"error", Null}, OwnLoad(c, value, error)
    PROVE  Inv'
<1>1. /\ pc[c] = "own" /\ flights' = flights /\ flight' = flight
      /\ cache' = cache /\ fills' = fills /\ made' = made
      /\ Return(c, value, error, FALSE)
  BY DEF OwnLoad
<1>2. /\ error \in Errors \cup {"fill", Null} /\ error # "aborted"
      /\ error # KeptBy(KindOf(c)) /\ FALSE \in BOOLEAN
  BY KindsOfFlights DEF Errors, Interruptions
<1>3. ~Leading(c) /\ made' \in Nat
  BY <1>1, Following
<1> QED
  BY <1>1, <1>2, <1>3, ReturnKeeps

LEMMA InterruptedKeeps == ASSUME Inv, NEW c \in Callers, Interrupted(c) PROVE Inv'
<1>1. /\ Null \in Values \cup {Null} /\ KeptBy(KindOf(c)) \in Errors \cup {"fill", Null}
      /\ TRUE \in BOOLEAN /\ KeptBy(KindOf(c)) # "aborted"
  BY KindsOfFlights DEF Errors
<1>2. ~Leading(c) /\ made \in Nat
  BY Following DEF Interrupted
<1> QED
  BY <1>1, <1>2, ReturnKeeps DEF Interrupted

LEMMA VanishKeeps == ASSUME Inv, NEW k \in Keys, Vanish(k) PROVE Inv'
<1>1. FlightsLed' /\ CallsShaped' /\ NoneInterrupts'
  BY DEF Inv, FlightInv, FlightsLed, Leaders, Entry, CallsShaped, Shaped, NoneInterrupts, Vanish
<1>2. TypeOK'
  BY DEF Inv, FlightInv, TypeOK, Vanish
<1>3. FillsStay' /\ OneFill'
  <2>1. TypeOK /\ \A c \in Tasks : pc[c] = "load" => call[c].key \in Keys
    BY TaskLoading DEF Inv, FlightInv
  <2> QED
    BY <2>1 DEF Inv, TypeOK, FillsStay, OneFill, Vanish
<1> QED
  BY <1>1, <1>2, <1>3 DEF Inv, FlightInv

-----------------------------------------------------------------------------
(* The theorems *)

LEMMA InitInv == Init => Inv
<1> SUFFICES ASSUME Init PROVE Inv
  OBVIOUS
<1>1. /\ NoCall \in Calls /\ NoCall.flight = Null /\ NoCall.error = Null
      /\ NewFlight \in Flights /\ NewFlight.error = Null
  BY DEF NoCall, Calls, NewFlight, Flights
<1>2. Null # "aborted" /\ \A kind : Null # KeptBy(kind)
  BY KindsOfFlights DEF Errors
<1> HIDE DEF NoCall, NewFlight
<1>3. TypeOK
  BY <1>1 DEF Init, TypeOK, Places
<1>4. FlightsLed
  BY DEF Init, FlightsLed
<1>5. CallsShaped /\ NoneInterrupts
  BY <1>1, <1>2 DEF Init, CallsShaped, Shaped, NoneInterrupts, Places, LeaderPlaces
<1>6. FillsStay /\ OneFill
  BY DEF Init, FillsStay, OneFill, Callers
<1> QED
  BY <1>3, <1>4, <1>5, <1>6 DEF Inv, FlightInv

LEMMA LoaderEndsKeeps == ASSUME Inv, NEW c \in Callers, LoaderEnds(c) PROVE Inv'
<1>1. Null \in LoaderErrors /\ Null \in Values \cup {Null}
  BY DEF LoaderErrors
<1>2. ASSUME NEW value \in Values \cup {Null}, LoaderReturns(c, value) PROVE Inv'
  <2>1. CASE ThreadLoads(c, value)
    BY <2>1, ThreadLoadsKeeps
  <2>2. CASE value # Null /\ TaskFills(c, value)
    BY <2>2, TaskFillsKeeps
  <2>3. CASE TaskEnds(c, Null)
    BY <1>1, <2>3, TaskEndsKeeps
  <2>4. CASE OwnLoad(c, value, Null)
    BY <1>1, <2>4, OwnLoadKeeps
  <2> QED
    BY <1>2, <2>1, <2>2, <2>3, <2>4 DEF LoaderReturns
<1>3. CASE LoaderRaises(c)
  <2>1. \A error \in Interruptions \cup {"error", "timeout"} :
           error \in LoaderErrors \ {Null} /\ error \in LoaderErrors
    BY KindsOfFlights DEF LoaderErrors, Errors
  <2> QED
    BY <1>1, <1>3, <2>1, ThreadRaisesKeeps, TaskEndsKeeps, OwnLoadKeeps DEF LoaderRaises
<1> QED
  BY <1>2, <1>3 DEF LoaderEnds

LEMMA NextKeeps == Inv /\ [Next]_vars => Inv'
<1> SUFFICES ASSUME Inv, [Next]_vars PROVE Inv'
  OBVIOUS
<1>1. ASSUME NEW c \in Callers, NEW k \in Keys, Hit(c, k) \/ Miss(c, k) \/ TaskMiss(c, k)
      PROVE  Inv'
  BY <1>1, HitKeeps, MissKeeps, TaskMissKeeps
<1>2. ASSUME NEW c \in Callers, LoaderEnds(c) PROVE Inv'
  BY <1>2, LoaderEndsKeeps
<1>3. ASSUME NEW c \in Callers, Step(c) PROVE Inv'
  BY <1>3, JoinKeeps, SetKeeps, FinishKeeps, PopKeeps, ServedKeeps, FallbackKeeps DEF Step
<1>4. ASSUME NEW c \in Callers, FillTimeout(c) \/ Interrupted(c) PROVE Inv'
  BY <1>4, FillTimeoutKeeps, InterruptedKeeps
<1>5. ASSUME NEW k \in Keys, Vanish(k) PROVE Inv'
  BY <1>5, VanishKeeps
<1>6. CASE UNCHANGED vars
  BY <1>6 DEF vars, Inv, FlightInv, TypeOK, FlightsLed, Leaders, Entry, CallsShaped, Shaped,
     NoneInterrupts, FillsStay, OneFill
<1> QED
  BY <1>1, <1>2, <1>3, <1>4, <1>5, <1>6 DEF Next, Finished

LEMMA Invariance == Spec => []Inv
  BY InitInv, NextKeeps, PTL DEF Spec

\* For any number of callers and calls, every flight on the table has one
\* leader, and every leader its entry: get_or_load() and aget_or_load() take
\* the entry off in a finally, whatever the loader, the cache or a cancellation
\* does.
THEOREM FlightsAreLed == Spec => []FlightInv
<1>1. Inv => FlightInv
  BY DEF Inv
<1> QED
  BY <1>1, Invariance, PTL

\* A CancelledError that strikes a task's leader, and a KeyboardInterrupt or
\* SystemExit that strikes a thread's, ends no call but its own: the followers are
\* given _FlightAborted, which none of them returns.
THEOREM InterruptionsStayHome == Spec => []InterruptsStayHome
<1>1. Inv => InterruptsStayHome
  BY DEF Inv, CallsShaped, Shaped, InterruptsStayHome
<1> QED
  BY <1>1, Invariance, PTL

\* Tasks load a key once for as long as its value stays: what aget_or_load()
\* does without an await leaves no task between its look-up and its flight.
THEOREM TasksFillOnce == Spec => []OneFill
<1>1. Inv => OneFill
  BY DEF Inv
<1> QED
  BY <1>1, Invariance, PTL

-----------------------------------------------------------------------------
(* Queries among commands *)

Landing == {"set", "finish", "pop"}

\* The versions of k that a load has read and not landed, or a command committed
\* and not synchronized
Underway(k) ==
    {v \in Versions :
        \/ \E c \in Callers :
              /\ asked[c].key = k
              /\ asked[c].seen = v \/ (pc[c] \in Landing /\ call[c].value = v)
        \/ \E w \in Writers : writing[w] # Null /\ writing[w] = [key |-> k, version |-> v]}

\* Unless k was overtaken, all that is under way is the version in the database,
\* and the cache is no older than what was acknowledged
VersionsAgree ==
    \A k \in Keys :
        /\ acked[k] <= db[k]
        /\ \A v \in Underway(k) : v <= db[k]
        /\ k \notin overtaken =>
              /\ \A v \in Underway(k) : v = db[k]
              /\ cache[k] # Null => acked[k] <= cache[k]

\* Whatever may yet answer c's query is no older than what it must see
Floored(c) ==
    pc[c] # "idle" =>
       /\ asked[c].key = call[c].key
       /\ asked[c].floor <= acked[asked[c].key]
       /\ \A v \in Underway(asked[c].key) : asked[c].floor <= v
       /\ cache[asked[c].key] # Null => asked[c].floor <= cache[asked[c].key]

\* So is the value of the flight it waits for, and its answer
Answered(c) ==
    /\ pc[c] = "wait" /\ flight[call[c].flight].value # Null =>
          asked[c].floor <= flight[call[c].flight].value
    /\ pc[c] = "idle" /\ call[c].value # Null => asked[c].floor <= call[c].value

\* A flight has a value once its one leader gave it its own, and is followed for
\* the leader's key
FlightsHeld ==
    /\ \A f \in FlightIds :
          (\A c \in Callers : call[c].flight # f) => flight[f].value = Null
    /\ \A c, d \in Callers :
          Leading(d) /\ call[c].flight = call[d].flight =>
             /\ Leading(c) => c = d
             /\ call[c].key = call[d].key
    /\ \A d \in Callers :
          Leading(d) /\ flight[call[d].flight].value # Null =>
             pc[d] = "pop" /\ call[d].value = flight[call[d].flight].value

QInv ==
    /\ QTypeOK /\ Inv
    /\ VersionsAgree /\ FlightsHeld
    /\ \A c \in Callers : Floored(c) /\ Answered(c)

-----------------------------------------------------------------------------
(* The flights *)

LEMMA SloBreachedKeeps == ASSUME Inv, NEW c \in Callers, SloBreached(c) PROVE Inv'
<1> DEFINE s == [NoCall EXCEPT !.error = "error"]
<1>1. /\ pc[c] = "idle" /\ call' = [call EXCEPT ![c] = s] /\ pc' = pc /\ flights' = flights
      /\ flight' = flight /\ cache' = cache /\ fills' = fills /\ made' = made
  BY DEF SloBreached
<1>2. /\ s \in Calls /\ s.flight = Null /\ s.error = "error"
      /\ s.error # KeptBy(KindOf(c)) /\ s.error # "aborted"
  BY DEF NoCall, Calls, Errors, KeptBy
<1> HIDE DEF s
<1>3. pc' = [pc EXCEPT ![c] = "idle"] /\ made' \in Nat
  BY <1>1 DEF Inv, FlightInv, TypeOK
<1>4. Moves(c, "idle", s)
  BY <1>1, <1>2, <1>3 DEF Moves, Shaped, Places, LeaderPlaces
<1>5. Stays(c, "idle", s)
  BY <1>1 DEF Stays, Leading, LeaderPlaces
<1> QED
  BY <1>1, <1>3, <1>4, <1>5, ReadingMoves

LEMMA SynchronizeKeeps ==
    ASSUME Inv, QTypeOK, NEW w \in Writers, NEW how \in Syncs, Synchronize(w, how)
    PROVE  Inv'
<1> DEFINE k == writing[w].key
           version == writing[w].version
           after == IF how = "evict" THEN Null ELSE version
<1>1. /\ cache' = [cache EXCEPT ![k] = after]
      /\ fills' = [fills EXCEPT ![k] = IF how = "evict" THEN 0 ELSE @]
      /\ UNCHANGED <<flights, flight, pc, call, made>>
  BY DEF Synchronize, Synchronized
<1>2. k \in Keys /\ version \in Values
  BY DEF QTypeOK, Synchronize, Writes
<1>3. after \in Values \cup {Null} /\ (how # "evict" => after # Null)
  BY <1>2, SingleFlightAssumption
<1> HIDE DEF k, version, after
<1>4. FlightsLed' /\ CallsShaped' /\ NoneInterrupts'
  BY <1>1 DEF Inv, FlightInv, FlightsLed, Leaders, Entry, CallsShaped, Shaped, NoneInterrupts
<1>5. TypeOK'
  BY <1>1, <1>2, <1>3 DEF Inv, FlightInv, TypeOK
<1>6. FillsStay' /\ OneFill'
  <2>1. TypeOK /\ \A c \in Tasks : pc[c] = "load" => call[c].key \in Keys
    BY TaskLoading DEF Inv, FlightInv
  <2> QED
    BY <1>1, <1>2, <1>3, <2>1 DEF Inv, TypeOK, FillsStay, OneFill
<1> QED
  BY <1>4, <1>5, <1>6 DEF Inv, FlightInv

\* Commands and the latency check leave the flights as they should be.
LEMMA QNextKeepsInv == ASSUME QTypeOK, Inv, [QNext]_allvars PROVE Inv'
<1>1. ASSUME NEW c \in Callers, NEW k \in Keys, Fetch(c, k) PROVE [Next]_vars
  BY <1>1 DEF Fetch, Next
<1>2. ASSUME NEW c \in Callers, QStep(c) PROVE [Next]_vars
  <2>1. CASE Read(c)
    BY <2>1 DEF Read
  <2>2. CASE LoadReturns(c)
    <3>1. Row(asked[c].seen) \in Values \cup {Null}
      BY <2>2 DEF LoadReturns, QTypeOK, Queries, Versions, Row
    <3> QED
      BY <2>2, <3>1 DEF LoadReturns, LoaderEnds, Next
  <2>3. CASE LoadRaises(c)
    BY <2>3 DEF LoadRaises, LoaderEnds, Next
  <2> QED
    BY <1>2, <2>1, <2>2, <2>3 DEF QStep, Step, Next
<1>3. ASSUME NEW c \in Callers, FillTimeout(c) \/ Interrupted(c) PROVE [Next]_vars
  BY <1>3 DEF Next
<1>4. ASSUME NEW w \in Writers, (\E k \in Keys : Commit(w, k)) \/ WriteFails(w)
      PROVE  [Next]_vars
  BY <1>4 DEF Commit, WriteFails
<1>5. ASSUME NEW k \in Keys, Expire(k) PROVE [Next]_vars
  BY <1>5 DEF Expire, Next
<1>6. CASE QFinished \/ UNCHANGED allvars
  BY <1>6, NextKeeps DEF QFinished, Finished, allvars, vars
<1> QED
  BY <1>1, <1>2, <1>3, <1>4, <1>5, <1>6, NextKeeps, SloBreachedKeeps, SynchronizeKeeps DEF QNext

-----------------------------------------------------------------------------
(* Types *)

\* A caller's query changes alone.
LEMMA AskedTyped ==
    ASSUME QTypeOK, TypeOK', NEW c \in Callers, NEW q \in Queries,
           asked' = [asked EXCEPT ![c] = q], UNCHANGED <<db, writing, acked, overtaken>>
    PROVE  QTypeOK'
  BY DEF QTypeOK

\* The key of a query under way
LEMMA AskedKey ==
    ASSUME QInv, NEW c \in Callers, pc[c] # "idle"
    PROVE  asked[c].key = call[c].key /\ asked[c].key \in Keys
  BY DEF QInv, Inv, CallsShaped, Shaped, Floored

LEMMA TypesKept == ASSUME QInv, [QNext]_allvars PROVE QTypeOK'
<1>1. TypeOK'
  BY QNextKeepsInv DEF Inv, FlightInv, QInv
<1>2. QTypeOK /\ TypeOK /\ 0 \in Versions /\ asked \in [Callers -> Queries]
  BY DEF QTypeOK, Versions, QInv
<1>3. ASSUME UNCHANGED dbvars PROVE QTypeOK'
  BY <1>1, <1>2, <1>3 DEF QTypeOK, dbvars
<1>4. ASSUME NEW c \in Callers, NEW k \in Keys, Fetch(c, k) PROVE QTypeOK'
  <2> DEFINE q == [key |-> k, seen |-> Null, loaded |-> FALSE,
                   floor |-> IF k \in overtaken THEN 0 ELSE acked[k]]
  <2>1. q \in Queries
    BY <1>2 DEF QTypeOK, Queries
  <2>2. asked' = [asked EXCEPT ![c] = q] /\ UNCHANGED <<db, writing, acked, overtaken>>
    BY <1>4 DEF Fetch
  <2> HIDE DEF q
  <2> QED
    BY <1>1, <1>2, <2>1, <2>2, AskedTyped
<1>5. ASSUME NEW c \in Callers, Read(c) PROVE QTypeOK'
  <2> DEFINE q == [asked[c] EXCEPT !.seen = db[asked[c].key], !.loaded = TRUE]
  <2>1. asked[c].key \in Keys
    BY <1>5, AskedKey DEF Read
  <2>2. q \in Queries
    BY <1>2, <2>1 DEF Queries, QTypeOK
  <2>3. asked' = [asked EXCEPT ![c] = q] /\ UNCHANGED <<db, writing, acked, overtaken>>
    BY <1>5 DEF Read
  <2> HIDE DEF q
  <2> QED
    BY <1>1, <1>2, <2>2, <2>3, AskedTyped
<1>6. ASSUME NEW c \in Callers, LoadReturns(c) \/ LoadRaises(c) PROVE QTypeOK'
  <2> DEFINE q == [asked[c] EXCEPT !.seen = Null]
  <2>1. q \in Queries
    BY <1>2 DEF Queries
  <2>2. asked' = [asked EXCEPT ![c] = q] /\ UNCHANGED <<db, writing, acked, overtaken>>
    BY <1>6 DEF LoadReturns, LoadRaises
  <2> HIDE DEF q
  <2> QED
    BY <1>1, <1>2, <2>1, <2>2, AskedTyped
<1>7. ASSUME NEW c \in Callers, SloBreached(c) PROVE QTypeOK'
  <2> DEFINE q == [asked[c] EXCEPT !.loaded = FALSE]
  <2>1. q \in Queries
    BY <1>2 DEF Queries
  <2>2. asked' = [asked EXCEPT ![c] = q] /\ UNCHANGED <<db, writing, acked, overtaken>>
    BY <1>7 DEF SloBreached
  <2> HIDE DEF q
  <2> QED
    BY <1>1, <1>2, <2>1, <2>2, AskedTyped
<1>8. ASSUME NEW w \in Writers, NEW k \in Keys, Commit(w, k) PROVE QTypeOK'
  <2> DEFINE version == db[k] + 1
  <2>1. version \in Values /\ version \in Versions /\ [key |-> k, version |-> version] \in Writes
    BY <1>8 DEF Commit, Versions, Writes
  <2>2. /\ db' = [db EXCEPT ![k] = version]
        /\ writing' = [writing EXCEPT ![w] = [key |-> k, version |-> version]]
        /\ overtaken' \subseteq overtaken \cup {k} /\ UNCHANGED <<asked, acked>>
    BY <1>8 DEF Commit
  <2> HIDE DEF version
  <2> QED
    BY <1>1, <1>2, <2>1, <2>2 DEF QTypeOK
<1>9. ASSUME NEW w \in Writers, NEW how \in Syncs, Synchronize(w, how) PROVE QTypeOK'
  <2>1. writing[w].key \in Keys /\ writing[w].version \in Versions
    BY <1>2, <1>9 DEF Synchronize, QTypeOK, Writes, Versions
  <2> QED
    BY <1>1, <1>2, <1>9, <2>1 DEF QTypeOK, Synchronize
<1>10. ASSUME NEW w \in Writers, WriteFails(w) PROVE QTypeOK'
  BY <1>1, <1>2, <1>10 DEF QTypeOK, WriteFails
<1>11. ASSUME NEW k \in Keys, Expire(k) PROVE QTypeOK'
  BY <1>1, <1>2, <1>11 DEF QTypeOK, Expire
<1>12. ASSUME UNCHANGED allvars PROVE QTypeOK'
  BY <1>3, <1>12 DEF allvars, dbvars
<1> QED
  BY <1>3, <1>4, <1>5, <1>6, <1>7, <1>8, <1>9, <1>10, <1>11, <1>12 DEF QNext, QStep, QFinished

-----------------------------------------------------------------------------
(* Versions *)

\* What a step may do to the versions of k: a load reads what the database has,
\* the cache takes only what was under way, and a commit finds nothing under way
\* or overtakes it.
VersionsMove(k) ==
    /\ db[k] <= db'[k]
    /\ Underway(k)' \subseteq Underway(k) \cup {db'[k]}
    /\ k \notin overtaken' => db'[k] = db[k] \/ Underway(k) = {}
    /\ cache'[k] \in {cache[k], Null} \cup Underway(k)
    /\ \/ acked'[k] = acked[k]
       \/ /\ acked'[k] \in Underway(k) /\ acked[k] <= acked'[k]
          /\ cache'[k] # Null => cache'[k] = acked'[k]
    /\ k \in overtaken /\ k \notin overtaken' =>
          cache'[k] = Null /\ Underway(k)' = {}

LEMMA VersionTypes ==
    ASSUME QTypeOK, NEW k \in Keys
    PROVE  /\ db[k] \in Nat /\ acked[k] \in Nat
           /\ (cache[k] # Null => cache[k] \in Nat)
           /\ Underway(k) \subseteq Nat
<1>1. Values \subseteq Nat /\ Versions \subseteq Nat
  BY QueryAssumption DEF Versions
<1>2. cache[k] \in Values \cup {Null}
  BY DEF QTypeOK, TypeOK
<1>3. db[k] \in Versions /\ acked[k] \in Versions
  BY DEF QTypeOK
<1> QED
  BY <1>1, <1>2, <1>3 DEF Underway

LEMMA VersionTypesNext ==
    ASSUME QTypeOK', NEW k \in Keys
    PROVE  /\ db'[k] \in Nat /\ acked'[k] \in Nat
           /\ (cache'[k] # Null => cache'[k] \in Nat)
           /\ Underway(k)' \subseteq Nat
<1>1. Values \subseteq Nat /\ Versions \subseteq Nat
  BY QueryAssumption DEF Versions
<1>2. cache'[k] \in Values \cup {Null}
  BY DEF QTypeOK, TypeOK
<1>3. db'[k] \in Versions /\ acked'[k] \in Versions
  BY DEF QTypeOK
<1> QED
  BY <1>1, <1>2, <1>3 DEF Underway

LEMMA VersionsKept ==
    ASSUME QInv, QTypeOK', \A k \in Keys : VersionsMove(k)
    PROVE  VersionsAgree'
<1> SUFFICES ASSUME NEW k \in Keys
             PROVE  /\ acked'[k] <= db'[k]
                    /\ \A v \in Underway(k)' : v <= db'[k]
                    /\ k \notin overtaken' =>
                          /\ \A v \in Underway(k)' : v = db'[k]
                          /\ cache'[k] # Null => acked'[k] <= cache'[k]
  BY DEF VersionsAgree
<1>1. /\ db[k] \in Nat /\ acked[k] \in Nat /\ Underway(k) \subseteq Nat
      /\ (cache[k] # Null => cache[k] \in Nat)
      /\ db'[k] \in Nat /\ acked'[k] \in Nat /\ Underway(k)' \subseteq Nat
      /\ (cache'[k] # Null => cache'[k] \in Nat)
  BY VersionTypes, VersionTypesNext DEF QInv
<1>2. VersionsMove(k)
  OBVIOUS
<1>3. /\ acked[k] <= db[k]
      /\ \A v \in Underway(k) : v <= db[k]
      /\ k \notin overtaken => /\ \A v \in Underway(k) : v = db[k]
                               /\ cache[k] # Null => acked[k] <= cache[k]
  BY DEF QInv, VersionsAgree
<1>4. acked'[k] <= db'[k]
  BY <1>1, <1>2, <1>3 DEF VersionsMove
<1>5. \A v \in Underway(k)' : v <= db'[k]
  BY <1>1, <1>2, <1>3 DEF VersionsMove
<1>6. ASSUME k \notin overtaken', NEW v \in Underway(k)' PROVE v = db'[k]
  BY <1>1, <1>2, <1>3, <1>6 DEF VersionsMove
<1>7. ASSUME k \notin overtaken', cache'[k] # Null PROVE acked'[k] <= cache'[k]
  BY <1>1, <1>2, <1>3, <1>7 DEF VersionsMove
<1> QED
  BY <1>4, <1>5, <1>6, <1>7

\* A query under way stays on the right side of what it must see.
LEMMA FlooredKept ==
    ASSUME QInv, QTypeOK', \A k \in Keys : VersionsMove(k),
           NEW c \in Callers, pc[c] # "idle",
           asked'[c].key = asked[c].key, asked'[c].floor = asked[c].floor,
           call'[c].key = call[c].key
    PROVE  Floored(c)'
<1>1. PICK k \in Keys : k = asked[c].key /\ k = call[c].key
  BY AskedKey
<1>2. /\ db[k] \in Nat /\ acked[k] \in Nat /\ Underway(k) \subseteq Nat
      /\ (cache[k] # Null => cache[k] \in Nat)
      /\ db'[k] \in Nat /\ acked'[k] \in Nat /\ Underway(k)' \subseteq Nat
      /\ (cache'[k] # Null => cache'[k] \in Nat) /\ asked[c].floor \in Nat
  <2>1. asked[c] \in Queries /\ Versions \subseteq Nat
    BY QueryAssumption DEF QInv, QTypeOK, Versions
  <2>2. asked[c].floor \in Nat
    BY <2>1 DEF Queries
  <2> QED
    BY <2>2, VersionTypes, VersionTypesNext DEF QInv
<1>3. VersionsMove(k) /\ acked[k] <= db[k]
  BY <1>1 DEF QInv, VersionsAgree
<1>4. /\ asked[c].floor <= acked[k]
      /\ \A v \in Underway(k) : asked[c].floor <= v
      /\ cache[k] # Null => asked[c].floor <= cache[k]
  BY <1>1 DEF QInv, Floored
<1>5. asked[c].floor <= acked'[k]
  BY <1>2, <1>3, <1>4 DEF VersionsMove
<1>6. \A v \in Underway(k)' : asked[c].floor <= v
  BY <1>2, <1>3, <1>4 DEF VersionsMove, Versions
<1>7. cache'[k] # Null => asked[c].floor <= cache'[k]
  BY <1>2, <1>3, <1>4 DEF VersionsMove
<1>8. asked'[c].key = k /\ call'[c].key = k /\ asked'[c].floor = asked[c].floor
  BY <1>1
<1> QED
  BY <1>5, <1>6, <1>7, <1>8 DEF Floored

-----------------------------------------------------------------------------
(* A caller's step *)

OthersWait(c) ==
    \A d \in Callers \ {c} : pc'[d] = pc[d] /\ call'[d] = call[d] /\ asked'[d] = asked[d]

\* c reads what the database has, and carries on what it has read.
Reads(c) ==
    /\ \/ asked'[c].seen = Null
       \/ /\ asked'[c].key = asked[c].key
          /\ asked'[c].seen \in {asked[c].seen, db[asked[c].key]}
    /\ pc'[c] \in Landing =>
          /\ asked'[c].key = asked[c].key
          /\ \/ call'[c].value \in {Null, asked[c].seen}
             \/ pc[c] \in Landing /\ call'[c].value = call[c].value

LEMMA UnderwayMoves ==
    ASSUME QTypeOK, NEW c \in Callers, OthersWait(c), Reads(c), writing' = writing,
           NEW k \in Keys
    PROVE  Underway(k)' \subseteq Underway(k) \cup {db[k]}
<1>1. Null \notin Versions
  BY SingleFlightAssumption, QueryAssumption DEF Versions
<1>2. SUFFICES ASSUME NEW v \in Underway(k)', v # db[k] PROVE v \in Underway(k)
  OBVIOUS
<1>3. v \in Versions
  BY DEF Underway, Versions
<1>4. CASE \E d \in Callers :
             /\ asked'[d].key = k
             /\ asked'[d].seen = v \/ (pc'[d] \in Landing /\ call'[d].value = v)
  <2>1. PICK d \in Callers :
             /\ asked'[d].key = k
             /\ asked'[d].seen = v \/ (pc'[d] \in Landing /\ call'[d].value = v)
    BY <1>4
  <2>2. CASE d = c
    <3>1. asked[c].key = k /\ (asked[c].seen = v \/ (pc[c] \in Landing /\ call[c].value = v))
      BY <1>1, <1>2, <1>3, <2>1, <2>2 DEF Reads
    <3> QED
      BY <1>3, <3>1 DEF Underway
  <2>3. CASE d # c
    <3>1. pc'[d] = pc[d] /\ call'[d] = call[d] /\ asked'[d] = asked[d]
      BY <2>3 DEF OthersWait
    <3> QED
      BY <1>3, <2>1, <3>1 DEF Underway
  <2> QED
    BY <2>2, <2>3
<1>5. CASE \E w \in Writers : writing[w] # Null /\ writing[w] = [key |-> k, version |-> v]
  BY <1>3, <1>5 DEF Underway
<1> QED
  BY <1>2, <1>4, <1>5 DEF Underway

\* All that a caller's step must see to
LEMMA CallerKeeps ==
    ASSUME QInv, QTypeOK', Inv', NEW c \in Callers, OthersWait(c), Reads(c),
           UNCHANGED <<db, writing, acked, overtaken>>,
           \A k \in Keys : cache'[k] \in {cache[k], Null} \cup Underway(k),
           FlightsHeld', \A d \in Callers : Answered(d)',
           \/ pc'[c] = "idle"
           \/ /\ pc[c] # "idle" /\ call'[c].key = call[c].key
              /\ asked'[c].key = asked[c].key /\ asked'[c].floor = asked[c].floor
           \/ VersionsAgree' => Floored(c)'
    PROVE  QInv'
<1>1. \A k \in Keys : VersionsMove(k)
  <2>1. ASSUME NEW k \in Keys PROVE VersionsMove(k)
    <3>1. Underway(k)' \subseteq Underway(k) \cup {db[k]}
      BY UnderwayMoves DEF QInv
    <3>2. db[k] <= db[k]
      BY VersionTypes DEF QInv
    <3> QED
      BY <3>1, <3>2 DEF VersionsMove
  <2> QED
    BY <2>1
<1>2. VersionsAgree'
  BY <1>1, VersionsKept
<1>3. \A d \in Callers : Floored(d)'
  <2>1. ASSUME NEW d \in Callers, d # c PROVE Floored(d)'
    <3>1. pc'[d] = pc[d] /\ call'[d] = call[d] /\ asked'[d] = asked[d]
      BY <2>1 DEF OthersWait
    <3>2. CASE pc[d] = "idle"
      BY <3>1, <3>2 DEF Floored
    <3>3. CASE pc[d] # "idle"
      BY <1>1, <3>1, <3>3, FlooredKept
    <3> QED
      BY <3>2, <3>3
  <2>2. Floored(c)'
    <3>1. CASE pc'[c] = "idle"
      BY <3>1 DEF Floored
    <3>2. CASE /\ pc[c] # "idle" /\ call'[c].key = call[c].key
               /\ asked'[c].key = asked[c].key /\ asked'[c].floor = asked[c].floor
      BY <1>1, <3>2, FlooredKept
    <3> QED
      BY <1>2, <3>1, <3>2
  <2> QED
    BY <2>1, <2>2
<1> QED
  BY <1>2, <1>3 DEF QInv

-----------------------------------------------------------------------------
(* The flights of a caller's step *)

\* What a caller holds
LEMMA Holding ==
    ASSUME QInv, NEW c \in Callers
    PROVE  /\ (Leading(c) \/ pc[c] = "wait") => call[c].flight \in FlightIds /\ call[c].key \in Keys
           /\ ~(Leading(c) \/ pc[c] = "wait") => call[c].flight = Null
  BY KindsOfFlights DEF QInv, Inv, CallsShaped, Shaped, Leading, LeaderPlaces, Places

LEMMA NullFlight == Null \notin FlightIds
  BY KindsOfFlights

\* c neither takes nor leaves a flight.
LEMMA HeldAsBefore ==
    ASSUME QInv, NEW c \in Callers, OthersWait(c), flight' = flight,
           call'[c].flight = call[c].flight,
           Leading(c)' <=> Leading(c), Leading(c) => call'[c].key = call[c].key,
           Leading(c) => pc[c] # "pop", pc[c] # "wait"
    PROVE  FlightsHeld' /\ \A d \in Callers \ {c} : Answered(d)'
<1>1. /\ \A d \in Callers : call'[d].flight = call[d].flight /\ (Leading(d)' <=> Leading(d))
      /\ \A d \in Callers \ {c} : pc'[d] = pc[d] /\ call'[d] = call[d] /\ asked'[d] = asked[d]
  BY DEF OthersWait, Leading
<1>2. FlightsHeld
  BY DEF QInv
<1>3. Leading(c) => flight[call[c].flight].value = Null
  BY <1>2 DEF FlightsHeld
<1>4. ASSUME NEW d \in Callers, NEW e \in Callers,
             Leading(e)', call'[d].flight = call'[e].flight
      PROVE  (Leading(d)' => d = e) /\ call'[d].key = call'[e].key
  <2>1. Leading(e) /\ call[d].flight = call[e].flight /\ call[d].key = call[e].key
    BY <1>1, <1>2, <1>4 DEF FlightsHeld
  <2>2. Leading(d)' => d = e
    BY <1>1, <1>2, <2>1 DEF FlightsHeld
  <2>3. d = c => Leading(c)
    BY <2>1, Holding, NullFlight
  <2>4. call'[d].key = call[d].key /\ call'[e].key = call[e].key
    BY <1>1, <2>1, <2>3
  <2> QED
    BY <2>1, <2>2, <2>4
<1>5. ASSUME NEW e \in Callers, Leading(e)', flight'[call'[e].flight].value # Null
      PROVE  pc'[e] = "pop" /\ call'[e].value = flight'[call'[e].flight].value
  BY <1>1, <1>2, <1>3, <1>5 DEF FlightsHeld
<1>6. FlightsHeld'
  BY <1>1, <1>2, <1>4, <1>5 DEF FlightsHeld
<1>7. \A d \in Callers \ {c} : Answered(d)'
  BY <1>1 DEF QInv, Answered
<1> QED
  BY <1>6, <1>7

\* c leaves its flight, which as a leader it may have ended.
LEMMA HeldByOthers ==
    ASSUME QInv, NEW c \in Callers, OthersWait(c), NEW objects,
           flight' = Without(c, objects), call'[c].flight = Null, ~Leading(c)',
           Leading(c) \/ pc[c] = "wait",
           \A f \in FlightIds \ {call[c].flight} : objects[f] = flight[f],
           Leading(c) \/ objects = flight,
           \A d \in Callers \ {c} :
              /\ pc[d] = "wait" /\ call[d].flight = call[c].flight
              /\ objects[call[d].flight].value # Null
              => asked[d].floor <= objects[call[d].flight].value
    PROVE  FlightsHeld' /\ \A d \in Callers \ {c} : Answered(d)'
<1>1. \A d \in Callers \ {c} : /\ pc'[d] = pc[d] /\ call'[d] = call[d] /\ asked'[d] = asked[d]
                             /\ (Leading(d)' <=> Leading(d))
  BY DEF OthersWait, Leading
<1>2. FlightsHeld /\ NewFlight.value = Null
  BY DEF QInv, NewFlight
<1>3. \A d \in Callers \ {c} : call[d].flight \in FlightIds =>
                                 flight'[call[d].flight] = objects[call[d].flight]
  BY DEF Without
<1>4. ASSUME NEW f \in FlightIds, \A d \in Callers : call'[d].flight # f
      PROVE  flight'[f].value = Null
  BY <1>1, <1>2, <1>4 DEF Without
<1>5. ASSUME NEW d \in Callers, NEW e \in Callers,
             Leading(e)', call'[d].flight = call'[e].flight
      PROVE  (Leading(d)' => d = e) /\ call'[d].key = call'[e].key
  <2>1. e # c /\ Leading(e) /\ call'[e] = call[e] /\ call[e].flight \in FlightIds
    BY <1>1, <1>5, Holding
  <2>2. d # c
    BY <1>5, <2>1, NullFlight
  <2> QED
    BY <1>1, <1>2, <1>5, <2>1, <2>2 DEF FlightsHeld
<1>6. ASSUME NEW e \in Callers, Leading(e)', flight'[call'[e].flight].value # Null
      PROVE  pc'[e] = "pop" /\ call'[e].value = flight'[call'[e].flight].value
  <2>1. e # c /\ Leading(e) /\ call'[e] = call[e] /\ call[e].flight \in FlightIds
    BY <1>1, <1>6, Holding
  <2>2. objects[call[e].flight] = flight[call[e].flight]
    BY <1>2, <2>1 DEF FlightsHeld
  <2> QED
    BY <1>1, <1>2, <1>3, <1>6, <2>1, <2>2 DEF FlightsHeld
<1>7. ASSUME NEW d \in Callers \ {c} PROVE Answered(d)'
  <2>1. CASE pc[d] = "wait"
    <3>1. call[d].flight \in FlightIds
      BY <2>1, Holding
    <3>2. flight'[call[d].flight] = objects[call[d].flight]
      BY <1>3, <3>1
    <3>3. CASE call[d].flight = call[c].flight /\ Leading(c)
      BY <1>1, <2>1, <3>2, <3>3 DEF Answered
    <3>4. CASE ~(call[d].flight = call[c].flight /\ Leading(c))
      <4>1. objects[call[d].flight] = flight[call[d].flight]
        BY <3>1, <3>4
      <4> QED
        BY <1>1, <2>1, <3>2, <4>1 DEF QInv, Answered
    <3> QED
      BY <3>3, <3>4
  <2>2. CASE pc[d] # "wait"
    BY <1>1, <2>2 DEF QInv, Answered
  <2> QED
    BY <2>1, <2>2
<1>8. FlightsHeld'
  BY <1>4, <1>5, <1>6 DEF FlightsHeld
<1> QED
  BY <1>7, <1>8

\* c leads a flight that nobody held.
LEMMA HeldByLeader ==
    ASSUME QInv, NEW c \in Callers, OthersWait(c), call[c].flight = Null,
           flight' = flight, pc'[c] = "load", call'[c].flight = FreeFlight(KindOf(c))
    PROVE  FlightsHeld' /\ \A d \in Callers : Answered(d)'
<1>1. \A d \in Callers \ {c} : /\ pc'[d] = pc[d] /\ call'[d] = call[d] /\ asked'[d] = asked[d]
                             /\ (Leading(d)' <=> Leading(d))
  BY DEF OthersWait, Leading
<1>2. FlightsHeld
  BY DEF QInv
<1> DEFINE free == FreeFlight(KindOf(c))
<1>3. free \in FlightIds /\ \A d \in Callers : call[d].flight # free
  BY FreeFlightExists, KindsOfFlights DEF QInv, QTypeOK
<1>9. call'[c].flight = free
  OBVIOUS
<1> HIDE DEF free
<1>4. flight[free].value = Null
  BY <1>2, <1>3 DEF FlightsHeld
<1>5. ASSUME NEW f \in FlightIds, \A d \in Callers : call'[d].flight # f
      PROVE  flight'[f].value = Null
  <2>1. \A d \in Callers : call[d].flight # f
    BY <1>1, <1>5, NullFlight
  <2> QED
    BY <1>2, <2>1 DEF FlightsHeld
<1>6. ASSUME NEW d \in Callers, NEW e \in Callers,
             Leading(e)', call'[d].flight = call'[e].flight
      PROVE  (Leading(d)' => d = e) /\ call'[d].key = call'[e].key
  <2>1. CASE d = e
    BY <2>1
  <2>2. CASE d # e
    <3>1. d # c /\ e # c
      BY <1>1, <1>3, <1>9, <1>6, <2>2
    <3> QED
      BY <1>1, <1>2, <1>6, <3>1 DEF FlightsHeld
  <2> QED
    BY <2>1, <2>2
<1>7. ASSUME NEW e \in Callers, Leading(e)', flight'[call'[e].flight].value # Null
      PROVE  pc'[e] = "pop" /\ call'[e].value = flight'[call'[e].flight].value
  <2>1. e # c
    BY <1>4, <1>7, <1>9
  <2> QED
    BY <1>1, <1>2, <1>7, <2>1 DEF FlightsHeld
<1>8. ASSUME NEW d \in Callers PROVE Answered(d)'
  <2>1. CASE d = c
    BY <2>1 DEF Answered
  <2>2. CASE d # c
    BY <1>1, <2>2 DEF QInv, Answered
  <2> QED
    BY <2>1, <2>2
<1> QED
  BY <1>5, <1>6, <1>7, <1>8 DEF FlightsHeld

\* c follows the leader that the table names.
LEMMA HeldByFollower ==
    ASSUME QInv, NEW c \in Callers, OthersWait(c), call[c].flight = Null,
           flight' = flight, pc'[c] = "wait",
           NEW e \in Callers, Leading(e), call'[c].flight = call[e].flight,
           call'[c].key = call[e].key,
           flight[call[e].flight].value # Null => asked'[c].floor <= flight[call[e].flight].value
    PROVE  FlightsHeld' /\ \A d \in Callers : Answered(d)'
<1>1. \A d \in Callers \ {c} : /\ pc'[d] = pc[d] /\ call'[d] = call[d] /\ asked'[d] = asked[d]
                             /\ (Leading(d)' <=> Leading(d))
  BY DEF OthersWait, Leading
<1>2. FlightsHeld /\ ~Leading(c)'
  BY DEF QInv, Leading, LeaderPlaces
<1>3. e # c
  BY Holding, NullFlight
<1>4. ASSUME NEW f \in FlightIds, \A d \in Callers : call'[d].flight # f
      PROVE  flight'[f].value = Null
  <2>1. \A d \in Callers : call[d].flight # f
    BY <1>1, <1>4, NullFlight
  <2> QED
    BY <1>2, <2>1 DEF FlightsHeld
<1>5. ASSUME NEW d \in Callers, NEW l \in Callers,
             Leading(l)', call'[d].flight = call'[l].flight
      PROVE  (Leading(d)' => d = l) /\ call'[d].key = call'[l].key
  <2>1. l # c /\ Leading(l) /\ call'[l] = call[l]
    BY <1>1, <1>2, <1>5
  <2>2. CASE d = c
    <3>1. l = e
      BY <1>2, <1>5, <2>1, <2>2 DEF FlightsHeld
    <3> QED
      BY <1>2, <2>1, <2>2, <3>1
  <2>3. CASE d # c
    BY <1>1, <1>2, <1>5, <2>1, <2>3 DEF FlightsHeld
  <2> QED
    BY <2>2, <2>3
<1>6. ASSUME NEW l \in Callers, Leading(l)', flight'[call'[l].flight].value # Null
      PROVE  pc'[l] = "pop" /\ call'[l].value = flight'[call'[l].flight].value
  BY <1>1, <1>2, <1>6 DEF FlightsHeld
<1>7. ASSUME NEW d \in Callers PROVE Answered(d)'
  <2>1. CASE d = c
    BY <2>1 DEF Answered
  <2>2. CASE d # c
    BY <1>1, <2>2 DEF QInv, Answered
  <2> QED
    BY <2>1, <2>2
<1> QED
  BY <1>4, <1>5, <1>6, <1>7 DEF FlightsHeld

-----------------------------------------------------------------------------
(* Where a step leaves its caller *)

Asks(c, q) == asked' = [asked EXCEPT ![c] = q]

Becomes(c, s) == call' = [call EXCEPT ![c] = s]

LEMMA CallerAt ==
    ASSUME QTypeOK, NEW c \in Callers, NEW place, NEW s, NEW q,
           Goto(c, place), Becomes(c, s), Asks(c, q)
    PROVE  /\ OthersWait(c)
           /\ pc'[c] = place /\ call'[c] = s /\ asked'[c] = q
  BY DEF QTypeOK, TypeOK, OthersWait, Goto, Becomes, Asks

LEMMA SameQuery ==
    ASSUME QTypeOK, NEW c \in Callers PROVE asked' = asked => Asks(c, asked[c])
  BY DEF QTypeOK, Asks

LEMMA Returned ==
    ASSUME QTypeOK, NEW c \in Callers, NEW value \in Values \cup {Null},
           NEW error \in Errors \cup {"fill", Null}, NEW struck \in BOOLEAN, NEW q \in Queries,
           Return(c, value, error, struck), Asks(c, q)
    PROVE  /\ OthersWait(c) /\ pc'[c] = "idle"
           /\ call'[c].value = value /\ call'[c].flight = Null /\ asked'[c] = q
<1> DEFINE s == [NoCall EXCEPT !.value = value, !.error = error, !.struck = struck]
<1>1. s.value = value /\ s.flight = Null
  BY DEF NoCall
<1>2. Goto(c, "idle") /\ Becomes(c, s)
  BY DEF Return, Becomes
<1> HIDE DEF s
<1>3. OthersWait(c) /\ pc'[c] = "idle" /\ call'[c] = s /\ asked'[c] = q
  BY <1>2, CallerAt
<1> QED
  BY <1>1, <1>3

\* A call that returns without having held a flight
LEMMA ReturnsAnswer ==
    ASSUME QInv, QTypeOK', Inv', NEW c \in Callers,
           pc[c] \in {"idle", "fallback", "own"},
           NEW value \in Values \cup {Null}, NEW error \in Errors \cup {"fill", Null},
           NEW struck \in BOOLEAN, NEW q \in Queries,
           Return(c, value, error, struck), Asks(c, q),
           q.seen = Null \/ q = asked[c], value # Null => q.floor <= value,
           UNCHANGED <<cache, flight, db, writing, acked, overtaken>>
    PROVE  QInv'
<1>1. QTypeOK
  BY DEF QInv
<1>2. /\ OthersWait(c) /\ pc'[c] = "idle"
      /\ call'[c].value = value /\ call'[c].flight = Null /\ asked'[c] = q
  BY <1>1, Returned
<1>3. ~Leading(c)' /\ ~Leading(c) /\ pc[c] # "wait" /\ call[c].flight = Null
  BY <1>2, Holding DEF Leading, LeaderPlaces
<1>4. FlightsHeld' /\ \A d \in Callers \ {c} : Answered(d)'
  BY <1>2, <1>3, HeldAsBefore
<1>5. Answered(c)'
  BY <1>2 DEF Answered
<1>6. Reads(c)
  BY <1>2 DEF Reads, Landing
<1> QED
  BY <1>2, <1>4, <1>5, <1>6, CallerKeeps

\* A query that begins asks for no more than is there.
LEMMA FreshFloor ==
    ASSUME QTypeOK', VersionsAgree', NEW c \in Callers, NEW k \in Keys,
           asked'[c].key = k, call'[c].key = k,
           asked'[c].floor = IF k \in overtaken' THEN 0 ELSE acked'[k]
    PROVE  Floored(c)'
<1>1. /\ db'[k] \in Nat /\ acked'[k] \in Nat /\ Underway(k)' \subseteq Nat
      /\ (cache'[k] # Null => cache'[k] \in Nat)
  BY VersionTypesNext
<1>2. /\ asked'[c].floor <= acked'[k]
      /\ \A v \in Underway(k)' : asked'[c].floor <= v
      /\ cache'[k] # Null => asked'[c].floor <= cache'[k]
  BY <1>1 DEF VersionsAgree
<1> QED
  BY <1>2 DEF Floored

\* What c's query must see is no newer than a version of its key under way.
LEMMA FloorUnderway ==
    ASSUME QInv, NEW c \in Callers, pc[c] # "idle", NEW e \in Callers, pc[e] # "idle",
           call[c].key = call[e].key
    PROVE  /\ asked[e].seen \in Versions => asked[c].floor <= asked[e].seen
           /\ pc[e] \in Landing /\ call[e].value # Null => asked[c].floor <= call[e].value
<1>1. asked[c].key = asked[e].key /\ asked[c].key = call[c].key
  BY AskedKey
<1>2. \A v \in Underway(asked[c].key) : asked[c].floor <= v
  BY DEF QInv, Floored
<1>3. call[e].value \in Values \cup {Null}
  BY DEF QInv, QTypeOK, TypeOK, Calls
<1> QED
  BY <1>1, <1>2, <1>3 DEF Underway, Versions

-----------------------------------------------------------------------------
(* fetch() *)

LEMMA HitFetches ==
    ASSUME QInv, QTypeOK', Inv', NEW c \in Callers, NEW k \in Keys, Fetch(c, k), Hit(c, k)
    PROVE  QInv'
<1> DEFINE q == [key |-> k, seen |-> Null, loaded |-> FALSE,
                 floor |-> IF k \in overtaken THEN 0 ELSE acked[k]]
<1>1. /\ Asks(c, q) /\ UNCHANGED <<db, writing, acked, overtaken>>
      /\ pc[c] = "idle" /\ cache[k] # Null /\ Return(c, cache[k], Null, FALSE)
      /\ cache' = cache /\ flight' = flight
  BY DEF Fetch, Hit, Asks
<1>2. q.seen = Null /\ q.floor = IF k \in overtaken THEN 0 ELSE acked[k]
  OBVIOUS
<1>3. q \in Queries
  BY DEF Queries, QInv, QTypeOK, Versions
<1>4. cache[k] \in Values \cup {Null} /\ Null \in Errors \cup {"fill", Null} /\ FALSE \in BOOLEAN
  BY DEF QInv, QTypeOK, TypeOK
<1>5. cache[k] \in Nat /\ (k \notin overtaken => acked[k] <= cache[k])
  BY <1>1, VersionTypes DEF QInv, VersionsAgree
<1> HIDE DEF q
<1>6. q.floor <= cache[k]
  BY <1>2, <1>5
<1> QED
  BY <1>1, <1>2, <1>3, <1>4, <1>6, ReturnsAnswer

\* A query that begins and does not return at once
LEMMA FetchGoesOn ==
    ASSUME QInv, QTypeOK', Inv', NEW c \in Callers, NEW k \in Keys, Fetch(c, k),
           NEW place \in {"join", "load", "wait"}, Goto(c, place),
           NEW s, Becomes(c, s), s.key = k, cache' = cache
    PROVE  /\ OthersWait(c) /\ pc'[c] = place /\ call'[c] = s /\ asked'[c].seen = Null
           /\ FlightsHeld' /\ (\A d \in Callers : Answered(d)') => QInv'
<1> DEFINE q == [key |-> k, seen |-> Null, loaded |-> FALSE,
                 floor |-> IF k \in overtaken THEN 0 ELSE acked[k]]
<1>1. /\ Asks(c, q) /\ UNCHANGED <<db, writing, acked, overtaken>>
  BY DEF Fetch, Asks
<1>2. q.seen = Null /\ q.key = k /\ q.floor = IF k \in overtaken THEN 0 ELSE acked[k]
  OBVIOUS
<1> HIDE DEF q
<1>3. OthersWait(c) /\ pc'[c] = place /\ call'[c] = s /\ asked'[c] = q
  BY <1>1, CallerAt DEF QInv
<1>4. Reads(c)
  BY <1>2, <1>3 DEF Reads, Landing
<1>5. VersionsAgree' => Floored(c)'
  BY <1>1, <1>2, <1>3, FreshFloor
<1> QED
  BY <1>1, <1>2, <1>3, <1>4, <1>5, CallerKeeps

LEMMA MissFetches ==
    ASSUME QInv, QTypeOK', Inv', NEW c \in Callers, NEW k \in Keys, Fetch(c, k), Miss(c, k)
    PROVE  QInv'
<1> DEFINE s == [NoCall EXCEPT !.key = k]
<1>1. s.key = k /\ s.flight = Null
  BY DEF NoCall
<1>2. /\ Goto(c, "join") /\ Becomes(c, s) /\ pc[c] = "idle"
      /\ cache' = cache /\ flight' = flight
  BY DEF Miss, Becomes
<1> HIDE DEF s
<1>3. OthersWait(c) /\ pc'[c] = "join" /\ call'[c] = s
  BY <1>1, <1>2, FetchGoesOn
<1>4. ~Leading(c) /\ ~Leading(c)' /\ pc[c] # "wait" /\ call[c].flight = Null
  BY <1>2, <1>3, Holding DEF Leading, LeaderPlaces
<1>5. FlightsHeld' /\ \A d \in Callers \ {c} : Answered(d)'
  BY <1>1, <1>2, <1>3, <1>4, HeldAsBefore
<1>6. Answered(c)'
  BY <1>3 DEF Answered
<1> QED
  BY <1>1, <1>2, <1>5, <1>6, FetchGoesOn

\* The leader that a follower finds
LEMMA LeaderFound ==
    ASSUME QInv, NEW c \in Callers, NEW k \in Keys, Follow(c, k)
    PROVE  \E e \in Callers :
              /\ Leading(e) /\ call[e].key = k /\ KindOf(e) = KindOf(c)
              /\ call[e].flight = flights[<<KindOf(c), k>>]
<1>1. <<KindOf(c), k>> \in DOMAIN flights
  BY DEF KindOf, Kinds, QInv, QTypeOK, TypeOK
<1>2. PICK e \in Leaders(flights[<<KindOf(c), k>>]) : Entry(e) = <<KindOf(c), k>>
  BY <1>1 DEF Follow, QInv, Inv, FlightInv, FlightsLed
<1> QED
  BY <1>2 DEF Leaders, Leading, LeaderPlaces, Entry

LEMMA TaskMissFetches ==
    ASSUME QInv, QTypeOK', Inv', NEW c \in Callers, NEW k \in Keys, Fetch(c, k), TaskMiss(c, k)
    PROVE  QInv'
<1>1. c \in Tasks /\ pc[c] = "idle" /\ cache' = cache
  BY DEF TaskMiss
<1>2. call[c].flight = Null
  BY <1>1, Holding DEF Leading, LeaderPlaces
<1>3. CASE Lead(c, k)
  <2> DEFINE s == [NoCall EXCEPT !.key = k, !.flight = FreeFlight(KindOf(c))]
  <2>1. s.key = k /\ s.flight = FreeFlight(KindOf(c))
    BY DEF NoCall
  <2>2. Goto(c, "load") /\ Becomes(c, s) /\ flight' = flight
    BY <1>3 DEF Lead, Becomes
  <2> HIDE DEF s
  <2>3. OthersWait(c) /\ pc'[c] = "load" /\ call'[c] = s
    BY <1>1, <2>1, <2>2, FetchGoesOn
  <2>4. FlightsHeld' /\ \A d \in Callers : Answered(d)'
    BY <1>2, <2>1, <2>2, <2>3, HeldByLeader
  <2> QED
    BY <1>1, <2>1, <2>2, <2>4, FetchGoesOn
<1>4. CASE Follow(c, k)
  <2> DEFINE f == flights[<<KindOf(c), k>>]
             s == [NoCall EXCEPT !.key = k, !.flight = f]
  <2>1. s.key = k /\ s.flight = f
    BY DEF NoCall
  <2>2. Goto(c, "wait") /\ Becomes(c, s) /\ flight' = flight
    BY <1>4 DEF Follow, Becomes
  <2>3. PICK e \in Callers : /\ Leading(e) /\ call[e].key = k /\ KindOf(e) = KindOf(c)
                             /\ call[e].flight = f
    BY <1>4, LeaderFound
  <2> HIDE DEF s, f
  <2>4. e \in Tasks
    BY <1>1, <2>3, SingleFlightAssumption DEF KindOf, Callers
  <2>5. flight[call[e].flight].value = Null
    BY <2>3, <2>4 DEF QInv, FlightsHeld, Inv, CallsShaped, Shaped
  <2>6. OthersWait(c) /\ pc'[c] = "wait" /\ call'[c] = s
    BY <1>1, <2>1, <2>2, FetchGoesOn
  <2>7. FlightsHeld' /\ \A d \in Callers : Answered(d)'
    BY <1>2, <2>1, <2>2, <2>3, <2>5, <2>6, HeldByFollower
  <2> QED
    BY <1>1, <2>1, <2>2, <2>7, FetchGoesOn
<1> QED
  BY <1>3, <1>4 DEF TaskMiss

LEMMA FetchKeeps ==
    ASSUME QInv, QTypeOK', Inv', NEW c \in Callers, NEW k \in Keys, Fetch(c, k) PROVE QInv'
<1>1. Hit(c, k) \/ Miss(c, k) \/ TaskMiss(c, k)
  BY DEF Fetch
<1> QED
  BY <1>1, HitFetches, MissFetches, TaskMissFetches

\* A step of a query under way, within it
LEMMA GoesOn ==
    ASSUME QInv, QTypeOK', Inv', NEW c \in Callers, pc[c] # "idle", OthersWait(c), Reads(c),
           pc'[c] \notin {"idle", "wait"}, call'[c].key = call[c].key,
           asked'[c].key = asked[c].key, asked'[c].floor = asked[c].floor,
           UNCHANGED <<db, writing, acked, overtaken>>,
           \A k \in Keys : cache'[k] \in {cache[k], Null} \cup Underway(k),
           FlightsHeld', \A d \in Callers \ {c} : Answered(d)'
    PROVE  QInv'
<1>1. Answered(c)'
  BY DEF Answered
<1> QED
  BY <1>1, CallerKeeps

LEMMA JoinGoesOn ==
    ASSUME QInv, QTypeOK', Inv', NEW c \in Callers, Join(c), UNCHANGED dbvars PROVE QInv'
<1> DEFINE k == call[c].key
<1>1. /\ pc[c] = "join" /\ cache' = cache /\ asked' = asked
      /\ UNCHANGED <<db, writing, acked, overtaken>>
  BY DEF Join, dbvars
<1>2. QTypeOK /\ Asks(c, asked[c])
  BY <1>1, SameQuery DEF QInv
<1>3. call[c].flight = Null
  BY <1>1, Holding DEF Leading, LeaderPlaces
<1>4. call[c].key \in Keys
  BY <1>1, AskedKey
<1>5. CASE Lead(c, k)
  <2> DEFINE s == [NoCall EXCEPT !.key = k, !.flight = FreeFlight(KindOf(c))]
  <2>1. s.key = k /\ s.flight = FreeFlight(KindOf(c))
    BY DEF NoCall
  <2>2. Goto(c, "load") /\ Becomes(c, s) /\ flight' = flight
    BY <1>5 DEF Lead, Becomes
  <2> HIDE DEF s
  <2>3. OthersWait(c) /\ pc'[c] = "load" /\ call'[c] = s /\ asked'[c] = asked[c]
    BY <1>2, <2>2, CallerAt
  <2>4. FlightsHeld' /\ \A d \in Callers : Answered(d)'
    BY <1>3, <2>1, <2>2, <2>3, HeldByLeader
  <2>5. Reads(c)
    BY <2>3 DEF Reads, Landing
  <2> QED
    BY <1>1, <2>1, <2>3, <2>4, <2>5, CallerKeeps
<1>6. CASE Follow(c, k)
  <2> DEFINE f == flights[<<KindOf(c), k>>]
             s == [NoCall EXCEPT !.key = k, !.flight = f]
  <2>1. s.key = k /\ s.flight = f
    BY DEF NoCall
  <2>2. Goto(c, "wait") /\ Becomes(c, s) /\ flight' = flight
    BY <1>6 DEF Follow, Becomes
  <2>3. PICK e \in Callers : Leading(e) /\ call[e].key = k /\ call[e].flight = f
    BY <1>4, <1>6, LeaderFound
  <2> HIDE DEF s, f
  <2>4. OthersWait(c) /\ pc'[c] = "wait" /\ call'[c] = s /\ asked'[c] = asked[c]
    BY <1>2, <2>2, CallerAt
  <2>5. flight[call[e].flight].value # Null => asked[c].floor <= flight[call[e].flight].value
    <3>1. SUFFICES ASSUME flight[call[e].flight].value # Null
                   PROVE  asked[c].floor <= flight[call[e].flight].value
      OBVIOUS
    <3>2. pc[e] = "pop" /\ call[e].value = flight[call[e].flight].value
      BY <2>3, <3>1 DEF QInv, FlightsHeld
    <3>3. pc[c] # "idle" /\ pc[e] # "idle" /\ pc[e] \in Landing
      BY <1>1, <3>2 DEF Landing
    <3> QED
      BY <2>3, <3>1, <3>2, <3>3, FloorUnderway
  <2>6. FlightsHeld' /\ \A d \in Callers : Answered(d)'
    BY <1>3, <2>1, <2>2, <2>3, <2>4, <2>5, HeldByFollower
  <2>7. Reads(c)
    BY <2>4 DEF Reads, Landing
  <2> QED
    BY <1>1, <2>1, <2>4, <2>6, <2>7, CallerKeeps
<1> QED
  BY <1>5, <1>6 DEF Join

\* A load reads the row.
LEMMA ReadGoesOn ==
    ASSUME QInv, QTypeOK', Inv', NEW c \in Callers, Read(c) PROVE QInv'
<1> DEFINE q == [asked[c] EXCEPT !.seen = db[asked[c].key], !.loaded = TRUE]
<1>1. /\ pc[c] \in {"load", "own"} /\ Asks(c, q)
      /\ UNCHANGED <<cache, flight, pc, call, db, writing, acked, overtaken>>
  BY DEF Read, vars, Asks
<1>2. QTypeOK /\ asked[c] \in Queries
  BY DEF QInv, QTypeOK
<1>3. q.seen = db[asked[c].key] /\ q.key = asked[c].key /\ q.floor = asked[c].floor
  BY <1>2 DEF Queries
<1> HIDE DEF q
<1>4. Goto(c, pc[c]) /\ Becomes(c, call[c])
  BY <1>1, <1>2 DEF Goto, Becomes, QTypeOK, TypeOK
<1>5. OthersWait(c) /\ pc'[c] = pc[c] /\ call'[c] = call[c] /\ asked'[c] = q
  BY <1>1, <1>2, <1>4, CallerAt
<1>6. Reads(c)
  BY <1>1, <1>3, <1>5 DEF Reads, Landing
<1>7. (Leading(c)' <=> Leading(c)) /\ pc[c] # "pop" /\ pc[c] # "wait" /\ pc[c] # "idle"
  BY <1>1, <1>5 DEF Leading
<1>8. FlightsHeld' /\ \A d \in Callers \ {c} : Answered(d)'
  BY <1>1, <1>5, <1>7, HeldAsBefore
<1> QED
  BY <1>1, <1>3, <1>5, <1>6, <1>7, <1>8, GoesOn

-----------------------------------------------------------------------------
(* The leader *)

LEMMA ThreadLoadsGoesOn ==
    ASSUME QInv, QTypeOK', Inv', NEW c \in Callers, NEW value \in {Null, asked[c].seen},
           ThreadLoads(c, value),
           asked' = [asked EXCEPT ![c].seen = Null],
           UNCHANGED <<db, writing, acked, overtaken>>
    PROVE  QInv'
<1> DEFINE place == IF value = Null THEN "finish" ELSE "set"
           s == [call[c] EXCEPT !.value = value]
           q == [asked[c] EXCEPT !.seen = Null]
<1>1. /\ pc[c] = "load" /\ Goto(c, place) /\ Becomes(c, s) /\ Asks(c, q)
      /\ cache' = cache /\ flight' = flight
  BY DEF ThreadLoads, Becomes, Asks
<1>2. QTypeOK /\ asked[c] \in Queries /\ call[c] \in Calls
  BY DEF QInv, QTypeOK, TypeOK
<1>3. /\ s.key = call[c].key /\ s.flight = call[c].flight /\ s.value = value
      /\ q.seen = Null /\ q.key = asked[c].key /\ q.floor = asked[c].floor
      /\ place \in {"set", "finish"}
  BY <1>2 DEF Calls, Queries
<1> HIDE DEF place, s, q
<1>4. OthersWait(c) /\ pc'[c] = place /\ call'[c] = s /\ asked'[c] = q
  BY <1>1, <1>2, CallerAt
<1>5. Reads(c)
  BY <1>3, <1>4 DEF Reads
<1>6. Leading(c)' /\ Leading(c)
  BY <1>1, <1>3, <1>4 DEF Leading, LeaderPlaces
<1>7. FlightsHeld' /\ \A d \in Callers \ {c} : Answered(d)'
  BY <1>1, <1>3, <1>4, <1>6, HeldAsBefore
<1> QED
  BY <1>1, <1>3, <1>4, <1>5, <1>7, GoesOn

LEMMA ThreadRaisesGoesOn ==
    ASSUME QInv, QTypeOK', Inv', NEW c \in Callers, NEW error, ThreadRaises(c, error),
           asked' = [asked EXCEPT ![c].seen = Null],
           UNCHANGED <<db, writing, acked, overtaken>>
    PROVE  QInv'
<1> DEFINE s == [call[c] EXCEPT !.value = Null, !.error = error,
                                !.struck = (error \in Interruptions)]
           q == [asked[c] EXCEPT !.seen = Null]
<1>1. /\ pc[c] \in {"load", "set"} /\ Goto(c, "finish") /\ Becomes(c, s) /\ Asks(c, q)
      /\ cache' = cache /\ flight' = flight
  BY DEF ThreadRaises, Becomes, Asks
<1>2. QTypeOK /\ asked[c] \in Queries /\ call[c] \in Calls
  BY DEF QInv, QTypeOK, TypeOK
<1>3. /\ s.key = call[c].key /\ s.flight = call[c].flight /\ s.value = Null
      /\ q.seen = Null /\ q.key = asked[c].key /\ q.floor = asked[c].floor
  BY <1>2 DEF Calls, Queries
<1> HIDE DEF s, q
<1>4. OthersWait(c) /\ pc'[c] = "finish" /\ call'[c] = s /\ asked'[c] = q
  BY <1>1, <1>2, CallerAt
<1>5. Reads(c)
  BY <1>3, <1>4 DEF Reads
<1>6. Leading(c)' /\ Leading(c)
  BY <1>1, <1>4 DEF Leading, LeaderPlaces
<1>7. FlightsHeld' /\ \A d \in Callers \ {c} : Answered(d)'
  BY <1>1, <1>3, <1>4, <1>6, HeldAsBefore
<1> QED
  BY <1>1, <1>3, <1>4, <1>5, <1>7, GoesOn

\* A step that changes the place of c alone
LEMMA GoesAlone ==
    ASSUME QInv, NEW c \in Callers, NEW place, Goto(c, place), call' = call, asked' = asked
    PROVE  OthersWait(c) /\ pc'[c] = place /\ call'[c] = call[c] /\ asked'[c] = asked[c]
<1>1. QTypeOK /\ Becomes(c, call[c])
  BY DEF QInv, QTypeOK, TypeOK, Becomes
<1> QED
  BY <1>1, SameQuery, CallerAt

LEMMA SetGoesOn ==
    ASSUME QInv, QTypeOK', Inv', NEW c \in Callers, Set(c), UNCHANGED dbvars PROVE QInv'
<1>1. /\ pc[c] = "set" /\ Goto(c, "finish") /\ call' = call /\ asked' = asked
      /\ cache' = [cache EXCEPT ![call[c].key] = call[c].value] /\ flight' = flight
      /\ UNCHANGED <<db, writing, acked, overtaken>>
  BY DEF Set, dbvars
<1>2. OthersWait(c) /\ pc'[c] = "finish" /\ call'[c] = call[c] /\ asked'[c] = asked[c]
  BY <1>1, GoesAlone
<1>3. Leading(c)' /\ Leading(c)
  BY <1>1, <1>2 DEF Leading, LeaderPlaces
<1>4. FlightsHeld' /\ \A d \in Callers \ {c} : Answered(d)'
  BY <1>1, <1>2, <1>3, HeldAsBefore
<1>5. call[c].value \in Values /\ asked[c].key = call[c].key
  BY <1>1, <1>3, LeaderCall, AskedKey DEF QInv
<1>6. call[c].value \in Underway(call[c].key)
  BY <1>1, <1>5 DEF Underway, Landing, Versions
<1>7. \A k \in Keys : cache'[k] \in {cache[k], Null} \cup Underway(k)
  BY <1>1, <1>6 DEF QInv, QTypeOK, TypeOK
<1>8. Reads(c)
  BY <1>1, <1>2 DEF Reads, Landing
<1> QED
  BY <1>1, <1>2, <1>4, <1>7, <1>8, GoesOn

LEMMA FinishGoesOn ==
    ASSUME QInv, QTypeOK', Inv', NEW c \in Callers, Finish(c), UNCHANGED dbvars PROVE QInv'
<1> DEFINE f == call[c].flight
           ended == Ended(KindOf(c), call[c].value, call[c].error)
<1>1. /\ pc[c] = "finish" /\ Goto(c, "pop") /\ call' = call /\ asked' = asked
      /\ cache' = cache /\ flight' = [flight EXCEPT ![f] = ended]
      /\ UNCHANGED <<db, writing, acked, overtaken>>
  BY DEF Finish, dbvars
<1>2. OthersWait(c) /\ pc'[c] = "pop" /\ call'[c] = call[c] /\ asked'[c] = asked[c]
  BY <1>1, GoesAlone
<1>3. Leading(c) /\ f \in FlightIds /\ ended.value = call[c].value
  BY <1>1, Holding DEF Leading, LeaderPlaces, Ended
<1>4. FlightsHeld /\ flight \in [FlightIds -> Flights]
  BY DEF QInv, QTypeOK, TypeOK
<1>5. \A d \in Callers : (Leading(d)' <=> Leading(d)) /\ call'[d] = call[d]
  BY <1>1, <1>2, <1>3 DEF OthersWait, Leading, LeaderPlaces
<1> HIDE DEF f, ended
<1>6. flight'[f] = ended /\ \A g \in FlightIds \ {f} : flight'[g] = flight[g]
  BY <1>1, <1>3, <1>4
<1>7. ASSUME NEW g \in FlightIds, \A d \in Callers : call'[d].flight # g
      PROVE  flight'[g].value = Null
  BY <1>4, <1>5, <1>6, <1>7 DEF FlightsHeld, f
<1>8. ASSUME NEW d \in Callers, NEW e \in Callers,
             Leading(e)', call'[d].flight = call'[e].flight
      PROVE  (Leading(d)' => d = e) /\ call'[d].key = call'[e].key
  BY <1>4, <1>5, <1>8 DEF FlightsHeld
<1>9. ASSUME NEW e \in Callers, Leading(e)', flight'[call'[e].flight].value # Null
      PROVE  pc'[e] = "pop" /\ call'[e].value = flight'[call'[e].flight].value
  <2>1. CASE e = c
    BY <1>2, <1>3, <1>6, <2>1 DEF f
  <2>2. CASE e # c
    <3>1. Leading(e) /\ call[e].flight # f /\ call[e].flight \in FlightIds
      BY <1>3, <1>4, <1>5, <1>9, <2>2, Holding DEF FlightsHeld, f
    <3> QED
      BY <1>2, <1>4, <1>5, <1>6, <1>9, <2>2, <3>1 DEF FlightsHeld, OthersWait
  <2> QED
    BY <2>1, <2>2
<1>10. ASSUME NEW d \in Callers \ {c} PROVE Answered(d)'
  <2>1. pc'[d] = pc[d] /\ call'[d] = call[d] /\ asked'[d] = asked[d]
    BY <1>2 DEF OthersWait
  <2>2. CASE pc[d] = "wait" /\ call[d].flight = f
    <3>1. call[d].key = call[c].key
      BY <1>3, <1>4, <2>2 DEF FlightsHeld, f
    <3>2. pc[c] \in Landing /\ pc[c] # "idle" /\ pc[d] # "idle"
      BY <1>1, <2>2 DEF Landing
    <3>3. call[c].value # Null => asked[d].floor <= call[c].value
      BY <3>1, <3>2, FloorUnderway
    <3> QED
      BY <1>3, <1>6, <2>1, <2>2, <3>3 DEF Answered
  <2>3. CASE pc[d] = "wait" /\ call[d].flight # f
    <3>1. call[d].flight \in FlightIds
      BY <2>3, Holding
    <3> QED
      BY <1>6, <2>1, <2>3, <3>1 DEF QInv, Answered
  <2>4. CASE pc[d] # "wait"
    BY <2>1, <2>4 DEF QInv, Answered
  <2> QED
    BY <2>2, <2>3, <2>4
<1>11. FlightsHeld'
  BY <1>7, <1>8, <1>9 DEF FlightsHeld
<1>12. Reads(c)
  BY <1>1, <1>2 DEF Reads, Landing
<1> QED
  BY <1>1, <1>2, <1>10, <1>11, <1>12, GoesOn

\* A call that returns and leaves its flight
LEMMA LeavesAnswer ==
    ASSUME QInv, QTypeOK, QTypeOK', Inv', NEW c \in Callers, Leading(c) \/ pc[c] = "wait",
           NEW value \in Values \cup {Null}, NEW error \in Errors \cup {"fill", Null},
           NEW struck \in BOOLEAN, NEW q \in Queries,
           Return(c, value, error, struck), Asks(c, q),
           q.seen = Null \/ q = asked[c], value # Null => q.floor <= value,
           NEW objects, flight' = Without(c, objects),
           \A f \in FlightIds \ {call[c].flight} : objects[f] = flight[f],
           Leading(c) \/ objects = flight,
           \A d \in Callers \ {c} :
              /\ pc[d] = "wait" /\ call[d].flight = call[c].flight
              /\ objects[call[d].flight].value # Null
              => asked[d].floor <= objects[call[d].flight].value,
           \A k \in Keys : cache'[k] \in {cache[k], Null} \cup Underway(k),
           UNCHANGED <<db, writing, acked, overtaken>>
    PROVE  QInv'
<1>1. OthersWait(c) /\ pc'[c] = "idle"
  BY Returned
<1>2. call'[c].value = value /\ call'[c].flight = Null /\ asked'[c] = q
  BY Returned
<1>3. ~Leading(c)'
  BY <1>1 DEF Leading, LeaderPlaces
<1>4. FlightsHeld' /\ \A d \in Callers \ {c} : Answered(d)'
  BY <1>1, <1>2, <1>3, HeldByOthers
<1>5. Answered(c)'
  BY <1>1, <1>2 DEF Answered
<1>6. Reads(c)
  BY <1>1, <1>2 DEF Reads, Landing
<1> QED
  BY <1>1, <1>2, <1>4, <1>5, <1>6, CallerKeeps

\* Whoever waits with c for its flight gets what the flight already has.
LEMMA FlightAsItIs ==
    ASSUME QInv, NEW c \in Callers
    PROVE  \A d \in Callers \ {c} :
              /\ pc[d] = "wait" /\ call[d].flight = call[c].flight
              /\ flight[call[d].flight].value # Null
              => asked[d].floor <= flight[call[d].flight].value
  BY DEF QInv, Answered

LEMMA PopGoesOn ==
    ASSUME QInv, QTypeOK', Inv', NEW c \in Callers, Pop(c), UNCHANGED dbvars PROVE QInv'
<1> DEFINE value == call[c].value
           error == call[c].error
           struck == call[c].struck
<1>1. /\ pc[c] = "pop" /\ flight' = Without(c, flight) /\ cache' = cache /\ asked' = asked
      /\ Return(c, value, error, struck) /\ UNCHANGED <<db, writing, acked, overtaken>>
  BY DEF Pop, dbvars
<1>2. Leading(c) /\ QTypeOK /\ Asks(c, asked[c]) /\ asked[c] \in Queries
  BY <1>1, SameQuery DEF Leading, LeaderPlaces, QInv, QTypeOK
<1>3. call[c] \in Calls
  BY DEF QInv, QTypeOK, TypeOK
<1>4. /\ value \in Values \cup {Null} /\ error \in Errors \cup {"fill", Null}
      /\ struck \in BOOLEAN
  BY <1>3 DEF Calls
<1>5. value # Null => asked[c].floor <= value
  BY <1>1, FloorUnderway DEF Landing
<1> HIDE DEF value, error, struck
<1> QED
  BY <1>1, <1>2, <1>4, <1>5, FlightAsItIs, LeavesAnswer

LEMMA TaskFillsGoesOn ==
    ASSUME QInv, QTypeOK', Inv', NEW c \in Callers, NEW value \in Values,
           value = asked[c].seen, TaskFills(c, value),
           asked' = [asked EXCEPT ![c].seen = Null],
           UNCHANGED <<db, writing, acked, overtaken>>
    PROVE  QInv'
<1> DEFINE q == [asked[c] EXCEPT !.seen = Null]
           f == call[c].flight
           objects == [flight EXCEPT ![f] = Ended("task", value, Null)]
<1>1. /\ c \in Tasks /\ pc[c] = "load" /\ Return(c, value, Null, FALSE) /\ Asks(c, q)
      /\ cache' = [cache EXCEPT ![call[c].key] = value] /\ flight' = Without(c, objects)
  BY DEF TaskFills, Asks
<1>2. QTypeOK /\ asked[c] \in Queries
  BY DEF QInv, QTypeOK
<1>3. /\ q \in Queries /\ q.seen = Null /\ q.key = asked[c].key /\ q.floor = asked[c].floor
  BY <1>2 DEF Queries
<1> HIDE DEF q
<1>4. Leading(c) /\ f \in FlightIds /\ call[c].key = asked[c].key /\ call[c].key \in Keys
  BY <1>1, Holding, AskedKey DEF Leading, LeaderPlaces
<1>5. flight \in [FlightIds -> Flights] /\ FlightsHeld /\ value \in Versions /\ value # Null
  BY SingleFlightAssumption DEF QInv, QTypeOK, TypeOK, Versions
<1>6. /\ objects[f].value = value
      /\ \A g \in FlightIds \ {f} : objects[g] = flight[g]
  BY <1>4, <1>5 DEF Ended
<1> HIDE DEF objects, f
<1>7. \A d \in Callers : pc[d] # "idle" /\ call[d].key = call[c].key => asked[d].floor <= value
  BY <1>1, <1>5, FloorUnderway
<1>8. \A d \in Callers \ {c} :
         pc[d] = "wait" /\ call[d].flight = f => asked[d].floor <= objects[call[d].flight].value
  BY <1>4, <1>5, <1>6, <1>7 DEF FlightsHeld, f
<1>9. q.floor <= value
  BY <1>1, <1>3, <1>7
<1>10. \A k \in Keys : cache'[k] \in {cache[k], Null} \cup Underway(k)
  <2>1. value \in Underway(call[c].key)
    BY <1>4, <1>5 DEF Underway
  <2> QED
    BY <1>1, <1>2, <1>4, <2>1 DEF QTypeOK, TypeOK
<1>11. Null \in Errors \cup {"fill", Null} /\ FALSE \in BOOLEAN /\ value \in Values \cup {Null}
  OBVIOUS
<1> QED
  BY <1>1, <1>2, <1>3, <1>4, <1>6, <1>8, <1>9, <1>10, <1>11, LeavesAnswer DEF f

LEMMA TaskEndsGoesOn ==
    ASSUME QInv, QTypeOK', Inv', NEW c \in Callers, NEW error \in LoaderErrors,
           TaskEnds(c, error),
           asked' = [asked EXCEPT ![c].seen = Null],
           UNCHANGED <<db, writing, acked, overtaken>>
    PROVE  QInv'
<1> DEFINE q == [asked[c] EXCEPT !.seen = Null]
           f == call[c].flight
           objects == [flight EXCEPT ![f] = Ended("task", Null, error)]
           struck == (error \in Interruptions)
<1>1. /\ c \in Tasks /\ pc[c] = "load" /\ Return(c, Null, error, struck) /\ Asks(c, q)
      /\ cache' = cache /\ flight' = Without(c, objects)
  BY DEF TaskEnds, Asks
<1>2. QTypeOK /\ asked[c] \in Queries
  BY DEF QInv, QTypeOK
<1>3. /\ q \in Queries /\ q.seen = Null
  BY <1>2 DEF Queries
<1>4. struck \in BOOLEAN /\ error \in Errors \cup {"fill", Null} /\ Null \in Values \cup {Null}
  BY DEF LoaderErrors, Errors
<1> HIDE DEF q, struck
<1>5. Leading(c) /\ f \in FlightIds
  BY <1>1, Holding DEF Leading, LeaderPlaces
<1>6. flight \in [FlightIds -> Flights]
  BY DEF QInv, QTypeOK, TypeOK
<1>7. /\ objects[f].value = Null
      /\ \A g \in FlightIds \ {f} : objects[g] = flight[g]
  BY <1>5, <1>6 DEF Ended
<1> HIDE DEF objects
<1> QED
  BY <1>1, <1>2, <1>3, <1>4, <1>5, <1>7, LeavesAnswer

-----------------------------------------------------------------------------
(* The followers *)

\* A follower stops waiting to help itself.
LEMMA FallsBackGoesOn ==
    ASSUME QInv, QTypeOK', Inv', NEW c \in Callers, pc[c] = "wait",
           call' = [call EXCEPT ![c].flight = Null], Goto(c, "fallback"),
           flight' = Without(c, flight), asked' = asked,
           UNCHANGED <<cache, db, writing, acked, overtaken>>
    PROVE  QInv'
<1> DEFINE s == [call[c] EXCEPT !.flight = Null]
<1>1. QTypeOK /\ call[c] \in Calls /\ Asks(c, asked[c]) /\ Becomes(c, s)
  BY SameQuery DEF QInv, QTypeOK, TypeOK, Becomes
<1>2. s.flight = Null /\ s.key = call[c].key
  BY <1>1 DEF Calls
<1> HIDE DEF s
<1>3. OthersWait(c) /\ pc'[c] = "fallback" /\ call'[c] = s /\ asked'[c] = asked[c]
  BY <1>1, CallerAt
<1>4. ~Leading(c)'
  BY <1>3 DEF Leading, LeaderPlaces
<1>5. FlightsHeld' /\ \A d \in Callers \ {c} : Answered(d)'
  BY <1>2, <1>3, <1>4, FlightAsItIs, HeldByOthers
<1>6. Reads(c)
  BY <1>3 DEF Reads, Landing
<1> QED
  BY <1>2, <1>3, <1>5, <1>6, GoesOn

LEMMA ServedGoesOn ==
    ASSUME QInv, QTypeOK', Inv', NEW c \in Callers, Served(c), UNCHANGED dbvars PROVE QInv'
<1> DEFINE value == flight[call[c].flight].value
           error == flight[call[c].flight].error
<1>1. /\ pc[c] = "wait" /\ flight' = Without(c, flight) /\ cache' = cache /\ asked' = asked
      /\ UNCHANGED <<db, writing, acked, overtaken>>
      /\ IF FallsBack(c, error)
         THEN call' = [call EXCEPT ![c].flight = Null] /\ Goto(c, "fallback")
         ELSE Return(c, value, error, FALSE)
  BY DEF Served, dbvars
<1>2. QTypeOK /\ Asks(c, asked[c]) /\ asked[c] \in Queries
  BY <1>1, SameQuery DEF QInv, QTypeOK
<1>3. flight[call[c].flight] \in Flights
  BY <1>1, Holding DEF QInv, QTypeOK, TypeOK
<1>4. /\ value \in Values \cup {Null} /\ error \in Errors \cup {"fill", Null} /\ FALSE \in BOOLEAN
  BY <1>3 DEF Flights
<1>5. value # Null => asked[c].floor <= value
  BY <1>1 DEF QInv, Answered
<1> HIDE DEF value, error
<1>6. CASE FallsBack(c, error)
  BY <1>1, <1>6, FallsBackGoesOn
<1>7. CASE ~FallsBack(c, error)
  <2>1. Return(c, value, error, FALSE)
    BY <1>1, <1>7
  <2> QED
    BY <1>1, <1>2, <1>4, <1>5, <2>1, FlightAsItIs, LeavesAnswer
<1> QED
  BY <1>6, <1>7

LEMMA FillTimeoutGoesOn ==
    ASSUME QInv, QTypeOK', Inv', NEW c \in Callers, FillTimeout(c), UNCHANGED dbvars PROVE QInv'
  BY FallsBackGoesOn DEF FillTimeout, dbvars

LEMMA InterruptedGoesOn ==
    ASSUME QInv, QTypeOK', Inv', NEW c \in Callers, Interrupted(c), UNCHANGED dbvars PROVE QInv'
<1>1. /\ pc[c] = "wait" /\ flight' = Without(c, flight) /\ cache' = cache /\ asked' = asked
      /\ UNCHANGED <<db, writing, acked, overtaken>>
      /\ Return(c, Null, KeptBy(KindOf(c)), TRUE)
  BY DEF Interrupted, dbvars
<1>2. QTypeOK /\ Asks(c, asked[c]) /\ asked[c] \in Queries
  BY <1>1, SameQuery DEF QInv, QTypeOK
<1>3. /\ Null \in Values \cup {Null} /\ KeptBy(KindOf(c)) \in Errors \cup {"fill", Null}
      /\ TRUE \in BOOLEAN
  BY KindsOfFlights DEF Errors
<1> QED
  BY <1>1, <1>2, <1>3, FlightAsItIs, LeavesAnswer

LEMMA FallbackGoesOn ==
    ASSUME QInv, QTypeOK', Inv', NEW c \in Callers, Fallback(c), UNCHANGED dbvars PROVE QInv'
<1>1. /\ pc[c] = "fallback" /\ asked' = asked
      /\ UNCHANGED <<cache, flight, db, writing, acked, overtaken>>
  BY DEF Fallback, dbvars
<1>2. QTypeOK /\ Asks(c, asked[c]) /\ asked[c] \in Queries
  BY <1>1, SameQuery DEF QInv, QTypeOK
<1>3. /\ Null \in Values \cup {Null} /\ Null \in Errors \cup {"fill", Null}
      /\ "fill" \in Errors \cup {"fill", Null} /\ FALSE \in BOOLEAN
  OBVIOUS
<1>4. CASE Return(c, Null, "fill", FALSE)
  BY <1>1, <1>2, <1>3, <1>4, ReturnsAnswer
<1>5. CASE Return(c, cache[call[c].key], Null, FALSE)
  <2>1. call[c].key = asked[c].key /\ call[c].key \in Keys
    BY <1>1, AskedKey
  <2>2. cache[call[c].key] \in Values \cup {Null}
    BY <1>2, <2>1 DEF QTypeOK, TypeOK
  <2>3. cache[call[c].key] # Null => asked[c].floor <= cache[call[c].key]
    BY <1>1, <2>1 DEF QInv, Floored
  <2> QED
    BY <1>1, <1>2, <1>3, <1>5, <2>2, <2>3, ReturnsAnswer
<1>6. CASE Goto(c, "own") /\ UNCHANGED call
  <2>1. OthersWait(c) /\ pc'[c] = "own" /\ call'[c] = call[c] /\ asked'[c] = asked[c]
    BY <1>1, <1>6, GoesAlone
  <2>2. ~Leading(c)' /\ ~Leading(c)
    BY <1>1, <2>1 DEF Leading, LeaderPlaces
  <2>3. FlightsHeld' /\ \A d \in Callers \ {c} : Answered(d)'
    BY <1>1, <2>1, <2>2, HeldAsBefore
  <2>4. Reads(c)
    BY <2>1 DEF Reads, Landing
  <2> QED
    BY <1>1, <2>1, <2>3, <2>4, GoesOn
<1> QED
  BY <1>4, <1>5, <1>6 DEF Fallback

LEMMA OwnLoadGoesOn ==
    ASSUME QInv, QTypeOK', Inv', NEW c \in Callers, NEW value \in Values \cup {Null},
           value # Null => value = asked[c].seen,
           NEW error \in {"error", Null}, OwnLoad(c, value, error),
           asked' = [asked EXCEPT ![c].seen = Null],
           UNCHANGED <<db, writing, acked, overtaken>>
    PROVE  QInv'
<1> DEFINE q == [asked[c] EXCEPT !.seen = Null]
<1>1. /\ pc[c] = "own" /\ Return(c, value, error, FALSE) /\ Asks(c, q)
      /\ UNCHANGED <<cache, flight>>
  BY DEF OwnLoad, Asks
<1>2. QTypeOK /\ asked[c] \in Queries
  BY DEF QInv, QTypeOK
<1>3. /\ q \in Queries /\ q.seen = Null /\ q.floor = asked[c].floor
  BY <1>2 DEF Queries
<1>4. FALSE \in BOOLEAN /\ error \in Errors \cup {"fill", Null}
  BY DEF Errors
<1> HIDE DEF q
<1>5. value # Null => q.floor <= value
  BY <1>1, <1>3, FloorUnderway DEF Versions
<1> QED
  BY <1>1, <1>2, <1>3, <1>4, <1>5, ReturnsAnswer

LEMMA LoadReturnsGoesOn ==
    ASSUME QInv, QTypeOK', Inv', NEW c \in Callers, LoadReturns(c) PROVE QInv'
<1> DEFINE value == Row(asked[c].seen)
<1>1. /\ LoaderReturns(c, value) /\ asked' = [asked EXCEPT ![c].seen = Null]
      /\ UNCHANGED <<db, writing, acked, overtaken>>
  BY DEF LoadReturns
<1>2. value \in Values \cup {Null} /\ (value # Null => value = asked[c].seen)
  BY DEF LoadReturns, QInv, QTypeOK, Queries, Versions, Row
<1>3. Null \in LoaderErrors
  BY DEF LoaderErrors
<1> HIDE DEF value
<1>4. CASE ThreadLoads(c, value)
  BY <1>1, <1>2, <1>4, ThreadLoadsGoesOn
<1>5. CASE value # Null /\ TaskFills(c, value)
  BY <1>1, <1>2, <1>5, TaskFillsGoesOn
<1>6. CASE TaskEnds(c, Null)
  BY <1>1, <1>3, <1>6, TaskEndsGoesOn
<1>7. CASE OwnLoad(c, value, Null)
  BY <1>1, <1>2, <1>3, <1>7, OwnLoadGoesOn
<1> QED
  BY <1>1, <1>4, <1>5, <1>6, <1>7 DEF LoaderReturns

LEMMA LoadRaisesGoesOn ==
    ASSUME QInv, QTypeOK', Inv', NEW c \in Callers, LoadRaises(c) PROVE QInv'
<1>1. /\ LoaderRaises(c) /\ asked' = [asked EXCEPT ![c].seen = Null]
      /\ UNCHANGED <<db, writing, acked, overtaken>>
  BY DEF LoadRaises
<1>2. /\ \A error \in Interruptions \cup {"error", "timeout"} : error \in LoaderErrors
      /\ Null \in Values \cup {Null}
  BY DEF LoaderErrors
<1>3. ASSUME NEW error, ThreadRaises(c, error) PROVE QInv'
  BY <1>1, <1>3, ThreadRaisesGoesOn
<1>4. ASSUME NEW error \in Interruptions \cup {"error", "timeout"}, TaskEnds(c, error) PROVE QInv'
  BY <1>1, <1>2, <1>4, TaskEndsGoesOn
<1>5. CASE OwnLoad(c, Null, "error")
  BY <1>1, <1>2, <1>5, OwnLoadGoesOn
<1> QED
  BY <1>1, <1>3, <1>4, <1>5 DEF LoaderRaises

LEMMA SloBreachedGoesOn ==
    ASSUME QInv, QTypeOK', Inv', NEW c \in Callers, SloBreached(c) PROVE QInv'
<1> DEFINE s == [NoCall EXCEPT !.error = "error"]
           q == [asked[c] EXCEPT !.loaded = FALSE]
<1>1. /\ pc[c] = "idle" /\ Becomes(c, s) /\ Asks(c, q) /\ pc' = pc
      /\ UNCHANGED <<cache, flight, db, writing, acked, overtaken>>
  BY DEF SloBreached, Becomes, Asks
<1>2. QTypeOK /\ asked[c] \in Queries /\ s.value = Null /\ s.flight = Null
  BY DEF QInv, QTypeOK, NoCall
<1>3. q.seen = asked[c].seen /\ q.key = asked[c].key
  BY <1>2 DEF Queries
<1> HIDE DEF s, q
<1>4. Goto(c, "idle")
  BY <1>1, <1>2 DEF Goto, QTypeOK, TypeOK
<1>5. OthersWait(c) /\ pc'[c] = "idle" /\ call'[c] = s /\ asked'[c] = q
  BY <1>1, <1>2, <1>4, CallerAt
<1>6. ~Leading(c)' /\ ~Leading(c) /\ call[c].flight = Null
  BY <1>1, <1>5, Holding DEF Leading, LeaderPlaces
<1>7. FlightsHeld' /\ \A d \in Callers \ {c} : Answered(d)'
  BY <1>1, <1>2, <1>5, <1>6, HeldAsBefore
<1>8. Reads(c) /\ Answered(c)'
  BY <1>2, <1>3, <1>5 DEF Reads, Landing, Answered
<1> QED
  BY <1>1, <1>5, <1>7, <1>8, CallerKeeps

-----------------------------------------------------------------------------
(* Commands and expiry *)

\* A step of no caller
LEMMA NoCallerKeeps ==
    ASSUME QInv, QTypeOK', Inv', UNCHANGED <<flights, flight, pc, call, asked>>,
           \A k \in Keys : VersionsMove(k)
    PROVE  QInv'
<1>1. VersionsAgree'
  BY VersionsKept
<1>2. \A c \in Callers : Floored(c)'
  <2>1. ASSUME NEW c \in Callers PROVE Floored(c)'
    <3>1. CASE pc[c] = "idle"
      BY <3>1 DEF Floored
    <3>2. CASE pc[c] # "idle"
      BY <3>2, FlooredKept
    <3> QED
      BY <3>1, <3>2
  <2> QED
    BY <2>1
<1>3. FlightsHeld'
  BY DEF QInv, FlightsHeld, Leading
<1>4. \A c \in Callers : Answered(c)'
  BY DEF QInv, Answered
<1> QED
  BY <1>1, <1>2, <1>3, <1>4 DEF QInv

LEMMA NotBusy == ASSUME QTypeOK, NEW k \in Keys, ~Busy(k) PROVE Underway(k) = {}
<1>1. Null \notin Versions
  BY SingleFlightAssumption, QueryAssumption DEF Versions
<1> QED
  BY <1>1 DEF Busy, Underway, Landing

LEMMA CommitKeeps ==
    ASSUME QInv, QTypeOK', Inv', NEW w \in Writers, NEW k \in Keys, Commit(w, k) PROVE QInv'
<1>1. /\ db' = [db EXCEPT ![k] = @ + 1]
      /\ writing' = [writing EXCEPT ![w] = [key |-> k, version |-> db[k] + 1]]
      /\ overtaken' = IF Busy(k) THEN overtaken \cup {k} ELSE overtaken
      /\ UNCHANGED <<cache, flights, flight, pc, call, asked, acked>>
  BY DEF Commit, vars
<1>2. QTypeOK /\ db \in [Keys -> Versions] /\ writing \in [Writers -> Writes \cup {Null}]
  BY DEF QInv, QTypeOK
<1>3. ASSUME NEW j \in Keys PROVE VersionsMove(j)
  <2>1. db[j] \in Nat /\ db'[j] \in Nat /\ acked[j] \in Nat
    BY <1>2, VersionTypes, VersionTypesNext
  <2>2. db'[j] = IF j = k THEN db[j] + 1 ELSE db[j]
    BY <1>1, <1>2
  <2>3. Underway(j)' \subseteq Underway(j) \cup {db'[j]}
    <3>1. SUFFICES ASSUME NEW v \in Underway(j)', v \notin Underway(j) PROVE v = db'[j]
      OBVIOUS
    <3>2. PICK u \in Writers : writing'[u] # Null /\ writing'[u] = [key |-> j, version |-> v]
      BY <1>1, <3>1 DEF Underway, Versions
    <3>3. v \in Versions
      BY <3>1 DEF Underway, Versions
    <3>4. u = w
      BY <1>1, <1>2, <3>1, <3>2, <3>3 DEF Underway
    <3>5. [key |-> j, version |-> v] = [key |-> k, version |-> db[k] + 1]
      BY <1>1, <1>2, <3>2, <3>4
    <3>6. j = k /\ v = db[k] + 1
      BY <3>5
    <3> QED
      BY <2>2, <3>6
  <2>4. j \notin overtaken' => db'[j] = db[j] \/ Underway(j) = {}
    BY <1>1, <1>2, <2>2, NotBusy
  <2>5. j \in overtaken => j \in overtaken'
    BY <1>1
  <2>6. db[j] <= db'[j] /\ cache'[j] = cache[j] /\ acked'[j] = acked[j]
    BY <1>1, <2>1, <2>2
  <2> QED
    BY <2>3, <2>4, <2>5, <2>6 DEF VersionsMove
<1> QED
  BY <1>1, <1>3, NoCallerKeeps

LEMMA SynchronizeKeepsVersions ==
    ASSUME QInv, QTypeOK', Inv', NEW w \in Writers, NEW how \in Syncs, Synchronize(w, how)
    PROVE  QInv'
<1> DEFINE k == writing[w].key
           version == writing[w].version
<1>1. /\ cache' = [cache EXCEPT ![k] = IF how = "evict" THEN Null ELSE version]
      /\ acked' = [acked EXCEPT ![k] = IF version > @ THEN version ELSE @]
      /\ writing' = [writing EXCEPT ![w] = Null]
      /\ UNCHANGED <<flights, flight, pc, call, made, db, asked, overtaken>>
  BY DEF Synchronize, Synchronized
<1>2. QTypeOK /\ cache \in [Keys -> Values \cup {Null}] /\ acked \in [Keys -> Versions]
      /\ writing \in [Writers -> Writes \cup {Null}]
  BY DEF QInv, QTypeOK, TypeOK
<1>3. writing[w] # Null /\ writing[w] \in Writes
  BY <1>2 DEF Synchronize
<1>4. k \in Keys /\ version \in Values /\ writing[w] = [key |-> k, version |-> version]
  BY <1>3 DEF Writes
<1>5. version \in Underway(k)
  BY <1>3, <1>4 DEF Underway, Versions
<1> HIDE DEF k, version
<1>6. ASSUME NEW j \in Keys PROVE VersionsMove(j)
  <2>1. db[j] \in Nat /\ acked[j] \in Nat /\ Underway(j) \subseteq Nat
    BY <1>2, VersionTypes
  <2>2. Underway(j)' \subseteq Underway(j)
    <3>1. \A u \in Writers : writing'[u] # Null => writing'[u] = writing[u]
      BY <1>1, <1>2
    <3> QED
      BY <1>1, <3>1 DEF Underway, Versions
  <2>3. cache'[j] \in {cache[j], Null} \cup Underway(j)
    BY <1>1, <1>2, <1>4, <1>5
  <2>4. \/ acked'[j] = acked[j]
        \/ /\ acked'[j] \in Underway(j) /\ acked[j] <= acked'[j]
           /\ cache'[j] # Null => cache'[j] = acked'[j]
    <3>1. CASE j = k /\ version > acked[j]
      BY <1>1, <1>2, <1>5, <2>1, <3>1
    <3>2. CASE ~(j = k /\ version > acked[j])
      BY <1>1, <1>2, <3>2
    <3> QED
      BY <3>1, <3>2
  <2> QED
    BY <1>1, <2>1, <2>2, <2>3, <2>4 DEF VersionsMove
<1> QED
  BY <1>1, <1>6, NoCallerKeeps

LEMMA WriteFailsKeeps ==
    ASSUME QInv, QTypeOK', Inv', NEW w \in Writers, WriteFails(w) PROVE QInv'
<1>1. /\ writing' = [writing EXCEPT ![w] = Null]
      /\ UNCHANGED <<cache, flights, flight, pc, call, db, asked, acked, overtaken>>
  BY DEF WriteFails, vars
<1>2. QTypeOK /\ \A u \in Writers : writing'[u] # Null => writing'[u] = writing[u]
  BY <1>1 DEF QInv, QTypeOK
<1>3. ASSUME NEW j \in Keys PROVE VersionsMove(j)
  <2>1. db[j] <= db[j]
    BY <1>2, VersionTypes
  <2>2. Underway(j)' \subseteq Underway(j)
    BY <1>1, <1>2 DEF Underway, Versions
  <2> QED
    BY <1>1, <2>1, <2>2 DEF VersionsMove
<1> QED
  BY <1>1, <1>3, NoCallerKeeps

LEMMA ExpireKeeps == ASSUME QInv, QTypeOK', Inv', NEW k \in Keys, Expire(k) PROVE QInv'
<1>1. /\ cache' = [cache EXCEPT ![k] = Null]
      /\ overtaken' = IF Busy(k) THEN overtaken ELSE overtaken \ {k}
      /\ UNCHANGED <<flights, flight, pc, call, db, writing, asked, acked>>
  BY DEF Expire, Vanish
<1>2. QTypeOK /\ cache \in [Keys -> Values \cup {Null}]
  BY DEF QInv, QTypeOK, TypeOK
<1>3. ASSUME NEW j \in Keys PROVE VersionsMove(j)
  <2>1. db[j] <= db[j]
    BY <1>2, VersionTypes
  <2>2. Underway(j)' = Underway(j)
    BY <1>1 DEF Underway, Versions
  <2>3. j \in overtaken /\ j \notin overtaken' => cache'[j] = Null /\ Underway(j) = {}
    BY <1>1, <1>2, NotBusy
  <2> QED
    BY <1>1, <1>2, <2>1, <2>2, <2>3 DEF VersionsMove
<1> QED
  BY <1>1, <1>3, NoCallerKeeps

-----------------------------------------------------------------------------
(* The theorems *)

LEMMA QInitInv == QInit => QInv
<1> SUFFICES ASSUME QInit PROVE QInv
  OBVIOUS
<1>1. Inv /\ TypeOK
  BY InitInv DEF QInit, Inv, FlightInv
<1>2. QTypeOK
  BY <1>1 DEF QInit, QTypeOK, Queries, Versions
<1>3. pc = [c \in Callers |-> "idle"] /\ call = [c \in Callers |-> NoCall]
      /\ flight = [f \in FlightIds |-> NewFlight]
      /\ NoCall.value = Null /\ NewFlight.value = Null
  BY DEF QInit, Init, NoCall, NewFlight
<1> HIDE DEF NoCall, NewFlight
<1>4. FlightsHeld
  BY <1>3 DEF FlightsHeld, Leading, LeaderPlaces
<1>5. \A c \in Callers : Floored(c) /\ Answered(c)
  BY <1>3 DEF Floored, Answered
<1>6. \A k \in Keys : Underway(k) = {}
  <2>1. SUFFICES ASSUME NEW k \in Keys PROVE ~Busy(k)
    BY <1>2, NotBusy
  <2> QED
    BY <1>3 DEF Busy, QInit
<1>7. VersionsAgree
  BY <1>6 DEF VersionsAgree, QInit, Init
<1> QED
  BY <1>1, <1>2, <1>4, <1>5, <1>7 DEF QInv

LEMMA QNextKeeps == QInv /\ [QNext]_allvars => QInv'
<1> SUFFICES ASSUME QInv, [QNext]_allvars PROVE QInv'
  OBVIOUS
<1>1. QTypeOK' /\ Inv'
  BY TypesKept, QNextKeepsInv DEF QInv
<1>2. ASSUME NEW c \in Callers, NEW k \in Keys, Fetch(c, k) PROVE QInv'
  BY <1>1, <1>2, FetchKeeps
<1>3. ASSUME NEW c \in Callers, QStep(c) PROVE QInv'
  <2>1. CASE (Join(c) \/ Set(c) \/ Finish(c)) /\ UNCHANGED dbvars
    BY <1>1, <2>1, JoinGoesOn, SetGoesOn, FinishGoesOn
  <2>2. CASE (Pop(c) \/ Served(c) \/ Fallback(c)) /\ UNCHANGED dbvars
    BY <1>1, <2>2, PopGoesOn, ServedGoesOn, FallbackGoesOn
  <2>3. CASE Read(c) \/ LoadReturns(c) \/ LoadRaises(c)
    BY <1>1, <2>3, ReadGoesOn, LoadReturnsGoesOn, LoadRaisesGoesOn
  <2> QED
    BY <1>3, <2>1, <2>2, <2>3 DEF QStep
<1>4. ASSUME NEW c \in Callers, SloBreached(c) PROVE QInv'
  BY <1>1, <1>4, SloBreachedGoesOn
<1>5. ASSUME NEW c \in Callers, FillTimeout(c) \/ Interrupted(c), UNCHANGED dbvars PROVE QInv'
  BY <1>1, <1>5, FillTimeoutGoesOn, InterruptedGoesOn
<1>6. ASSUME NEW w \in Writers, NEW k \in Keys, Commit(w, k) PROVE QInv'
  BY <1>1, <1>6, CommitKeeps
<1>7. ASSUME NEW w \in Writers, NEW how \in Syncs, Synchronize(w, how) PROVE QInv'
  BY <1>1, <1>7, SynchronizeKeepsVersions
<1>8. ASSUME NEW w \in Writers, WriteFails(w) PROVE QInv'
  BY <1>1, <1>8, WriteFailsKeeps
<1>9. ASSUME NEW k \in Keys, Expire(k) PROVE QInv'
  BY <1>1, <1>9, ExpireKeeps
<1>10. CASE QFinished \/ UNCHANGED allvars
  <2>1. UNCHANGED <<cache, flights, flight, pc, call, db, writing, asked, acked, overtaken>>
    BY <1>10 DEF QFinished, Finished, vars, dbvars, allvars
  <2>2. ASSUME NEW k \in Keys PROVE VersionsMove(k)
    <3>1. Underway(k)' = Underway(k) /\ db[k] <= db[k]
      BY <2>1, VersionTypes DEF Underway, Versions, QInv
    <3> QED
      BY <2>1, <3>1 DEF VersionsMove
  <2> QED
    BY <1>1, <2>1, <2>2, NoCallerKeeps
<1> QED
  BY <1>2, <1>3, <1>4, <1>5, <1>6, <1>7, <1>8, <1>9, <1>10 DEF QNext

LEMMA QInvariance == QSpec => []QInv
  BY QInitInv, QNextKeeps, PTL DEF QSpec

\* A query of fetch(), or of a reader on an event loop, sees the last write of
\* mutate() that had returned when it began, for any number of either, whichever
\* of the cache, a shared flight, a stale fallback or the database answers it,
\* and whatever expires, fails or is interrupted meanwhile; only a commit behind
\* the back of a load or of another command suspends it.
THEOREM ReadsFollowWrites == QSpec => []ReadAfterWrite
<1>1. QInv => ReadAfterWrite
  <2> SUFFICES ASSUME QInv, NEW c \in Callers, pc[c] = "idle", call[c].value # Null
               PROVE  call[c].value >= asked[c].floor
    BY DEF ReadAfterWrite
  <2>1. asked[c].floor <= call[c].value
    BY DEF QInv, Answered
  <2>2. call[c] \in Calls /\ asked[c] \in Queries /\ Versions \subseteq Nat
    BY QueryAssumption DEF QInv, QTypeOK, TypeOK, Versions
  <2>3. call[c].value \in Nat /\ asked[c].floor \in Nat
    BY <2>2, QueryAssumption DEF Calls, Queries
  <2> QED
    BY <2>1, <2>3
<1> QED
  BY <1>1, QInvariance, PTL

\* The commands that evict and hydrate beside the flights, and the latency check
\* that withdraws an answer, leave each flight its one leader, an interruption
\* with its caller, and a filled key unloaded.
THEOREM FlightsUnderCommands == QSpec => [](FlightInv /\ InterruptsStayHome /\ OneFill)
<1>1. QInv => FlightInv /\ InterruptsStayHome /\ OneFill
  BY DEF QInv, Inv, CallsShaped, Shaped, InterruptsStayHome
<1> QED
  BY <1>1, QInvariance, PTL
=============================================================================
