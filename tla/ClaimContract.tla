--------------------------- MODULE ClaimContract ---------------------------
(***************************************************************************)
(* What BaseIdempotencyStore promises about a key, without records, owner  *)
(* names or clocks: who may be granted a key, who may settle it, and which *)
(* of its states are final.  IdempotencyStore implements it.               *)
(***************************************************************************)
CONSTANTS
    Keys, Callers,
    Reconcilers,   \* the callers that claim with recover=True
    Forgetful,     \* whether claims carry a ttl
    Null

VARIABLES
    phase,         \* of each key
    worker         \* the caller each key was last granted to

cvars == <<phase, worker>>

Phases == {"open", "held", "lapsed", "parked", "succeeded", "refused"}

Init ==
    /\ phase = [k \in Keys |-> "open"]
    /\ worker = [k \in Keys |-> Null]

\* An open key is granted to any caller
Grant(p, k) ==
    /\ phase[k] = "open"
    /\ phase' = [phase EXCEPT ![k] = "held"]
    /\ worker' = [worker EXCEPT ![k] = p]

\* An unresolved key is granted to reconcilers alone
Recover(p, k) ==
    /\ phase[k] \in {"lapsed", "parked"}
    /\ p \in Reconcilers
    /\ phase' = [phase EXCEPT ![k] = "held"]
    /\ worker' = [worker EXCEPT ![k] = p]

\* A granted key is settled by its worker, also when the lease has lapsed
Settle(p, k) ==
    /\ phase[k] \in {"held", "lapsed"}
    /\ worker[k] = p
    /\ \E f \in {"succeeded", "refused", "open", "parked"} :
          phase' = [phase EXCEPT ![k] = f]
    /\ UNCHANGED worker

\* Time: leases lapse, and a forgetful store drops records
Elapse ==
    /\ phase' \in [Keys -> Phases]
    /\ \A k \in Keys :
          \/ phase'[k] = phase[k]
          \/ phase[k] = "held" /\ phase'[k] = "lapsed"
          \/ Forgetful /\ phase'[k] = "open"
    /\ UNCHANGED worker

Next ==
    \/ \E p \in Callers, k \in Keys : Grant(p, k) \/ Recover(p, k) \/ Settle(p, k)
    \/ Elapse

Spec == Init /\ [][Next]_cvars
=============================================================================
