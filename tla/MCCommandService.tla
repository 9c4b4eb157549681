-------------------------- MODULE MCCommandService --------------------------
(***************************************************************************)
(* Instances of CommandService for TLC: two commands computed from one     *)
(* version of the aggregate, two deliveries of the one and one of the      *)
(* other, of which two hold leases with fencing tokens; the second command *)
(* may also be one that changes no aggregate.                              *)
(***************************************************************************)
EXTENDS CommandService, TLC

CONSTANTS m1, m2, d1, d2, d3

MCDeliveries == {d1, d2, d3}
MCCommandOf == (d1 :> m1) @@ (d2 :> m1) @@ (d3 :> m2)
MCExpectedOf == (m1 :> 0) @@ (m2 :> 0)
MCServices == {{m1, m2}, {m1}}
MCTokenOf == (d1 :> 1) @@ (d2 :> 0) @@ (d3 :> 2)
=============================================================================
