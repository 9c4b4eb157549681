--------------------------- MODULE MCLLMAdmission ---------------------------
(***************************************************************************)
(* Instances of LLMAdmission for TLC: two unary requests and a stream of   *)
(* two tenants, on a pod with one permit fewer than requests.              *)
(***************************************************************************)
EXTENDS LLMAdmission, TLC

CONSTANTS q1, q2, q3, ta, tb

MCRequests == {q1, q2, q3}
\* Every conversation of up to four messages
Messages == [class : Classes, tokens : 1..2]
MCConversations == UNION {[1..n -> Messages] : n \in 1..4}

\* The unary requests are interchangeable
MCSymmetry == Permutations({q1, q2})

MCTenantOf == (q1 :> ta) @@ (q2 :> ta) @@ (q3 :> tb)
=============================================================================
