--------------------------- MODULE MCBuildPipeline ---------------------------
(***************************************************************************)
(* Instances of BuildPipeline for TLC: two builds of one generator key and *)
(* one of another tenant's key, which shares the abstract class.           *)
(***************************************************************************)
EXTENDS BuildPipeline, TLC

CONSTANTS b1, b2, b3, g1, g2, ta, tb

MCKeyOf == (b1 :> g1) @@ (b2 :> g1) @@ (b3 :> g2)
MCTenantOf == (b1 :> ta) @@ (b2 :> ta) @@ (b3 :> tb)
=============================================================================
