--------------------------- MODULE MCQueryService ---------------------------
(***************************************************************************)
(* Instance of QueryService for TLC: two threads and two tasks that ask    *)
(* for one aggregate, and two commands that change it.                     *)
(***************************************************************************)
EXTENDS QueryService
=============================================================================
