----------------------------- MODULE MCWorkflow -----------------------------
(***************************************************************************)
(* Instances of Workflow for TLC: deliveries of one request, each under a  *)
(* correlation id of its own, with one business content.  The second one's *)
(* classification is in doubt, in its intent and in its score.             *)
(***************************************************************************)
EXTENDS Workflow, TLC

CONSTANTS d1, d2, d3, oa, ob, oc, c1

MCDeliveries == {d1, d2, d3}
MCOwners == {oa, ob, oc}
MCOwnerOf == (d1 :> oa) @@ (d2 :> ob) @@ (d3 :> oc)
MCContentOf == [d \in MCDeliveries |-> c1]

ToolCall == [intent |-> "API_TOOL_CALL", confident |-> TRUE]
Doubtful == [intent |-> "API_TOOL_CALL", confident |-> FALSE]
ModelOnly == [intent |-> "LLM_ONLY", confident |-> TRUE]
MCCertain == [d \in MCDeliveries |-> {ToolCall}]
MCRoutingsOf == [MCCertain EXCEPT ![d2] = {ToolCall, Doubtful, ModelOnly}]

MCGoverned == {d3}
MCNobody == {}
MCFaults == AllFaults
=============================================================================
