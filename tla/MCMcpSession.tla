---------------------------- MODULE MCMcpSession ---------------------------
(* A bounded instance of McpSession, and of McpRequests for one message    *)
(* alone: in a behaviour either the requests of a session interleave, or   *)
(* one message is handled, or one client goes through a list.              *)
EXTENDS McpSession, McpRequests, TLC

MCInit == Init /\ (Idle \/ (backend = "disk" /\ RequestsInit))

MCNext ==
    \/ Idle /\ Next /\ UNCHANGED requestVars
    \/ RequestsNext /\ UNCHANGED vars

MCSpec == MCInit /\ [][MCNext]_<<vars, requestVars>>

Symmetry == Permutations(Worker) \cup Permutations(RequestId)
=============================================================================
