--------------------------- MODULE MCAgentRuntime ---------------------------
(* AgentRuntime for TLC: the constants come from the cfg files. *)
EXTENDS AgentRuntime, TLC

(* Requests and correlation ids are interchangeable. *)
Symmetry == Permutations(Requests) \cup Permutations(RunIds)
=============================================================================
