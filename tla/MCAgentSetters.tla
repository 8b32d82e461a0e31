--------------------------- MODULE MCAgentSetters ---------------------------
(* Instances of AgentSetters for TLC. *)
EXTENDS AgentSetters, TLC

Symmetry == Permutations(Proc)
=============================================================================
