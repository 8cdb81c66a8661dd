-------------------------- MODULE MCConsensusGate --------------------------
(* The model-checking instances of ConsensusGate. *)
EXTENDS ConsensusGate, TLC

\* The agents are interchangeable: no action or invariant singles one out.
AgentSymmetry == Permutations(Agents)
============================================================================
