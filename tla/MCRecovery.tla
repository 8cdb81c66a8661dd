----------------------------- MODULE MCRecovery -----------------------------
(* The model-checking instance of Recovery. *)
EXTENDS Recovery, TLC

\* Every message goes to everybody else.
Everybody == {Agents}

AgentSymmetry == Permutations(Agents)
=============================================================================
