---------------------------- MODULE MCAgentLooper ----------------------------
(* The loop for TLC: calls are interchangeable.                            *)
EXTENDS AgentLooper

CallSymmetry == Permutations(CallIds)
=============================================================================
