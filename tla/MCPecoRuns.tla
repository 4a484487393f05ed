------------------------------ MODULE MCPecoRuns ------------------------------
(* Instances of PecoRuns for TLC; the connections of a user are alike. *)
EXTENDS PecoRuns, TLC

Symmetry == Permutations(Clients)
=============================================================================
