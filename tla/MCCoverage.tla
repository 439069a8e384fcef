----------------------------- MODULE MCCoverage -----------------------------
(***************************************************************************)
(* Every window and index over a short chain, the chain finalizing between *)
(* any two calls.                                                          *)
(***************************************************************************)
EXTENDS Coverage, TLC

\* Nodes are told apart by nothing but what they have finalized.
NodeSymmetry == Permutations(Nodes)
=============================================================================
