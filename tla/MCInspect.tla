------------------------------ MODULE MCInspect ------------------------------
(***************************************************************************)
(* One account against two nodes.  As in MCReconcile the index holds `a`,  *)
(* and the chain stops when the call has ended.                            *)
(***************************************************************************)
EXTENDS Inspect, TLC

CONSTANTS a, b, odd

\* Two contents that decode and one under an unknown discriminator.
MCClass == a :> "decodes" @@ b :> "decodes" @@ odd :> "unknown_layout"
OneKey == [n \in Nodes |-> 1]

MCInit == InspectInit /\ indexed[1] = a
MCNext == ~Ended /\ InspectNext
MCSpec == MCInit /\ [][MCNext]_allVars
MCFairSpec == MCSpec /\ WF_allVars(CallProgress)

\* Nodes are told apart by nothing but how far they have come.
NodeSymmetry == Permutations(Nodes)
=============================================================================
