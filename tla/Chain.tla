-------------------------------- MODULE Chain --------------------------------
(***************************************************************************)
(* The cluster as the coverage checks meet it through an RPC endpoint: the *)
(* finalized slots that carry a block, and how far each node behind the    *)
(* endpoint has finalized them.  Finality is never undone.  None of this   *)
(* is code of the crate; it is what getSlot and getBlocks answer from.     *)
(***************************************************************************)
EXTENDS Naturals

CONSTANTS Nodes,     \* the nodes one RPC URL may route a call to
          MaxSlot    \* bound: the last slot the modelled chain finalizes

ASSUME MaxSlotAssumption == MaxSlot \in Nat

VARIABLES tip,        \* the last finalized block's slot, 0 at first
          produced,   \* the slots of all finalized blocks
          root        \* root[n]: the last block node n knows to be finalized

chainVars == <<tip, produced, root>>

ChainTypeOK ==
  /\ tip \in 0..MaxSlot
  /\ produced \in SUBSET (1..tip)
  /\ root \in [Nodes -> produced \cup {0}]

ChainInit ==
  /\ tip = 0
  /\ produced = {}
  /\ root = [n \in Nodes |-> 0]

\* A block finalizes; the leaders of the slots before it skipped theirs.
Finalize ==
  /\ \E slot \in (tip + 1)..MaxSlot :
        /\ tip' = slot
        /\ produced' = produced \cup {slot}
  /\ UNCHANGED root

\* A node learns of a later finalized block.
CatchUp(n) ==
  /\ \E slot \in produced : slot > root[n] /\ root' = [root EXCEPT ![n] = slot]
  /\ UNCHANGED <<tip, produced>>

ChainNext == Finalize \/ \E n \in Nodes : CatchUp(n)

\* What getBlocks(from, to) returns from node n.
BlocksAt(n, from, to) == {slot \in produced : from <= slot /\ slot <= to /\ slot <= root[n]}

\* One node answers every call: an endpoint that is a node, or sticky routing.
OneNode == \A m, n \in Nodes : m = n
=============================================================================
