----------------------------- MODULE MCReconcile -----------------------------
(***************************************************************************)
(* A sample of NumRows rows against a pool of nodes with different caps.   *)
(*                                                                         *)
(* Two reductions.  Every row holds `a` in the index: rows are never       *)
(* compared with each other, so swapping values in one row's history and   *)
(* index changes nothing.  The chain stops when the check is done: what it *)
(* held after a past slot does not change.                                 *)
(***************************************************************************)
EXTENDS Reconcile, TLC

CONSTANTS a, n1, n2

\* One node takes one key a call, the other two.
MixedCaps == n1 :> 1 @@ n2 :> 2

MCInit == Init /\ \A r \in Rows : indexed[r] = a
MCNext == phase # "done" /\ Next
MCSpec == MCInit /\ [][MCNext]_vars
MCFairSpec == MCSpec /\ WF_vars(Progress)
=============================================================================
