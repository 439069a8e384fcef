----------------------------- MODULE MCSentinel -----------------------------
(***************************************************************************)
(* NumRows accounts of a program against a pool of nodes.                  *)
(*                                                                         *)
(* Four reductions.  The listing comes in every order, so accounts may be  *)
(* named in the order of what they hold first.  An account of another type *)
(* is listed no more than one that is absent, so none holds `other` first. *)
(* The chain stops with the command.  Of --since and --sample only some    *)
(* values: no deploy comes after the last slot, and 2 and 3 of up to 4     *)
(* accounts give every kind of stride.                                     *)
(***************************************************************************)
EXTENDS Sentinel, TLC

CONSTANTS good, bad, other, n1, n2

\* One node takes one key a call, the other two.
MixedCaps == n1 :> 1 @@ n2 :> 2
Rank == good :> 1 @@ bad :> 2 @@ Absent :> 3

MCInit ==
  /\ Init
  /\ since \in {0, NoSlot} /\ sampleSize \in {0, 2, 3, NoSample}
  /\ \A r \in Rows : bytes[r][0] # other
  /\ \A r \in Rows \ {1} : Rank[bytes[r - 1][0]] <= Rank[bytes[r][0]]
MCNext == stage # "end" /\ Next
MCSpec == MCInit /\ [][MCNext]_vars
MCFairSpec == MCSpec /\ WF_vars(Progress)
=============================================================================
