---------------------------- MODULE MCSlotWindows ----------------------------
(***************************************************************************)
(* Every start, end and max of a type whose largest value is MaxU64.       *)
(***************************************************************************)
EXTENDS SlotWindows
=============================================================================
