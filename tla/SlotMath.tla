------------------------------ MODULE SlotMath ------------------------------
(***************************************************************************)
(* Slots are u64 in the crate.  MaxU64 stands for u64::MAX, so a model can *)
(* bring the end of the type within reach of a window.                     *)
(***************************************************************************)
EXTENDS Naturals

CONSTANT MaxU64

ASSUME MaxU64Assumption == MaxU64 \in Nat

Heights == 0..MaxU64

Lower(a, b) == IF a <= b THEN a ELSE b

SaturatingAdd(a, b) == Lower(a + b, MaxU64)

\* Slip: the window is as long as `max` says, plus one.
WindowEndOneMore(from, end, max) == Lower(SaturatingAdd(from, max), end)

\* The last slot of the window of at most `max` slots that begins at `from`.
WindowEnd(from, end, max) == Lower(SaturatingAdd(from, max - 1), end)
=============================================================================
